---------------------------- MODULE StreamProofs ----------------------------
(***************************************************************************)
(* Proofs about the programs that write and read the event and trigger     *)
(* streams: the scheduler and the poller of CronTrigger, the writers of    *)
(* EventSources, and the pusher of LivePush.  They share what Redis        *)
(* returns of a stream; each has an inductive invariant of its own.        *)
(***************************************************************************)
EXTENDS CronTrigger, EventSources, LivePush, Integers, FiniteSetTheorems, SequenceTheorems,
        TLAPS

-----------------------------------------------------------------------------
(* What Redis returns                                                      *)

\* What a read returns lies behind the group's position and within the stream.
LEMMA FreshRun ==
  ASSUME NEW f \in Nat, NEW a \in Nat, NEW d \in Nat, NEW c \in Nat,
         Fresh(f, a, d, c) # {}
  PROVE  /\ FreshFrom(f, d) \in Nat /\ FreshTo(f, a, d, c) \in Nat
         /\ d < FreshFrom(f, d)
         /\ FreshFrom(f, d) <= FreshTo(f, a, d, c)
         /\ FreshTo(f, a, d, c) <= a
         /\ Fresh(f, a, d, c) = FreshFrom(f, d) .. FreshTo(f, a, d, c)
BY DEF Fresh, FreshFrom, FreshTo

\* The messages of a read are the run's entries, in order.
LEMMA RunIsSeq ==
  ASSUME NEW S, NEW from \in Nat, NEW to \in Nat, from <= to, from .. to \subseteq S
  PROVE  /\ MessagesOf(from, to) \in Seq(S)
         /\ Len(MessagesOf(from, to)) = to - from + 1
         /\ \A k \in 1 .. (to - from + 1) : MessagesOf(from, to)[k] = from + k - 1
<1>1. \A k \in 1 .. (to - from + 1) : from + k - 1 \in S
  OBVIOUS
<1>2. MessagesOf(from, to) \in [1 .. (to - from + 1) -> S]
  BY <1>1 DEF MessagesOf
<1>. QED
  BY <1>2 DEF MessagesOf

\* What is left of a run when its first message is done.
LEMMA RestOfRun ==
  ASSUME NEW S, NEW q \in Seq(S), q # <<>>
  PROVE  /\ Tail(q) \in Seq(S) /\ Len(q) \in Nat \ {0}
         /\ Len(Tail(q)) = Len(q) - 1
         /\ \A k \in 1 .. (Len(q) - 1) : Tail(q)[k] = q[k + 1]
         /\ Tail(q) = <<>> <=> Len(q) = 1
<1>1. Len(q) \in Nat \ {0}
  BY EmptySeq
<1>2. /\ Tail(q) \in Seq(S)
      /\ Len(Tail(q)) = Len(q) - 1
      /\ \A k \in 1 .. (Len(q) - 1) : Tail(q)[k] = q[k + 1]
  BY <1>1, HeadTailProperties
<1>3. Tail(q) = <<>> <=> Len(Tail(q)) = 0
  BY <1>2, EmptySeq
<1>. QED
  BY <1>1, <1>2, <1>3

-----------------------------------------------------------------------------
(* The triggers of scheduled agents: CronTrigger                           *)

\* The firings under way are some of those counted; every entry of the stream
\* stems from a firing that is over or from a write that was repeated.
CountInv ==
    /\ firing \subseteq 1 .. fired
    /\ written + Cardinality(firing) <= fired + mishaps

\* What the group handed over lies before its position, and its position
\* within the stream.
GroupInv ==
    /\ position <= written
    /\ taken \subseteq 1 .. position
    /\ pending \subseteq 1 .. position

\* A poller works through a run of the entries handed over, without a gap.
BatchOf(o) ==
    /\ poller[o] \in {"send", "ack"} => messages[o] # <<>>
    /\ poller[o] \notin {"send", "ack"} => messages[o] = <<>>
    /\ \A k \in 1 .. Len(messages[o]) :
          messages[o][k] = messages[o][1] + k - 1 /\ messages[o][k] \in taken

\* Nothing behind the message a poller is at was posted by it, nor anything that
\* was not handed over; a message waiting for its ack was posted.
PostsOf(o) ==
    /\ \A j \in Triggers : posts[o][j] > 0 => j \in taken
    /\ poller[o] = "send" => \A j \in Triggers : j >= messages[o][1] => posts[o][j] = 0
    /\ poller[o] = "ack" =>
          /\ messages[o][1] \in succeeded
          /\ \A j \in Triggers : j > messages[o][1] => posts[o][j] = 0

\* The entries an observer holds.
Holds(o) == {messages[o][k] : k \in 1 .. Len(messages[o])}

\* Two observers hold no entry in common, nor one that the other posted.
ApartInv ==
    \A o, q \in Observers : o # q =>
        /\ Holds(o) \cap Holds(q) = {}
        /\ \A i \in Holds(o) : posts[q][i] = 0

PollersInv == (\A o \in Observers : BatchOf(o) /\ PostsOf(o)) /\ ApartInv

PollerTypes ==
    /\ poller \in [Observers -> {"down", "poll", "send", "ack", "gone"}]
    /\ messages \in [Observers -> Seq(Triggers)]
    /\ posts \in [Observers -> [Triggers -> Nat]]

CronInv == RecordsAgree /\ CountInv /\ GroupInv /\ PollersInv

\* The initial states satisfy the invariant.
LEMMA CronInitInv == CronInit => CronInv
<1>. SUFFICES ASSUME CronInit PROVE CronInv
  OBVIOUS
<1>. USE DEF CronInit
<1>1. CronTypeOK
  <2>1. <<>> \in Seq(Triggers) /\ [i \in Triggers |-> 0] \in [Triggers -> Nat]
    OBVIOUS
  <2>2. PollerTypes
    BY <2>1 DEF PollerTypes
  <2>3. made \in 0 .. MaxSyncs /\ fired \in 0 .. MaxTriggers /\ mishaps \in 0 .. MaxMishaps
    BY CronTriggerAssumption
  <2>4. /\ firing \subseteq Firings /\ stopped \in BOOLEAN /\ joined \in BOOLEAN
        /\ entries \subseteq [id : 1 .. MaxSyncs, schedule : Schedules, prompt : Prompts]
        /\ job \in {NoJob} /\ asked \in {NoJob}
    OBVIOUS
  <2>5. /\ written \in {0} /\ position \in {0} /\ oldest \in Nat \ {0}
        /\ pending \subseteq Triggers /\ taken \subseteq Triggers
        /\ succeeded \subseteq Triggers
    OBVIOUS
  <2>. QED
    BY <2>2, <2>3, <2>4, <2>5 DEF CronTypeOK, PollerTypes
<1>2. OneEntryPerAgent /\ AckedIsDone
  BY DEF OneEntryPerAgent, AckedIsDone
<1>3. CountInv
  BY FS_EmptySet DEF CountInv
<1>4. GroupInv
  BY DEF GroupInv
<1>5. ASSUME NEW o \in Observers
      PROVE  BatchOf(o) /\ PostsOf(o) /\ Holds(o) = {}
  <2>1. messages[o] = <<>> /\ Len(messages[o]) = 0 /\ poller[o] = "down"
    OBVIOUS
  <2>2. \A j \in Triggers : posts[o][j] = 0
    OBVIOUS
  <2>. QED
    BY <2>1, <2>2 DEF BatchOf, PostsOf, Holds
<1>6. PollersInv
  BY <1>5 DEF PollersInv, ApartInv
<1>. QED
  BY <1>1, <1>2, <1>3, <1>4, <1>6 DEF CronInv, RecordsAgree

-----------------------------------------------------------------------------
(* The scheduler                                                           *)

\* The firings under way are finitely many, and leave room in the stream.
LEMMA FiringIsFinite ==
  ASSUME CronTypeOK, CountInv
  PROVE  /\ IsFiniteSet(firing) /\ Cardinality(firing) \in Nat
         /\ written <= MaxTriggers + MaxMishaps
         /\ firing # {} => written < MaxTriggers + MaxMishaps
<1>1. IsFiniteSet(1 .. fired)
  BY FS_Interval DEF CronTypeOK
<1>2. IsFiniteSet(firing)
  BY <1>1, FS_Subset DEF CountInv
<1>3. Cardinality(firing) \in Nat
  BY <1>2, FS_CardinalityType
<1>4. firing # {} => Cardinality(firing) # 0
  BY <1>2, FS_EmptySet
<1>. QED
  BY <1>2, <1>3, <1>4, CronTriggerAssumption DEF CronTypeOK, CountInv, Triggers

\* The numbers CountInv is about.
LEMMA CountNumbers ==
  ASSUME CronTypeOK, CountInv
  PROVE  /\ written \in Nat /\ fired \in Nat /\ mishaps \in Nat
         /\ Cardinality(firing) \in Nat
         /\ written + Cardinality(firing) <= fired + mishaps
<1>1. written \in Nat /\ fired \in Nat /\ mishaps \in Nat
  BY CronTriggerAssumption DEF CronTypeOK, Triggers
<1>. QED
  BY <1>1, FiringIsFinite DEF CountInv

\* Where the pollers' variables stay, so does what is said of them.
LEMMA PollersKept ==
  ASSUME PollersInv, UNCHANGED <<taken, poller, messages, posts, succeeded>>
  PROVE  PollersInv'
<1>1. ASSUME NEW o \in Observers
      PROVE  BatchOf(o)' /\ PostsOf(o)' /\ Holds(o)' = Holds(o)
  <2>1. BatchOf(o) /\ PostsOf(o)
    BY DEF PollersInv
  <2>2. BatchOf(o)'
    BY <2>1 DEF BatchOf
  <2>3. PostsOf(o)'
    BY <2>1 DEF PostsOf
  <2>. QED
    BY <2>2, <2>3 DEF Holds
<1>2. ApartInv'
  BY <1>1 DEF PollersInv, ApartInv
<1>. QED
  BY <1>1, <1>2 DEF PollersInv

\* The steps that change neither the stream nor what the pollers and the
\* runtimes know.
LEMMA StreamKept ==
  ASSUME CronInv, UNCHANGED <<triggerVars, pollerVars, runtimeVars>>
  PROVE  /\ GroupInv' /\ PollersInv' /\ AckedIsDone'
         /\ written' \in Triggers \cup {0} /\ oldest' \in Nat \ {0}
         /\ joined' \in BOOLEAN /\ position' \in Triggers \cup {0}
         /\ pending' \subseteq Triggers /\ taken' \subseteq Triggers
         /\ poller' \in [Observers -> {"down", "poll", "send", "ack", "gone"}]
         /\ messages' \in [Observers -> Seq(Triggers)]
         /\ posts' \in [Observers -> [Triggers -> Nat]]
         /\ succeeded' \subseteq Triggers
<1>1. UNCHANGED <<written, oldest, joined, position, pending, taken, poller, messages,
                  posts, succeeded>>
  BY DEF triggerVars, pollerVars, runtimeVars
<1>2. GroupInv' /\ AckedIsDone'
  BY <1>1 DEF CronInv, RecordsAgree, GroupInv, AckedIsDone
<1>3. PollersInv'
  BY <1>1, PollersKept DEF CronInv
<1>. QED
  BY <1>1, <1>2, <1>3 DEF CronInv, RecordsAgree, CronTypeOK

\* Sync keeps the invariant.
LEMMA SyncInv ==
  ASSUME CronInv, NEW schedule \in Schedules, NEW prompt \in Prompts, Sync(schedule, prompt)
  PROVE  CronInv'
<1>0. CronTypeOK /\ OneEntryPerAgent /\ CountInv
  BY DEF CronInv, RecordsAgree
<1>1. /\ asked' = schedule
      /\ UNCHANGED <<fired, firing, stopped, mishaps>>
      /\ UNCHANGED <<triggerVars, pollerVars, runtimeVars>>
  BY DEF Sync
<1>2. written' = written
  BY <1>1 DEF triggerVars
<1>3. CountInv'
  BY <1>0, <1>1, <1>2 DEF CountInv
<1>4. /\ job' \in [id : 1 .. MaxSyncs, schedule : Schedules] \cup {NoJob}
      /\ entries' \subseteq [id : 1 .. MaxSyncs, schedule : Schedules, prompt : Prompts]
      /\ made' \in 0 .. MaxSyncs
      /\ {e.id : e \in entries'} = (IF job' = NoJob THEN {} ELSE {job'.id})
      /\ job' # NoJob => job'.schedule = asked'
      /\ job' = NoJob => asked' \in Invalid \cup {NoJob}
  <2>1. CASE Scheduled(schedule) /\ UNCHANGED <<job, entries, made>>
    BY <1>0, <1>1, <2>1 DEF Scheduled, CronTypeOK, OneEntryPerAgent
  <2>2. Unscheduled = {}
    BY <1>0 DEF Unscheduled, OneEntryPerAgent
  <2>3. CASE /\ made < MaxSyncs /\ made' = made + 1
             /\ job' = [id |-> made', schedule |-> schedule]
             /\ entries' = Unscheduled \cup
                   {[id |-> made', schedule |-> schedule, prompt |-> prompt]}
    <3>1. made' \in 1 .. MaxSyncs
      BY <1>0, <2>3, CronTriggerAssumption DEF CronTypeOK
    <3>2. job' # NoJob
      BY <2>3, <3>1, CronTriggerAssumption
    <3>. QED
      BY <1>1, <2>2, <2>3, <3>1, <3>2
  <2>4. CASE /\ schedule \in Invalid /\ job' = NoJob
             /\ entries' = Unscheduled /\ UNCHANGED made
    BY <1>0, <1>1, <2>2, <2>4 DEF CronTypeOK
  <2>. QED
    BY <2>1, <2>3, <2>4 DEF Sync, SyncChange
<1>. QED
  BY <1>0, <1>1, <1>3, <1>4, StreamKept DEF CronInv, RecordsAgree, CronTypeOK, OneEntryPerAgent

\* Remove keeps the invariant.
LEMMA RemoveInv == ASSUME CronInv, Remove PROVE CronInv'
<1>0. CronTypeOK /\ OneEntryPerAgent /\ CountInv
  BY DEF CronInv, RecordsAgree
<1>1. /\ entries' = Unscheduled /\ job' = NoJob /\ asked' = NoJob
      /\ UNCHANGED <<made, fired, firing, stopped, mishaps>>
      /\ UNCHANGED <<triggerVars, pollerVars, runtimeVars>>
  BY DEF Remove
<1>2. Unscheduled = {}
  BY <1>0 DEF Unscheduled, OneEntryPerAgent
<1>3. written' = written
  BY <1>1 DEF triggerVars
<1>. QED
  BY <1>0, <1>1, <1>2, <1>3, StreamKept
  DEF CronInv, RecordsAgree, CronTypeOK, OneEntryPerAgent, CountInv

\* A firing keeps the invariant.
LEMMA FireInv == ASSUME CronInv, Fire PROVE CronInv'
<1>0. CronTypeOK /\ OneEntryPerAgent /\ CountInv
  BY DEF CronInv, RecordsAgree
<1>1. /\ fired < MaxTriggers /\ fired' = fired + 1 /\ firing' = firing \cup {fired'}
      /\ UNCHANGED <<job, entries, made, stopped, asked, mishaps>>
      /\ UNCHANGED <<triggerVars, pollerVars, runtimeVars>>
  BY DEF Fire
<1>2. written' = written
  BY <1>1 DEF triggerVars
<1>3. /\ fired' \in 0 .. MaxTriggers /\ firing' \subseteq Firings
      /\ firing' \subseteq 1 .. fired'
  <2>1. fired \in Nat /\ fired' \in 1 .. MaxTriggers
    BY <1>0, <1>1, CronTriggerAssumption DEF CronTypeOK
  <2>2. \A n \in firing' : n \in 1 .. fired'
    BY <1>0, <1>1, <2>1 DEF CountInv
  <2>. QED
    BY <2>1, <2>2, CronTriggerAssumption DEF Firings
<1>4. Cardinality(firing') <= Cardinality(firing) + 1 /\ Cardinality(firing') \in Nat
  BY <1>0, <1>1, FiringIsFinite, FS_AddElement
<1>5. CountInv'
  <2>1. written' + Cardinality(firing') <= fired' + mishaps'
    BY <1>0, <1>1, <1>2, <1>4, CountNumbers
  <2>. QED
    BY <1>3, <2>1 DEF CountInv
<1>. QED
  BY <1>0, <1>1, <1>3, <1>5, StreamKept DEF CronInv, RecordsAgree, CronTypeOK, OneEntryPerAgent

\* Stop, a restart of the operator and a firing whose write fails keep the invariant.
LEMMA StopSchedulerInv ==
  ASSUME CronInv, StopScheduler \/ OperatorRestarts \/ \E n \in Firings : WriteTriggerFails(n)
  PROVE  CronInv'
<1>0. CronTypeOK /\ OneEntryPerAgent /\ CountInv
  BY DEF CronInv, RecordsAgree
<1>1. /\ firing' \subseteq firing /\ fired' = fired
      /\ mishaps' \in 0 .. MaxMishaps /\ mishaps' >= mishaps /\ made' = made
      /\ stopped' \in BOOLEAN
      /\ \/ UNCHANGED <<job, entries, asked>>
         \/ job' = NoJob /\ entries' = {} /\ asked' = NoJob
      /\ UNCHANGED <<triggerVars, pollerVars, runtimeVars>>
  <2>1. mishaps \in 0 .. MaxMishaps /\ stopped \in BOOLEAN
    BY <1>0 DEF CronTypeOK
  <2>2. CASE StopScheduler
    BY <2>1, <2>2, CronTriggerAssumption DEF StopScheduler
  <2>3. CASE OperatorRestarts
    <3>1. mishaps' = mishaps + 1 /\ mishaps < MaxMishaps
      BY <2>3 DEF OperatorRestarts, Mishap
    <3>2. mishaps' \in 0 .. MaxMishaps /\ mishaps' >= mishaps
      BY <2>1, <3>1, CronTriggerAssumption
    <3>. QED
      BY <2>3, <3>2 DEF OperatorRestarts
  <2>4. CASE \E n \in Firings : WriteTriggerFails(n)
    BY <2>1, <2>4, CronTriggerAssumption DEF WriteTriggerFails
  <2>. QED
    BY <2>2, <2>3, <2>4
<1>2. written' = written
  BY <1>1 DEF triggerVars
<1>3. Cardinality(firing') <= Cardinality(firing) /\ Cardinality(firing') \in Nat
  BY <1>0, <1>1, FiringIsFinite, FS_Subset, FS_CardinalityType
<1>4. CountInv'
  <2>1. mishaps' \in Nat
    BY <1>1
  <2>2. written' + Cardinality(firing') <= fired' + mishaps'
    BY <1>0, <1>1, <1>2, <1>3, <2>1, CountNumbers
  <2>. QED
    BY <1>0, <1>1, <2>2 DEF CountInv
<1>5. OneEntryPerAgent'
  BY <1>0, <1>1 DEF OneEntryPerAgent
<1>. QED
  BY <1>0, <1>1, <1>4, <1>5, StreamKept DEF CronInv, RecordsAgree, CronTypeOK

\* A trigger is written, by a firing that is then over or whose reply is lost.
LEMMA WriteInv ==
  ASSUME CronInv, NEW n \in Firings, WriteTrigger(n) \/ WriteReplyLost(n)
  PROVE  CronInv'
<1>0. CronTypeOK /\ OneEntryPerAgent /\ AckedIsDone /\ CountInv /\ GroupInv
  BY DEF CronInv, RecordsAgree
<1>1. /\ n \in firing /\ written' = written + 1
      /\ oldest' \in TrimmedTo(oldest, written', MaxLenAgent)
      /\ UNCHANGED <<joined, position, pending, taken>>
  BY DEF WriteTrigger, WriteReplyLost, AddTrigger
<1>2. /\ UNCHANGED <<job, entries, made, fired, stopped, asked>>
      /\ UNCHANGED <<poller, messages, posts, succeeded>>
  BY DEF WriteTrigger, WriteReplyLost, schedulerVars, pollerVars, runtimeVars
<1>3. \/ firing' = firing \ {n} /\ mishaps' = mishaps
      \/ firing' = firing /\ mishaps' = mishaps + 1 /\ mishaps < MaxMishaps
  BY DEF WriteTrigger, WriteReplyLost, Mishap, schedulerVars
<1>4. /\ written' \in Triggers \cup {0} /\ oldest' \in Nat \ {0}
  <2>1. written \in Nat /\ oldest \in Nat \ {0} /\ written' <= MaxTriggers + MaxMishaps
    <3>1. MaxTriggers + MaxMishaps \in Nat
      BY CronTriggerAssumption
    <3>2. written \in Nat /\ oldest \in Nat \ {0}
      BY <1>0, <3>1 DEF CronTypeOK, Triggers
    <3>3. /\ written <= MaxTriggers + MaxMishaps
          /\ firing # {} => written < MaxTriggers + MaxMishaps
      BY <1>0, FiringIsFinite
    <3>. QED
      BY <1>1, <3>1, <3>2, <3>3
  <2>2. oldest' = oldest \/ oldest' \in oldest .. written'
    BY <1>1 DEF TrimmedTo
  <2>. QED
    BY <1>1, <2>1, <2>2, CronTriggerAssumption DEF Triggers
<1>5. mishaps' \in 0 .. MaxMishaps /\ firing' \subseteq Firings
  BY <1>0, <1>3, CronTriggerAssumption DEF CronTypeOK
<1>6. CronTypeOK'
  BY <1>0, <1>1, <1>2, <1>4, <1>5 DEF CronTypeOK
<1>7. CountInv'
  <2>1. Cardinality(firing) \in Nat /\ IsFiniteSet(firing)
    BY <1>0, FiringIsFinite
  <2>2. Cardinality(firing \ {n}) = Cardinality(firing) - 1
    BY <1>1, <2>1, FS_RemoveElement
  <2>3. firing' \subseteq 1 .. fired'
    BY <1>0, <1>2, <1>3 DEF CountInv
  <2>4. written' + Cardinality(firing') <= fired' + mishaps'
    <3>1. written \in Nat /\ fired \in Nat /\ mishaps \in Nat
      BY <1>0, CronTriggerAssumption DEF CronTypeOK, Triggers
    <3>2. \/ Cardinality(firing') = Cardinality(firing) - 1 /\ mishaps' = mishaps
          \/ Cardinality(firing') = Cardinality(firing) /\ mishaps' = mishaps + 1
      BY <1>3, <2>2
    <3>. QED
      BY <1>0, <1>1, <1>2, <2>1, <3>1, <3>2 DEF CountInv
  <2>. QED
    BY <2>3, <2>4 DEF CountInv
<1>8. GroupInv'
  BY <1>0, <1>1, <1>4 DEF GroupInv, CronTypeOK, Triggers
<1>9. OneEntryPerAgent' /\ AckedIsDone'
  BY <1>1, <1>2 DEF CronInv, RecordsAgree, OneEntryPerAgent, AckedIsDone
<1>10. PollersInv'
  BY <1>1, <1>2, PollersKept DEF CronInv
<1>. QED
  BY <1>6, <1>7, <1>8, <1>9, <1>10 DEF CronInv, RecordsAgree

-----------------------------------------------------------------------------
(* The pollers                                                             *)

\* The pollers' steps leave the scheduler and the stream's entries alone.
LEMMA SchedulerKept ==
  ASSUME CronInv, UNCHANGED <<schedulerVars, written, oldest>>,
         mishaps' \in {mishaps, mishaps + 1}, mishaps' <= MaxMishaps,
         joined' \in BOOLEAN, position' \in Triggers \cup {0},
         pending' \subseteq Triggers, taken' \subseteq Triggers,
         PollerTypes', succeeded' \subseteq Triggers
  PROVE  CronTypeOK' /\ OneEntryPerAgent' /\ CountInv'
<1>0. CronTypeOK /\ OneEntryPerAgent /\ CountInv
  BY DEF CronInv, RecordsAgree
<1>1. UNCHANGED <<job, entries, made, fired, firing, stopped, asked, written, oldest>>
  BY DEF schedulerVars
<1>2. mishaps' \in 0 .. MaxMishaps /\ mishaps' >= mishaps
  BY <1>0, CronTriggerAssumption DEF CronTypeOK
<1>3. CronTypeOK' /\ OneEntryPerAgent'
  BY <1>0, <1>1, <1>2 DEF CronTypeOK, OneEntryPerAgent, PollerTypes
<1>4. CountInv'
  <2>1. mishaps' \in Nat
    BY <1>2, CronTriggerAssumption
  <2>2. written' + Cardinality(firing') <= fired' + mishaps'
    BY <1>0, <1>1, <1>2, <2>1, CountNumbers
  <2>. QED
    BY <1>0, <1>1, <2>2 DEF CountInv
<1>. QED
  BY <1>3, <1>4

\* What the observer o does; the others keep what they hold.
Acts(o) ==
    /\ \A q \in Observers \ {o} :
          poller'[q] = poller[q] /\ messages'[q] = messages[q] /\ posts'[q] = posts[q]
    /\ \A j \in Triggers : posts'[o][j] # posts[o][j] => j \in Holds(o)

\* An observer that works on what it holds, or on what nobody was handed
\* before, leaves the observers apart.
LEMMA OtherObserversKept ==
  ASSUME CronInv, NEW o \in Observers, Acts(o), PollerTypes',
         taken \subseteq taken', succeeded \subseteq succeeded',
         Holds(o)' \subseteq Holds(o) \/ Holds(o)' \cap taken = {},
         BatchOf(o)', PostsOf(o)'
  PROVE  PollersInv'
<1>0. CronTypeOK /\ PollersInv
  BY DEF CronInv, RecordsAgree
<1>1. \A q \in Observers \ {o} :
          poller'[q] = poller[q] /\ messages'[q] = messages[q] /\ posts'[q] = posts[q]
  BY DEF Acts
<1>2. ASSUME NEW q \in Observers \ {o}
      PROVE  BatchOf(q)' /\ PostsOf(q)' /\ Holds(q)' = Holds(q)
  <2>1. BatchOf(q) /\ PostsOf(q)
    BY <1>0 DEF PollersInv
  <2>2. BatchOf(q)' /\ Holds(q)' = Holds(q)
    BY <1>1, <2>1 DEF BatchOf, Holds
  <2>3. PostsOf(q)'
    BY <1>1, <2>1 DEF PostsOf
  <2>. QED
    BY <2>2, <2>3
<1>3. ASSUME NEW q \in Observers
      PROVE  /\ Holds(q) \subseteq taken
             /\ \A i \in Triggers : posts[q][i] > 0 => i \in taken
             /\ Holds(q) \subseteq Triggers
  <2>1. Holds(q) \subseteq taken
    BY <1>0 DEF PollersInv, BatchOf, Holds
  <2>2. \A i \in Triggers : posts[q][i] > 0 => i \in taken
    BY <1>0 DEF PollersInv, PostsOf
  <2>. QED
    BY <1>0, <2>1, <2>2 DEF CronTypeOK
<1>4. ASSUME NEW q \in Observers \ {o}
      PROVE  /\ Holds(o)' \cap Holds(q) = {}
             /\ \A i \in Holds(o)' : posts[q][i] = 0
             /\ \A i \in Holds(q) : posts'[o][i] = 0
  <2>1. /\ Holds(o) \cap Holds(q) = {}
        /\ \A i \in Holds(o) : posts[q][i] = 0
        /\ \A i \in Holds(q) : posts[o][i] = 0
    BY <1>0 DEF PollersInv, ApartInv
  <2>2. Holds(o)' \subseteq Triggers
    BY DEF Holds, PollerTypes
  <2>3. \A i \in Triggers : posts[q][i] \in Nat
    BY <1>0 DEF CronTypeOK
  <2>4. /\ Holds(o)' \cap Holds(q) = {}
        /\ \A i \in Holds(o)' : posts[q][i] = 0
    BY <1>3, <2>1, <2>2, <2>3
  <2>5. \A i \in Holds(q) : posts'[o][i] = 0
    BY <1>3, <2>1 DEF Acts
  <2>. QED
    BY <2>4, <2>5
<1>5. ApartInv'
  <2>1. SUFFICES ASSUME NEW p \in Observers, NEW q \in Observers, p # q
                 PROVE  /\ Holds(p)' \cap Holds(q)' = {}
                        /\ \A i \in Holds(p)' : posts'[q][i] = 0
    BY DEF ApartInv
  <2>2. CASE p = o
    BY <1>1, <1>2, <1>4, <2>1, <2>2
  <2>3. CASE q = o
    BY <1>2, <1>4, <2>1, <2>3
  <2>4. CASE p # o /\ q # o
    BY <1>0, <1>1, <1>2, <2>1, <2>4 DEF PollersInv, ApartInv
  <2>. QED
    BY <2>2, <2>3, <2>4
<1>. QED
  BY <1>2, <1>5 DEF PollersInv

\* A poller's start, and its end, keep the invariant.
LEMMA StartInv ==
  ASSUME CronInv, NEW o \in Observers, StartPoller(o) \/ StartFails(o) \/ Crash(o)
  PROVE  CronInv'
<1>0. CronTypeOK /\ AckedIsDone /\ GroupInv /\ BatchOf(o) /\ PostsOf(o)
  BY DEF CronInv, RecordsAgree, PollersInv
<1>1. /\ UNCHANGED <<schedulerVars, written, oldest, pending, taken, posts, succeeded>>
      /\ joined' \in BOOLEAN
      /\ position' \in {position, written}
      /\ mishaps' \in {mishaps, mishaps + 1} /\ mishaps' <= MaxMishaps
  <2>1. CASE StartPoller(o)
    BY <1>0, <2>1, CronTriggerAssumption DEF StartPoller, runtimeVars, CronTypeOK
  <2>2. CASE StartFails(o) \/ Crash(o)
    BY <1>0, <2>2, CronTriggerAssumption
    DEF StartFails, Crash, runtimeVars, triggerVars, CronTypeOK, Mishap
  <2>. QED
    BY <2>1, <2>2
<1>2. \E where \in {"poll", "gone", "down"} : poller' = [poller EXCEPT ![o] = where]
  BY DEF StartPoller, StartFails, Crash, PollerTo
<1>3. \/ messages' = messages /\ messages[o] = <<>>
      \/ messages' = [messages EXCEPT ![o] = <<>>]
  BY <1>0 DEF StartPoller, StartFails, Crash, BatchOf
<1>4. PollerTypes' /\ messages'[o] = <<>> /\ poller'[o] \in {"poll", "gone", "down"}
  <2>1. PollerTypes
    BY <1>0 DEF PollerTypes, CronTypeOK
  <2>2. /\ poller' \in [Observers -> {"down", "poll", "send", "ack", "gone"}]
        /\ poller'[o] \in {"poll", "gone", "down"}
    BY <1>2, <2>1 DEF PollerTypes
  <2>3. <<>> \in Seq(Triggers)
    OBVIOUS
  <2>4. messages' \in [Observers -> Seq(Triggers)] /\ messages'[o] = <<>>
    BY <1>3, <2>1, <2>3 DEF PollerTypes
  <2>. QED
    BY <1>1, <2>1, <2>2, <2>4 DEF PollerTypes
<1>5. Acts(o)
  BY <1>0, <1>1, <1>2, <1>3 DEF Acts, CronTypeOK
<1>6. position' \in Triggers \cup {0} /\ position' <= written /\ position <= position'
  BY <1>0, <1>1 DEF CronTypeOK, GroupInv, Triggers
<1>7. CronTypeOK' /\ OneEntryPerAgent' /\ CountInv'
  BY <1>0, <1>1, <1>4, <1>6, SchedulerKept DEF CronTypeOK
<1>8. GroupInv'
  BY <1>0, <1>1, <1>6 DEF GroupInv, CronTypeOK, Triggers
<1>9. AckedIsDone'
  BY <1>0, <1>1 DEF AckedIsDone
<1>10. PollersInv'
  <2>1. Len(messages'[o]) = 0
    BY <1>4
  <2>2. BatchOf(o)' /\ Holds(o)' = {}
    BY <1>4, <2>1 DEF BatchOf, Holds
  <2>3. PostsOf(o)'
    BY <1>0, <1>1, <1>4 DEF PostsOf
  <2>. QED
    BY <1>1, <1>4, <1>5, <2>2, <2>3, OtherObserversKept
<1>. QED
  BY <1>7, <1>8, <1>9, <1>10 DEF CronInv, RecordsAgree

\* What the group hands over was not handed over before, nor posted.
LEMMA PollInv ==
  ASSUME CronInv, NEW o \in Observers, Poll(o) \/ PollReplyLost(o)
  PROVE  CronInv'
<1>0. CronTypeOK /\ AckedIsDone /\ GroupInv /\ BatchOf(o) /\ PostsOf(o)
  BY DEF CronInv, RecordsAgree, PollersInv
<1>. DEFINE from == FreshFrom(oldest, position)
            to   == FreshTo(oldest, written, position, PollBatch)
<1>1. /\ from \in Nat /\ to \in Nat /\ position < from /\ from <= to /\ to <= written
      /\ FreshIds = from .. to
  <2>1. /\ oldest \in Nat /\ written \in Nat /\ position \in Nat /\ PollBatch \in Nat
    BY <1>0, CronTriggerAssumption DEF CronTypeOK, Triggers
  <2>2. FreshIds # {}
    BY DEF Poll, PollReplyLost
  <2>3. FreshIds = Fresh(oldest, written, position, PollBatch)
    BY DEF FreshIds
  <2>. QED
    BY <2>1, <2>2, <2>3, FreshRun
<1>2. /\ pending' = pending \cup (from .. to) /\ taken' = taken \cup (from .. to)
      /\ position' = to /\ UNCHANGED <<schedulerVars, written, oldest, joined>>
      /\ UNCHANGED <<posts, succeeded>>
  BY <1>1 DEF Poll, PollReplyLost, Hand, runtimeVars
<1>3. /\ poller[o] = "poll"
      /\ \/ /\ messages' = [messages EXCEPT ![o] = MessagesOf(from, to)]
            /\ poller' = [poller EXCEPT ![o] = "send"]
         \/ messages' = messages /\ poller' = poller
      /\ mishaps' \in {mishaps, mishaps + 1} /\ mishaps' <= MaxMishaps
  BY <1>0, CronTriggerAssumption DEF Poll, PollReplyLost, pollerVars, Mishap, CronTypeOK, PollerTo
<1>. HIDE DEF from, to
<1>4. from .. to \subseteq Triggers /\ to \in Triggers
  <2>1. written \in Nat /\ position \in Nat /\ written <= MaxTriggers + MaxMishaps
    BY <1>0, CronTriggerAssumption DEF CronTypeOK, Triggers
  <2>. QED
    BY <1>1, <2>1, CronTriggerAssumption DEF Triggers
<1>5. /\ MessagesOf(from, to) \in Seq(Triggers)
      /\ Len(MessagesOf(from, to)) = to - from + 1
      /\ \A k \in 1 .. (to - from + 1) : MessagesOf(from, to)[k] = from + k - 1
  BY <1>1, <1>4, RunIsSeq
<1>6. PollerTypes'
  BY <1>0, <1>2, <1>3, <1>5 DEF PollerTypes, CronTypeOK
<1>7. CronTypeOK' /\ OneEntryPerAgent' /\ CountInv'
  BY <1>0, <1>2, <1>3, <1>4, <1>6, SchedulerKept DEF CronTypeOK
<1>8. GroupInv'
  <2>1. position \in Nat /\ written \in Nat
    BY <1>0, CronTriggerAssumption DEF CronTypeOK, Triggers
  <2>. QED
    BY <1>0, <1>1, <1>2, <2>1 DEF GroupInv
<1>9. AckedIsDone'
  BY <1>0, <1>2 DEF AckedIsDone
<1>10. Acts(o)
  BY <1>0, <1>2, <1>3 DEF Acts, CronTypeOK
<1>11. \A j \in from .. to : j \notin taken
  BY <1>0, <1>1 DEF GroupInv, CronTypeOK, Triggers
<1>12. CASE messages' = messages /\ poller' = poller
  <2>1. BatchOf(o)' /\ Holds(o)' = Holds(o)
    BY <1>0, <1>2, <1>12 DEF BatchOf, Holds
  <2>2. PostsOf(o)'
    BY <1>0, <1>2, <1>3, <1>12 DEF PostsOf
  <2>3. PollersInv'
    BY <1>2, <1>6, <1>10, <2>1, <2>2, OtherObserversKept
  <2>. QED
    BY <1>7, <1>8, <1>9, <2>3 DEF CronInv, RecordsAgree
<1>13. CASE /\ messages' = [messages EXCEPT ![o] = MessagesOf(from, to)]
            /\ poller' = [poller EXCEPT ![o] = "send"]
  <2>0. messages'[o] = MessagesOf(from, to) /\ poller'[o] = "send"
    BY <1>0, <1>13 DEF CronTypeOK
  <2>1. messages'[o][1] = from /\ messages'[o] # <<>> /\ Len(messages'[o]) = to - from + 1
    BY <1>1, <1>5, <2>0
  <2>2. \A k \in 1 .. Len(messages'[o]) :
          messages'[o][k] = messages'[o][1] + k - 1 /\ messages'[o][k] \in from .. to
    BY <1>1, <1>5, <2>0, <2>1
  <2>3. BatchOf(o)'
    BY <1>2, <2>0, <2>1, <2>2 DEF BatchOf
  <2>4. Holds(o)' \cap taken = {}
    BY <1>11, <2>2 DEF Holds
  <2>5. ASSUME NEW j \in Triggers, j >= from PROVE posts[o][j] = 0
    <3>1. j \notin taken
      BY <1>0, <1>1, <2>5 DEF GroupInv, CronTypeOK, Triggers
    <3>. QED
      BY <1>0, <3>1 DEF PostsOf, CronTypeOK
  <2>6. PostsOf(o)'
    BY <1>0, <1>2, <2>0, <2>1, <2>5 DEF PostsOf
  <2>7. PollersInv'
    BY <1>2, <1>6, <1>10, <2>3, <2>4, <2>6, OtherObserversKept
  <2>. QED
    BY <1>7, <1>8, <1>9, <2>7 DEF CronInv, RecordsAgree
<1>. QED
  BY <1>3, <1>12, <1>13

\* The message a poller is at.
LEMMA AtMessage ==
  ASSUME CronInv, NEW o \in Observers, poller[o] \in {"send", "ack"}
  PROVE  /\ messages[o] \in Seq(Triggers) /\ messages[o] # <<>>
         /\ Len(messages[o]) \in Nat \ {0}
         /\ Head(messages[o]) = messages[o][1]
         /\ messages[o][1] \in taken /\ messages[o][1] \in Triggers
         /\ messages[o][1] \in Nat /\ messages[o][1] \in Holds(o)
<1>0. CronTypeOK /\ BatchOf(o)
  BY DEF CronInv, RecordsAgree, PollersInv
<1>1. messages[o] \in Seq(Triggers) /\ messages[o] # <<>>
  BY <1>0 DEF CronTypeOK, BatchOf
<1>2. Len(messages[o]) \in Nat \ {0} /\ Head(messages[o]) = messages[o][1]
  BY <1>1
<1>3. messages[o][1] \in taken /\ messages[o][1] \in Holds(o)
  BY <1>0, <1>2 DEF BatchOf, Holds
<1>4. messages[o][1] \in Triggers
  BY <1>0, <1>3 DEF CronTypeOK
<1>. QED
  BY <1>1, <1>2, <1>3, <1>4 DEF Triggers

\* The message at hand is posted once more, and no other is.
LEMMA PostEffect ==
  ASSUME CronInv, NEW o \in Observers, poller[o] = "send", Post(o)
  PROVE  /\ posts' \in [Observers -> [Triggers -> Nat]]
         /\ \A q \in Observers \ {o} : posts'[q] = posts[q]
         /\ \A j \in Triggers : j # messages[o][1] => posts'[o][j] = posts[o][j]
<1>1. posts \in [Observers -> [Triggers -> Nat]]
  BY DEF CronInv, RecordsAgree, CronTypeOK
<1>2. posts' = [posts EXCEPT ![o][messages[o][1]] = @ + 1]
  BY AtMessage DEF Post
<1>3. messages[o][1] \in Triggers
  BY AtMessage
<1>. QED
  BY <1>1, <1>2, <1>3

\* A poller is done with a message, and posted nothing behind it.
LEMMA NextMessageInv ==
  ASSUME CronInv, NEW o \in Observers, poller[o] \in {"send", "ack"}, NextMessage(o),
         UNCHANGED <<schedulerVars, written, oldest, joined, position, taken>>,
         mishaps' \in {mishaps, mishaps + 1}, mishaps' <= MaxMishaps,
         pending' \subseteq pending, AckedIsDone',
         succeeded' \subseteq Triggers, succeeded \subseteq succeeded',
         posts' \in [Observers -> [Triggers -> Nat]],
         \A q \in Observers \ {o} : posts'[q] = posts[q],
         \A j \in Triggers : j # messages[o][1] => posts'[o][j] = posts[o][j]
  PROVE  CronInv'
<1>0. CronTypeOK /\ GroupInv /\ BatchOf(o) /\ PostsOf(o)
  BY DEF CronInv, RecordsAgree, PollersInv
<1>1. /\ messages[o] \in Seq(Triggers) /\ messages[o] # <<>>
      /\ Len(messages[o]) \in Nat \ {0}
      /\ messages[o][1] \in taken /\ messages[o][1] \in Triggers
      /\ messages[o][1] \in Nat /\ messages[o][1] \in Holds(o)
  BY AtMessage
<1>. DEFINE rest == messages'[o]
            next == IF Len(messages[o]) = 1 THEN "poll" ELSE "send"
<1>2. /\ messages' = [messages EXCEPT ![o] = Tail(messages[o])]
      /\ poller' = [poller EXCEPT ![o] = next]
  BY DEF NextMessage, PollerTo
<1>3. rest = Tail(messages[o]) /\ poller'[o] = next
  BY <1>0, <1>2 DEF CronTypeOK
<1>4. /\ rest \in Seq(Triggers) /\ Len(rest) = Len(messages[o]) - 1
      /\ \A k \in 1 .. Len(rest) : rest[k] = messages[o][k + 1]
      /\ rest = <<>> <=> Len(messages[o]) = 1
  <2>1. /\ Tail(messages[o]) \in Seq(Triggers)
        /\ Len(Tail(messages[o])) = Len(messages[o]) - 1
        /\ \A k \in 1 .. (Len(messages[o]) - 1) : Tail(messages[o])[k] = messages[o][k + 1]
        /\ Tail(messages[o]) = <<>> <=> Len(messages[o]) = 1
    BY <1>1, RestOfRun
  <2>. QED
    BY <1>3, <2>1
<1>5. PollerTypes'
  BY <1>0, <1>2, <1>3, <1>4 DEF PollerTypes, CronTypeOK
<1>6. CronTypeOK' /\ OneEntryPerAgent' /\ CountInv'
  BY <1>0, <1>5, SchedulerKept DEF CronTypeOK
<1>7. GroupInv'
  BY <1>0 DEF GroupInv
<1>8. Acts(o)
  BY <1>0, <1>1, <1>2 DEF Acts, CronTypeOK
<1>9. \A k \in 1 .. Len(messages[o]) :
          messages[o][k] = messages[o][1] + k - 1 /\ messages[o][k] \in taken
  BY <1>0 DEF BatchOf
<1>10. ASSUME NEW k \in 1 .. Len(rest)
       PROVE  /\ k + 1 \in 1 .. Len(messages[o]) /\ 1 \in 1 .. Len(rest)
              /\ rest[k] = messages[o][k + 1]
              /\ rest[k] = messages[o][1] + k
              /\ rest[1] = messages[o][1] + 1
  <2>1. /\ Len(rest) \in Nat /\ k \in Nat /\ 1 <= k /\ k <= Len(rest)
    BY <1>1, <1>4
  <2>2. k + 1 \in 1 .. Len(messages[o]) /\ 1 \in 1 .. Len(rest) /\ 2 \in 1 .. Len(messages[o])
    BY <1>1, <1>4, <2>1
  <2>3. rest[k] = messages[o][k + 1] /\ rest[1] = messages[o][2]
    BY <1>4, <2>1, <2>2
  <2>4. /\ messages[o][k + 1] = messages[o][1] + (k + 1) - 1
        /\ messages[o][2] = messages[o][1] + 2 - 1
    BY <1>9, <2>2
  <2>. QED
    BY <1>1, <2>1, <2>2, <2>3, <2>4
<1>11. BatchOf(o)'
  <2>1. ASSUME NEW k \in 1 .. Len(rest)
        PROVE  rest[k] = rest[1] + k - 1 /\ rest[k] \in taken'
    <3>1. k \in Nat /\ k + 1 \in 1 .. Len(messages[o])
      BY <1>1, <1>4, <1>10
    <3>2. rest[k] = messages[o][1] + k /\ rest[1] = messages[o][1] + 1
      BY <1>10
    <3>3. messages[o][k + 1] \in taken /\ rest[k] = messages[o][k + 1]
      BY <1>9, <1>10, <3>1
    <3>4. messages[o][1] \in Nat /\ taken' = taken
      BY <1>1
    <3>5. rest[k] \in taken'
      BY <3>3, <3>4
    <3>6. rest[k] = rest[1] + k - 1
      <4>1. \A m, n \in Nat : m + n = (m + 1) + n - 1
        OBVIOUS
      <4>. QED
        BY <3>1, <3>2, <3>4, <4>1
    <3>. QED
      BY <3>5, <3>6
  <2>. QED
    BY <1>3, <1>4, <2>1 DEF BatchOf
<1>12. Holds(o)' \subseteq Holds(o)
  <2>1. ASSUME NEW k \in 1 .. Len(rest)
        PROVE  \E m \in 1 .. Len(messages[o]) : rest[k] = messages[o][m]
    BY <1>10
  <2>. QED
    BY <2>1 DEF Holds
<1>13. PostsOf(o)'
  <2>1. \A j \in Triggers : posts'[o][j] > 0 => j \in taken'
    BY <1>0, <1>1 DEF PostsOf
  <2>2. CASE Len(messages[o]) = 1
    BY <1>3, <2>1, <2>2 DEF PostsOf
  <2>3. CASE Len(messages[o]) # 1
    <3>1. 1 \in 1 .. Len(rest)
      BY <1>1, <1>4, <2>3
    <3>2. rest[1] = messages[o][1] + 1
      BY <1>10, <3>1
    <3>3. ASSUME NEW j \in Triggers, j >= rest[1] PROVE posts'[o][j] = 0
      <4>1. j > messages[o][1] /\ j # messages[o][1] /\ j >= messages[o][1]
        BY <1>1, <3>2, <3>3, CronTriggerAssumption DEF Triggers
      <4>2. posts[o][j] = 0
        BY <1>0, <4>1 DEF PostsOf
      <4>. QED
        BY <4>1, <4>2
    <3>4. poller'[o] = "send"
      BY <1>3, <2>3
    <3>. QED
      BY <2>1, <3>3, <3>4 DEF PostsOf
  <2>. QED
    BY <2>2, <2>3
<1>14. PollersInv'
  BY <1>5, <1>8, <1>11, <1>12, <1>13, OtherObserversKept
<1>. QED
  BY <1>6, <1>7, <1>14 DEF CronInv, RecordsAgree

\* The post of a message and its acknowledgement keep the invariant.
LEMMA SendInv ==
  ASSUME CronInv, NEW o \in Observers,
         SendOK(o) \/ SendFails(o) \/ AckMessage(o) \/ AckLost(o)
  PROVE  CronInv'
<1>0. CronTypeOK /\ AckedIsDone /\ BatchOf(o) /\ PostsOf(o) /\ GroupInv
  BY DEF CronInv, RecordsAgree, PollersInv
<1>1. mishaps \in Nat /\ mishaps <= MaxMishaps
  BY <1>0, CronTriggerAssumption DEF CronTypeOK
<1>2. CASE SendOK(o)
  <2>1. /\ poller[o] = "send" /\ poller' = [poller EXCEPT ![o] = "ack"] /\ Post(o)
        /\ succeeded' = succeeded \cup {Head(messages[o])}
        /\ UNCHANGED <<schedulerVars, triggerVars, messages, mishaps>>
    BY <1>2 DEF SendOK, PollerTo
  <2>2. UNCHANGED <<written, oldest, joined, position, pending, taken, messages, mishaps>>
    BY <2>1 DEF triggerVars
  <2>3. /\ posts' \in [Observers -> [Triggers -> Nat]]
        /\ \A q \in Observers \ {o} : posts'[q] = posts[q]
        /\ \A j \in Triggers : j # messages[o][1] => posts'[o][j] = posts[o][j]
    BY <2>1, PostEffect
  <2>4. /\ messages[o][1] \in Triggers /\ messages[o][1] \in taken /\ messages[o][1] \in Nat
        /\ messages[o][1] \in Holds(o) /\ messages[o] # <<>>
        /\ Head(messages[o]) = messages[o][1]
    BY <2>1, AtMessage
  <2>5. poller'[o] = "ack"
    BY <1>0, <2>1 DEF CronTypeOK
  <2>6. PollerTypes'
    BY <1>0, <2>1, <2>2, <2>3 DEF PollerTypes, CronTypeOK
  <2>7. succeeded' \subseteq Triggers /\ messages[o][1] \in succeeded'
    BY <1>0, <2>1, <2>4 DEF CronTypeOK
  <2>8. CronTypeOK' /\ OneEntryPerAgent' /\ CountInv'
    BY <1>0, <1>1, <2>1, <2>2, <2>6, <2>7, SchedulerKept DEF CronTypeOK
  <2>9. GroupInv' /\ AckedIsDone'
    BY <1>0, <2>1, <2>2 DEF GroupInv, AckedIsDone
  <2>10. BatchOf(o)' /\ Holds(o)' = Holds(o)
    BY <1>0, <2>2, <2>4, <2>5 DEF BatchOf, Holds
  <2>11. \A j \in Triggers : posts'[o][j] > 0 => j \in taken'
    BY <1>0, <2>2, <2>3, <2>4 DEF PostsOf
  <2>12. ASSUME NEW j \in Triggers, j > messages[o][1] PROVE posts'[o][j] = 0
    <3>1. j # messages[o][1] /\ j >= messages[o][1]
      BY <2>4, <2>12, CronTriggerAssumption DEF Triggers
    <3>. QED
      BY <1>0, <2>1, <2>3, <3>1 DEF PostsOf
  <2>13. PostsOf(o)'
    BY <2>2, <2>5, <2>7, <2>11, <2>12 DEF PostsOf
  <2>14. Acts(o)
    BY <1>0, <2>1, <2>2, <2>3, <2>4 DEF Acts, CronTypeOK
  <2>15. PollersInv'
    BY <2>1, <2>2, <2>6, <2>10, <2>13, <2>14, OtherObserversKept
  <2>. QED
    BY <2>8, <2>9, <2>15 DEF CronInv, RecordsAgree
<1>3. CASE SendFails(o)
  <2>1. /\ poller[o] = "send" /\ NextMessage(o) /\ Post(o)
        /\ UNCHANGED <<schedulerVars, triggerVars, succeeded, mishaps>>
    BY <1>3 DEF SendFails
  <2>2. UNCHANGED <<written, oldest, joined, position, pending, taken>>
    BY <2>1 DEF triggerVars
  <2>3. /\ posts' \in [Observers -> [Triggers -> Nat]]
        /\ \A q \in Observers \ {o} : posts'[q] = posts[q]
        /\ \A j \in Triggers : j # messages[o][1] => posts'[o][j] = posts[o][j]
    BY <2>1, PostEffect
  <2>4. AckedIsDone' /\ succeeded' \subseteq Triggers
    BY <1>0, <2>1, <2>2 DEF AckedIsDone, CronTypeOK
  <2>. QED
    BY <1>1, <2>1, <2>2, <2>3, <2>4, NextMessageInv
<1>4. CASE AckMessage(o) \/ AckLost(o)
  <2>1. /\ poller[o] = "ack" /\ NextMessage(o)
        /\ pending' = pending \ {Head(messages[o])} \/ pending' = pending
        /\ UNCHANGED <<schedulerVars, written, oldest, joined, position, taken>>
        /\ UNCHANGED <<posts, succeeded>>
    BY <1>4 DEF AckMessage, AckLost, triggerVars, runtimeVars
  <2>2. mishaps' \in {mishaps, mishaps + 1} /\ mishaps' <= MaxMishaps
    BY <1>1, <1>4, CronTriggerAssumption DEF AckMessage, AckLost, Mishap
  <2>3. Head(messages[o]) = messages[o][1]
    BY <2>1, AtMessage
  <2>4. AckedIsDone' /\ succeeded' \subseteq Triggers
    BY <1>0, <2>1, <2>3 DEF AckedIsDone, CronTypeOK, PostsOf
  <2>5. posts' \in [Observers -> [Triggers -> Nat]]
    BY <1>0, <2>1 DEF CronTypeOK
  <2>. QED
    BY <2>1, <2>2, <2>4, <2>5, NextMessageInv
<1>. QED
  BY <1>2, <1>3, <1>4

\* Every step keeps the invariant.
LEMMA CronStepInv == CronInv /\ [CronNext]_cronVars => CronInv'
<1>. SUFFICES ASSUME CronInv, [CronNext]_cronVars PROVE CronInv'
  OBVIOUS
<1>1. CASE \E schedule \in Schedules, prompt \in Prompts : Sync(schedule, prompt)
  BY <1>1, SyncInv
<1>2. CASE Remove \/ Fire
  BY <1>2, RemoveInv, FireInv
<1>3. CASE StopScheduler \/ OperatorRestarts \/ \E n \in Firings : WriteTriggerFails(n)
  BY <1>3, StopSchedulerInv
<1>4. CASE \E n \in Firings : WriteTrigger(n) \/ WriteReplyLost(n)
  BY <1>4, WriteInv
<1>5. CASE \E o \in Observers : StartPoller(o) \/ StartFails(o) \/ Crash(o)
  BY <1>5, StartInv
<1>6. CASE \E o \in Observers : Poll(o) \/ PollReplyLost(o)
  BY <1>6, PollInv
<1>7. CASE \E o \in Observers : SendOK(o) \/ SendFails(o) \/ AckMessage(o) \/ AckLost(o)
  BY <1>7, SendInv
<1>8. CASE UNCHANGED cronVars
  <2>1. UNCHANGED <<schedulerVars, triggerVars, pollerVars, runtimeVars, mishaps>>
    BY <1>8 DEF cronVars
  <2>2. UNCHANGED <<job, entries, made, fired, firing, stopped, asked, written, mishaps>>
    BY <2>1 DEF schedulerVars, triggerVars
  <2>3. OneEntryPerAgent' /\ CountInv'
    BY <2>2 DEF CronInv, RecordsAgree, OneEntryPerAgent, CountInv
  <2>4. CronTypeOK'
    BY <2>1, <2>2, StreamKept DEF CronInv, RecordsAgree, CronTypeOK
  <2>. QED
    BY <2>1, <2>3, <2>4, StreamKept DEF CronInv, RecordsAgree
<1>. QED
  BY <1>1, <1>2, <1>3, <1>4, <1>5, <1>6, <1>7, <1>8 DEF CronNext

\* The invariant holds of every behaviour.
LEMMA CronInvariance == CronSpec => []CronInv
<1>. QED
  BY CronInitInv, CronStepInv, PTL DEF CronSpec

-----------------------------------------------------------------------------
\* The scheduler's map and the cron library's entries name the same job however
\* Sync and Remove follow each other, and a trigger the group handed over stays
\* pending until its post succeeded, whatever is killed or lost.
THEOREM RecordsOfTriggersAgree == CronSpec => []RecordsAgree
<1>1. CronInv => RecordsAgree
  BY DEF CronInv
<1>. QED
  BY <1>1, CronInvariance, PTL

\* Each observer posts triggers in the order of the stream, and all observers
\* together none twice, however many overlap, however firings overtake each
\* other and whatever is trimmed, killed or lost; a failed post is not repeated.
THEOREM TriggersPostedOnceInOrder == CronSpec => PostedOnceInOrder
<1>1. CronInv /\ [CronNext]_cronVars =>
        [\A o \in Observers, i \in Triggers :
            posts'[o][i] > posts[o][i] =>
                /\ \A q \in Observers : posts[q][i] = 0
                /\ \A j \in Triggers : i <= j => posts[o][j] = 0]_cronVars
  <2>1. SUFFICES ASSUME CronInv, CronNext, NEW o \in Observers, NEW i \in Triggers,
                        posts'[o][i] > posts[o][i]
                 PROVE  /\ \A q \in Observers : posts[q][i] = 0
                        /\ \A j \in Triggers : i <= j => posts[o][j] = 0
    OBVIOUS
  <2>2. posts \in [Observers -> [Triggers -> Nat]] /\ posts[o][i] \in Nat
    BY <2>1 DEF CronInv, RecordsAgree, CronTypeOK
  <2>3. posts' # posts
    BY <2>1, <2>2
  <2>4. PICK p \in Observers : SendOK(p) \/ SendFails(p)
    BY <2>1, <2>3
    DEF CronNext, Sync, Remove, Fire, WriteTrigger, WriteReplyLost, WriteTriggerFails,
        StopScheduler, OperatorRestarts, StartPoller, StartFails, Crash, Poll,
        PollReplyLost, AckMessage, AckLost, runtimeVars
  <2>5. poller[p] = "send" /\ Post(p)
    BY <2>4 DEF SendOK, SendFails
  <2>6. p = o
    BY <2>1, <2>2, <2>5, PostEffect
  <2>7. i = messages[o][1] /\ i \in Holds(o)
    <3>1. i = messages[o][1]
      BY <2>1, <2>2, <2>5, <2>6, PostEffect
    <3>. QED
      BY <2>1, <2>5, <2>6, <3>1, AtMessage
  <2>8. \A j \in Triggers : i <= j => posts[o][j] = 0
    BY <2>1, <2>5, <2>6, <2>7, CronTriggerAssumption
    DEF CronInv, PollersInv, PostsOf, Triggers
  <2>9. \A q \in Observers : posts[q][i] = 0
    <3>1. posts[o][i] = 0
      BY <2>8, CronTriggerAssumption DEF Triggers
    <3>. QED
      BY <2>1, <2>7, <3>1 DEF CronInv, PollersInv, ApartInv
  <2>. QED
    BY <2>8, <2>9
<1>. QED
  BY <1>1, CronInvariance, PTL DEF CronSpec, PostedOnceInOrder

-----------------------------------------------------------------------------
(* The writers of the event streams: EventSources                          *)

\* A delivery is written by one goroutine, which its reply does not end; before
\* the write is over only repeated writes put its entry into the stream.
HookInv ==
    /\ hooks \in Seq(Hooks)
    /\ state \in [DOMAIN hooks -> HookStates]
    /\ writers \subseteq {d \in DOMAIN hooks : state[d] \in {"accepted", "answered"}}
    /\ \A d \in writers : VerifySignature(hooks[d]) /\ hooks[d].kind \in Published
    /\ \A d \in DOMAIN hooks :
          /\ state[d] = "sent" \/ d \in writers =>
                Count(HookEntry(d), stream["gitea"]) <= Count(HookEntry(d), again)
          /\ \/ state[d] = "accepted"
             \/ state[d] = "answered" /\ hooks[d].kind \in Published
             => d \in writers \/ OnItsWay("gitea", HookEntry(d))

\* The calls of AssignIssue that have no issue yet, each of which may make one.
Called == {a \in DOMAIN assigns : assigns[a].state = "called"}

\* No two assignments share an issue; one that is not answered has no entry but
\* for repeated writes.
AssignInv ==
    /\ issues \in Nat
    /\ assigns \in Seq([state : AssignStates, issue : 0 .. issues])
    /\ issues + Cardinality(Called) <= events
    /\ \A a \in DOMAIN assigns :
          /\ assigns[a].state = "called" => assigns[a].issue = 0
          /\ assigns[a].state = "created" =>
                /\ assigns[a].issue # 0
                /\ Count(AssignEntry(a), stream["gitea"]) <= Count(AssignEntry(a), again)
          /\ assigns[a].state = "answered" => OnItsWay("gitea", AssignEntry(a))
    /\ \A a, b \in DOMAIN assigns :
          assigns[a].issue = assigns[b].issue /\ assigns[a].issue # 0 => a = b

\* Only what was delivered or assigned is in the stream, and not too often.
Known(entry) ==
    \/ entry.from = "hook" /\ entry.n \in DOMAIN hooks
    \/ entry.from = "assign" /\ entry.n \in 1 .. issues

GiteaInv ==
    /\ \A entry \in EntriesOf("gitea") \cup {l \in BagToSet(lost) : l.from # "pod"} : Known(entry)
    /\ \A entry \in EntriesOf("gitea") : Count(entry, stream["gitea"]) <= 1 + Count(entry, again)

\* Of an Event, how often it is written, lost and in hand.
PodWrites(e) ==
    Count(PodEntry(e), stream["k8s"]) + Count(PodEntry(e), lost)
        + (IF handling = e THEN 1 ELSE 0)

\* A process that looked at an Event has it in its store until it expires; what
\* has not happened was not looked at, written, lost or repeated.
PodInv ==
    /\ reason \in [KubeEvents -> Reasons \cup {None}]
    /\ there \subseteq {e \in KubeEvents : reason[e] # None}
    /\ store \subseteq there
    /\ handling \in {e \in KubeEvents : StatusOf(reason[e]) # {}} \cup {None}
    /\ handling # None => reason[handling] # None
    /\ seen \in [KubeEvents -> SUBSET (0 .. restarts)]
    /\ \A entry \in EntriesOf("k8s") : entry.from = "pod"
    /\ \A entry \in EntriesOf("k8s") \cup BagToSet(lost) \cup BagToSet(again) :
          entry.from = "pod" => entry.n \in KubeEvents /\ reason[entry.n] # None
    /\ \A e \in KubeEvents :
          /\ reason[e] = None => seen[e] = {}
          /\ restarts \in seen[e] => e \notin there \ store
          /\ StatusOf(reason[e]) # {} =>
                /\ PodWrites(e) = Cardinality(seen[e]) + Count(PodEntry(e), again)
                /\ e \in store => handling = e \/ OnItsWay("k8s", PodEntry(e))

BoundInv ==
    /\ stream = [s \in EventStreams |-> stream[s]]
    /\ \A s \in EventStreams : IsABag(stream[s])
    /\ IsABag(lost) /\ IsABag(again)
    /\ restarts \in Nat
    /\ restarts <= failures
    /\ events \in 0 .. MaxEvents
    /\ failures \in 0 .. MaxFailures

\* A step loses and repeats nothing that is written of Events, and none is
\* looked at.
PodGhostsKept ==
    /\ UNCHANGED <<restarts, seen>>
    /\ BagToSet(lost) \subseteq BagToSet(lost')
    /\ \A y : y.from = "pod" =>
          /\ y \in BagToSet(lost') => y \in BagToSet(lost)
          /\ y \in BagToSet(again') => y \in BagToSet(again)
          /\ Count(y, lost') = Count(y, lost) /\ Count(y, again') = Count(y, again)

\* A step forgets no repeated write.
AgainGrows ==
    \A y : /\ Count(y, again) \in Nat /\ Count(y, again') \in Nat
           /\ Count(y, again) <= Count(y, again')

SourcesInv == BoundInv /\ HookInv /\ AssignInv /\ GiteaInv /\ PodInv

-----------------------------------------------------------------------------

\* One more copy of each of the entries is in the bag, and of no other.
LEMMA AddSetToBag ==
  ASSUME NEW B, IsABag(B), NEW X
  PROVE  /\ IsABag(B (+) SetToBag(X))
         /\ BagToSet(B (+) SetToBag(X)) = BagToSet(B) \cup X
         /\ \A x \in X : Count(x, B (+) SetToBag(X)) = Count(x, B) + 1
         /\ \A y : y \notin X => Count(y, B (+) SetToBag(X)) = Count(y, B)
         /\ \A y : Count(y, B) \in Nat
         /\ \A y : y \notin BagToSet(B) => Count(y, B) = 0
<1>. DEFINE C == B (+) SetToBag(X)
<1>1. B \in [DOMAIN B -> {n \in Nat : n > 0}]
  BY DEF IsABag
<1>2. C = [e \in DOMAIN B \cup X |->
              (IF e \in DOMAIN B THEN B[e] ELSE 0) + (IF e \in X THEN 1 ELSE 0)]
  BY DEF (+), SetToBag
<1>. HIDE DEF C
<1>3. DOMAIN C = DOMAIN B \cup X
  BY <1>2
<1>4. \A e \in DOMAIN B \cup X : C[e] \in {n \in Nat : n > 0}
  BY <1>1, <1>2
<1>5. IsABag(C)
  BY <1>2, <1>3, <1>4 DEF IsABag
<1>6. BagToSet(C) = BagToSet(B) \cup X
  BY <1>3 DEF BagToSet
<1>7. \A x \in X : Count(x, C) = Count(x, B) + 1
  BY <1>1, <1>2, <1>3 DEF Count, BagIn, BagToSet
<1>8. \A y : y \notin X => Count(y, C) = Count(y, B)
  BY <1>1, <1>2, <1>3 DEF Count, BagIn, BagToSet
<1>9. \A y : Count(y, B) \in Nat /\ (y \notin BagToSet(B) => Count(y, B) = 0)
  BY <1>1 DEF Count, BagIn, BagToSet
<1>. QED
  BY <1>5, <1>6, <1>7, <1>8, <1>9 DEF C

\* One more copy of an entry is in the bag, and of no other.
LEMMA AddToBag ==
  ASSUME NEW B, IsABag(B), NEW x
  PROVE  /\ IsABag(B (+) SetToBag({x}))
         /\ BagToSet(B (+) SetToBag({x})) = BagToSet(B) \cup {x}
         /\ Count(x, B (+) SetToBag({x})) = Count(x, B) + 1
         /\ \A y : y # x => Count(y, B (+) SetToBag({x})) = Count(y, B)
         /\ \A y : Count(y, B) \in Nat
         /\ \A y : y \notin BagToSet(B) => Count(y, B) = 0
<1>. DEFINE C == B (+) SetToBag({x})
<1>1. /\ IsABag(C) /\ BagToSet(C) = BagToSet(B) \cup {x}
      /\ \A z \in {x} : Count(z, C) = Count(z, B) + 1
      /\ \A y : y \notin {x} => Count(y, C) = Count(y, B)
      /\ \A y : Count(y, B) \in Nat
      /\ \A y : y \notin BagToSet(B) => Count(y, B) = 0
  BY AddSetToBag
<1>. HIDE DEF C
<1>2. Count(x, C) = Count(x, B) + 1 /\ \A y : y # x => Count(y, C) = Count(y, B)
  BY <1>1
<1>. QED
  BY <1>1, <1>2 DEF C

\* Counts in a bag are numbers.
LEMMA CountType ==
  ASSUME BoundInv
  PROVE  /\ \A t \in EventStreams : \A y :
               /\ Count(y, stream[t]) \in Nat
               /\ y \notin BagToSet(stream[t]) => Count(y, stream[t]) = 0
         /\ \A y : /\ Count(y, lost) \in Nat /\ Count(y, again) \in Nat
                   /\ y \notin BagToSet(lost) => Count(y, lost) = 0
                   /\ y \notin BagToSet(again) => Count(y, again) = 0
         /\ UNCHANGED again => AgainGrows
<1>1. /\ \A t \in EventStreams : IsABag(stream[t])
      /\ IsABag(lost) /\ IsABag(again)
  BY DEF BoundInv
<1>2. \A y : /\ Count(y, lost) \in Nat /\ Count(y, again) \in Nat
             /\ y \notin BagToSet(lost) => Count(y, lost) = 0
             /\ y \notin BagToSet(again) => Count(y, again) = 0
  BY <1>1, AddToBag
<1>3. UNCHANGED again => AgainGrows
  BY <1>2 DEF AgainGrows
<1>. QED
  BY <1>1, <1>2, <1>3, AddToBag

\* A write puts one copy of the entry into its stream or loses it to a fault, or
\* puts it there and is repeated.
WriteEffects(s, entry) ==
    /\ BoundInv' /\ events' >= events /\ events' \in Nat /\ AgainGrows
    /\ UNCHANGED <<restarts, seen>>
    /\ \A t \in EventStreams : t # s => stream'[t] = stream[t]
    /\ BagToSet(stream[s]) \subseteq BagToSet(stream'[s])
    /\ BagToSet(stream'[s]) \subseteq BagToSet(stream[s]) \cup {entry}
    /\ BagToSet(lost) \subseteq BagToSet(lost')
    /\ BagToSet(lost') \subseteq BagToSet(lost) \cup {entry}
    /\ BagToSet(again') \subseteq BagToSet(again) \cup {entry}
    /\ \A y : y # entry => /\ Count(y, stream'[s]) = Count(y, stream[s])
                           /\ Count(y, lost') = Count(y, lost)
                           /\ Count(y, again') = Count(y, again)
    /\ \A y : Count(y, stream'[s]) \in Nat /\ Count(y, lost') \in Nat
    /\ Count(entry, stream'[s]) + Count(entry, lost')
           = Count(entry, stream[s]) + Count(entry, lost) + 1
    /\ Count(entry, stream'[s]) <= Count(entry, stream[s]) + 1

LEMMA WriteEffect ==
  ASSUME BoundInv, NEW s \in EventStreams, NEW entry,
         Written(s, entry) \/ Unheard(s, entry)
  PROVE  /\ WriteEffects(s, entry)
         /\ Written(s, entry) =>
               again' = again /\ entry \in BagToSet(stream'[s]) \cup BagToSet(lost')
         /\ Unheard(s, entry) => Count(entry, again') = Count(entry, again) + 1
<1>. DEFINE new == stream[s] (+) SetToBag({entry})
            newLost == lost (+) SetToBag({entry})
            newAgain == again (+) SetToBag({entry})
<1>1. /\ stream = [t \in EventStreams |-> stream[t]]
      /\ \A t \in EventStreams : IsABag(stream[t])
      /\ IsABag(lost) /\ IsABag(again)
  BY DEF BoundInv
<1>2. /\ IsABag(new) /\ BagToSet(new) = BagToSet(stream[s]) \cup {entry}
      /\ Count(entry, new) = Count(entry, stream[s]) + 1
      /\ \A y : y # entry => Count(y, new) = Count(y, stream[s])
  BY <1>1, AddToBag
<1>3. /\ IsABag(newLost) /\ BagToSet(newLost) = BagToSet(lost) \cup {entry}
      /\ Count(entry, newLost) = Count(entry, lost) + 1
      /\ \A y : y # entry => Count(y, newLost) = Count(y, lost)
  BY <1>1, AddToBag
<1>4. /\ IsABag(newAgain) /\ BagToSet(newAgain) = BagToSet(again) \cup {entry}
      /\ Count(entry, newAgain) = Count(entry, again) + 1
      /\ \A y : y # entry => Count(y, newAgain) = Count(y, again)
  BY <1>1, AddToBag
<1>5. \A y : Count(y, stream[s]) \in Nat /\ Count(y, lost) \in Nat /\ Count(y, again) \in Nat
  BY CountType
<1>6. Written(s, entry) =>
         \/ /\ stream' = [stream EXCEPT ![s] = new]
            /\ UNCHANGED <<lost, again, restarts, seen, events, failures>>
         \/ /\ Failure /\ lost' = newLost /\ UNCHANGED <<stream, again, restarts, seen>>
  BY DEF Written, ghostVars, boundVars
<1>7. Unheard(s, entry) =>
         /\ Failure /\ stream' = [stream EXCEPT ![s] = new] /\ again' = newAgain
         /\ UNCHANGED <<lost, restarts, seen>>
  BY DEF Unheard
<1>. HIDE DEF new, newLost, newAgain
<1>8. /\ stream' = [stream EXCEPT ![s] = new] =>
            /\ stream'[s] = new /\ stream' = [t \in EventStreams |-> stream'[t]]
            /\ \A t \in EventStreams : t # s => stream'[t] = stream[t]
  BY <1>1
<1>9. /\ events \in Nat /\ events' \in Nat /\ events' >= events
      /\ events' <= MaxEvents /\ failures' \in Nat /\ failures' <= MaxFailures
      /\ restarts' \in Nat /\ restarts' <= failures' /\ UNCHANGED <<restarts, seen>>
  <2>1. MaxEvents \in Nat /\ MaxFailures \in Nat
    BY EventSourcesAssumption
  <2>2. /\ events \in Nat /\ events <= MaxEvents /\ failures \in Nat /\ failures <= MaxFailures
        /\ restarts \in Nat /\ restarts <= failures
    BY <2>1 DEF BoundInv
  <2>3. Failure => /\ events' = events + 1 /\ failures' = failures + 1
                   /\ events' <= MaxEvents /\ failures' <= MaxFailures
    BY <2>1, <2>2 DEF Failure, Occurrence
  <2>. QED
    BY <1>6, <1>7, <2>2, <2>3
<1>10. /\ IsABag(lost') /\ IsABag(again')
       /\ stream' = [t \in EventStreams |-> stream'[t]]
       /\ \A t \in EventStreams : t # s => stream'[t] = stream[t]
       /\ IsABag(stream'[s])
  BY <1>1, <1>2, <1>3, <1>4, <1>6, <1>7, <1>8
<1>11. BoundInv'
  <2>1. \A t \in EventStreams : IsABag(stream'[t])
    BY <1>1, <1>10
  <2>0. MaxEvents \in Nat /\ MaxFailures \in Nat
    BY EventSourcesAssumption
  <2>2. events' \in 0 .. MaxEvents /\ failures' \in 0 .. MaxFailures
    BY <1>9, <2>0
  <2>. QED
    BY <1>9, <1>10, <2>1, <2>2 DEF BoundInv
<1>12. AgainGrows
  BY <1>4, <1>5, <1>6, <1>7 DEF AgainGrows
<1>13. /\ BagToSet(stream[s]) \subseteq BagToSet(stream'[s])
       /\ BagToSet(stream'[s]) \subseteq BagToSet(stream[s]) \cup {entry}
       /\ BagToSet(lost) \subseteq BagToSet(lost')
       /\ BagToSet(lost') \subseteq BagToSet(lost) \cup {entry}
       /\ BagToSet(again') \subseteq BagToSet(again) \cup {entry}
  BY <1>2, <1>3, <1>4, <1>6, <1>7, <1>8
<1>14. \A y : y # entry => /\ Count(y, stream'[s]) = Count(y, stream[s])
                           /\ Count(y, lost') = Count(y, lost)
                           /\ Count(y, again') = Count(y, again)
  BY <1>2, <1>3, <1>4, <1>6, <1>7, <1>8
<1>15. \A y : Count(y, stream'[s]) \in Nat /\ Count(y, lost') \in Nat
  BY <1>10, AddToBag
<1>16. /\ Count(entry, stream'[s]) + Count(entry, lost')
             = Count(entry, stream[s]) + Count(entry, lost) + 1
       /\ Count(entry, stream'[s]) <= Count(entry, stream[s]) + 1
  BY <1>2, <1>3, <1>5, <1>6, <1>7, <1>8
<1>17. Written(s, entry) =>
          again' = again /\ entry \in BagToSet(stream'[s]) \cup BagToSet(lost')
  BY <1>2, <1>3, <1>6, <1>8
<1>18. Unheard(s, entry) => Count(entry, again') = Count(entry, again) + 1
  BY <1>4, <1>7
<1>19. WriteEffects(s, entry)
  BY <1>9, <1>10, <1>11, <1>12, <1>13, <1>14, <1>15, <1>16 DEF WriteEffects
<1>. QED
  BY <1>17, <1>18, <1>19

\* A step that writes nothing.
LEMMA BoundKept ==
  ASSUME BoundInv, UNCHANGED <<stream, again>>, IsABag(lost'),
         \/ UNCHANGED <<restarts, events, failures>>
         \/ Occurrence /\ UNCHANGED <<restarts, failures>>
         \/ Failure /\ restarts' \in {restarts, restarts + 1}
  PROVE  BoundInv' /\ events' \in Nat /\ events' >= events /\ restarts' >= restarts
<1>1. MaxEvents \in Nat /\ MaxFailures \in Nat
  BY EventSourcesAssumption
<1>2. /\ events \in 0 .. MaxEvents /\ failures \in 0 .. MaxFailures
      /\ restarts \in Nat /\ restarts <= failures
  BY DEF BoundInv
<1>3. /\ events' \in 0 .. MaxEvents /\ failures' \in 0 .. MaxFailures
      /\ restarts' \in Nat /\ restarts' <= failures'
      /\ events' >= events /\ restarts' >= restarts
  BY <1>1, <1>2 DEF Occurrence, Failure
<1>. QED
  BY <1>1, <1>3 DEF BoundInv

\* What is at most a number of times in a stream that no step adds it to.
LEMMA HookKept ==
  ASSUME HookInv, BoundInv, UNCHANGED webhookVars,
         AgainGrows, BagToSet(lost) \subseteq BagToSet(lost'),
         \A t \in EventStreams : \A y : Count(y, stream[t]) \in Nat,
         BagToSet(stream["gitea"]) \subseteq BagToSet(stream'["gitea"]),
         \A d \in DOMAIN hooks :
            Count(HookEntry(d), stream'["gitea"]) = Count(HookEntry(d), stream["gitea"])
  PROVE  HookInv'
<1>1. UNCHANGED <<hooks, state, writers>>
  BY DEF webhookVars
<1>2. \A d \in DOMAIN hooks : HookEntry(d)' = HookEntry(d)
  BY <1>1 DEF HookEntry
<1>4. ASSUME NEW d \in DOMAIN hooks
      PROVE  /\ state[d] = "sent" \/ d \in writers =>
                   Count(HookEntry(d), stream'["gitea"]) <= Count(HookEntry(d), again')
             /\ \/ state[d] = "accepted"
                \/ state[d] = "answered" /\ hooks[d].kind \in Published
                => d \in writers \/ HookEntry(d) \in BagToSet(stream'["gitea"]) \cup BagToSet(lost')
  <2>1. "gitea" \in EventStreams
    BY DEF EventStreams
  <2>2. Count(HookEntry(d), stream["gitea"]) \in Nat
    BY <2>1
  <2>3. state[d] = "sent" \/ d \in writers => Count(HookEntry(d), stream["gitea"]) <= Count(HookEntry(d), again)
    BY <1>4 DEF HookInv
  <2>4. \/ state[d] = "accepted"
        \/ state[d] = "answered" /\ hooks[d].kind \in Published
        => d \in writers \/ HookEntry(d) \in BagToSet(stream["gitea"]) \cup BagToSet(lost)
    BY <1>4 DEF HookInv, OnItsWay, EntriesOf
  <2>. QED
    BY <1>4, <2>2, <2>3, <2>4 DEF AgainGrows
<1>. QED
  BY <1>1, <1>2, <1>4 DEF HookInv, OnItsWay, EntriesOf

\* What the type of the assignments gives.
LEMMA CalledFinite ==
  ASSUME AssignInv
  PROVE  /\ DOMAIN assigns = 1 .. Len(assigns) /\ Len(assigns) \in Nat
         /\ IsFiniteSet(Called) /\ Cardinality(Called) \in Nat
         /\ issues \in Nat
         /\ \A a \in DOMAIN assigns :
               assigns[a] \in [state : AssignStates, issue : 0 .. issues]
<1>1. assigns \in Seq([state : AssignStates, issue : 0 .. issues]) /\ issues \in Nat
  BY DEF AssignInv
<1>2. DOMAIN assigns = 1 .. Len(assigns) /\ Len(assigns) \in Nat
  BY <1>1
<1>3. IsFiniteSet(DOMAIN assigns)
  BY <1>2, FS_Interval
<1>4. Called \subseteq DOMAIN assigns
  BY DEF Called
<1>5. \A a \in DOMAIN assigns : assigns[a] \in [state : AssignStates, issue : 0 .. issues]
  <2>. DEFINE T == [state : AssignStates, issue : 0 .. issues]
  <2>1. assigns \in Seq(T)
    BY <1>1
  <2>. HIDE DEF T
  <2>2. \A a \in 1 .. Len(assigns) : assigns[a] \in T
    BY <2>1, ElementOfSeq
  <2>. QED
    BY <1>2, <2>2 DEF T
<1>. QED
  BY <1>1, <1>2, <1>3, <1>4, <1>5, FS_Subset, FS_CardinalityType

\* What keeps the part about assignments, when none changes.
LEMMA AssignKept ==
  ASSUME AssignInv, BoundInv, UNCHANGED assignVars, events' \in Nat, events' >= events,
         AgainGrows, BagToSet(lost) \subseteq BagToSet(lost'),
         \A t \in EventStreams : \A y : Count(y, stream[t]) \in Nat,
         BagToSet(stream["gitea"]) \subseteq BagToSet(stream'["gitea"]),
         \A a \in DOMAIN assigns :
            Count(AssignEntry(a), stream'["gitea"]) = Count(AssignEntry(a), stream["gitea"])
  PROVE  AssignInv'
<1>1. UNCHANGED <<assigns, issues>>
  BY DEF assignVars
<1>2. (\A a \in DOMAIN assigns : AssignEntry(a)' = AssignEntry(a)) /\ Called' = Called
  BY <1>1 DEF AssignEntry, Called
<1>4. ASSUME NEW a \in DOMAIN assigns
      PROVE  /\ assigns[a].state = "created" =>
                   Count(AssignEntry(a), stream'["gitea"]) <= Count(AssignEntry(a), again')
             /\ assigns[a].state = "answered" =>
                   AssignEntry(a) \in BagToSet(stream'["gitea"]) \cup BagToSet(lost')
  <2>1. "gitea" \in EventStreams
    BY DEF EventStreams
  <2>2. Count(AssignEntry(a), stream["gitea"]) \in Nat
    BY <2>1
  <2>3. assigns[a].state = "created" => Count(AssignEntry(a), stream["gitea"]) <= Count(AssignEntry(a), again)
    BY <1>4 DEF AssignInv
  <2>4. assigns[a].state = "answered" => AssignEntry(a) \in BagToSet(stream["gitea"]) \cup BagToSet(lost)
    BY <1>4 DEF AssignInv, OnItsWay, EntriesOf
  <2>. QED
    BY <1>4, <2>2, <2>3, <2>4 DEF AgainGrows
<1>5. issues' + Cardinality(Called') <= events'
  <2>1. issues + Cardinality(Called) <= events
    BY DEF AssignInv
  <2>2. events \in Nat
    BY DEF BoundInv
  <2>3. issues \in Nat /\ Cardinality(Called) \in Nat
    BY CalledFinite
  <2>. QED
    BY <1>1, <1>2, <2>1, <2>2, <2>3
<1>. QED
  BY <1>1, <1>2, <1>4, <1>5 DEF AssignInv, OnItsWay, EntriesOf

\* What keeps the part about Events, when none changes.
LEMMA PodKept ==
  ASSUME PodInv, UNCHANGED <<kubeVars, watcherVars>>, stream'["k8s"] = stream["k8s"],
         PodGhostsKept
  PROVE  PodInv'
<1>1. UNCHANGED <<reason, there, store, handling, restarts, seen>>
  BY DEF kubeVars, watcherVars, PodGhostsKept
<1>2. \A e \in KubeEvents : PodEntry(e)' = PodEntry(e) /\ PodEntry(e).from = "pod"
  BY <1>1 DEF PodEntry
<1>3. \A e \in KubeEvents : /\ Count(PodEntry(e)', lost') = Count(PodEntry(e), lost)
                            /\ Count(PodEntry(e)', again') = Count(PodEntry(e), again)
  BY <1>2 DEF PodGhostsKept
<1>4. \A e \in KubeEvents : PodWrites(e)' = PodWrites(e)
  BY <1>1, <1>2, <1>3 DEF PodWrites
<1>5. ASSUME NEW e \in KubeEvents
      PROVE  /\ reason[e] = None => seen[e] = {}
             /\ restarts \in seen[e] => e \notin there \ store
             /\ StatusOf(reason[e]) # {} =>
                   /\ PodWrites(e)' = Cardinality(seen[e]) + Count(PodEntry(e)', again')
                   /\ e \in store =>
                         handling = e \/ PodEntry(e)' \in BagToSet(stream["k8s"]) \cup BagToSet(lost')
  <2>1. BagToSet(lost) \subseteq BagToSet(lost')
    BY DEF PodGhostsKept
  <2>. QED
    BY <1>2, <1>3, <1>4, <1>5, <2>1 DEF PodInv, OnItsWay, EntriesOf
<1>6. \A y \in BagToSet(stream["k8s"]) \cup BagToSet(lost') \cup BagToSet(again') :
         y.from = "pod" => y.n \in KubeEvents /\ reason[y.n] # None
  BY DEF PodInv, EntriesOf, PodGhostsKept
<1>. QED
  BY <1>1, <1>5, <1>6 DEF PodInv, OnItsWay, EntriesOf

\* What keeps the part about the entries of events:gitea.
LEMMA GiteaKept ==
  ASSUME GiteaInv, BoundInv, AssignInv, stream'["gitea"] = stream["gitea"],
         DOMAIN hooks \subseteq DOMAIN hooks', issues' \in Nat, issues' >= issues,
         AgainGrows,
         \A t \in EventStreams : \A y : Count(y, stream[t]) \in Nat,
         \A l \in BagToSet(lost') \ BagToSet(lost) : l.from # "pod" => Known(l)
  PROVE  GiteaInv'
<1>1. ASSUME NEW l, Known(l) PROVE Known(l)'
  BY <1>1 DEF Known, AssignInv
<1>2. \A entry \in BagToSet(stream["gitea"]) \cup {l \in BagToSet(lost) : l.from # "pod"} : Known(entry)
  BY DEF GiteaInv, EntriesOf
<1>3. ASSUME NEW entry \in BagToSet(stream["gitea"])
      PROVE  Count(entry, stream["gitea"]) <= 1 + Count(entry, again')
  <2>1. Count(entry, stream["gitea"]) \in Nat
    BY DEF EventStreams
  <2>2. Count(entry, stream["gitea"]) <= 1 + Count(entry, again)
    BY <1>3 DEF GiteaInv, EntriesOf
  <2>. QED
    BY <2>1, <2>2 DEF AgainGrows
<1>4. \A entry \in BagToSet(stream'["gitea"]) \cup {l \in BagToSet(lost') : l.from # "pod"} :
         Known(entry)'
  BY <1>1, <1>2
<1>. QED
  BY <1>3, <1>4 DEF GiteaInv, EntriesOf

\* The initial states satisfy the invariant.
LEMMA SourcesInitInv == SourcesInit => SourcesInv
<1>. SUFFICES ASSUME SourcesInit PROVE SourcesInv
  OBVIOUS
<1>. USE DEF SourcesInit
<1>1. EmptyBag = [e \in {} |-> 1]
  BY DEF EmptyBag, SetToBag
<1>2. IsABag(EmptyBag) /\ BagToSet(EmptyBag) = {}
  BY <1>1 DEF IsABag, BagToSet
<1>3. stream["gitea"] = EmptyBag /\ stream["k8s"] = EmptyBag
  BY DEF EventStreams
<1>4. BoundInv
  <2>1. MaxEvents \in Nat /\ MaxFailures \in Nat
    BY EventSourcesAssumption
  <2>2. /\ stream = [s \in EventStreams |-> stream[s]]
        /\ \A s \in EventStreams : IsABag(stream[s])
        /\ IsABag(lost) /\ IsABag(again)
    BY <1>2
  <2>. QED
    BY <2>1, <2>2 DEF BoundInv
<1>5. HookInv
  BY DEF HookInv
<1>6. AssignInv
  <2>1. Called = {}
    BY DEF Called
  <2>2. Cardinality(Called) = 0
    BY <2>1, FS_EmptySet
  <2>. QED
    BY <2>2 DEF AssignInv
<1>7. GiteaInv
  BY <1>2, <1>3 DEF GiteaInv, EntriesOf
<1>8. PodInv
  <2>1. \A y : /\ Count(y, stream["k8s"]) = 0
               /\ Count(y, lost) = 0 /\ Count(y, again) = 0
    BY <1>2, <1>3 DEF Count, BagIn
  <2>2. None \notin KubeEvents
    BY EventSourcesAssumption
  <2>3. \A e \in KubeEvents : PodWrites(e) = Cardinality(seen[e]) + Count(PodEntry(e), again)
    BY <2>1, <2>2, FS_EmptySet DEF PodWrites
  <2>. QED
    BY <1>2, <1>3, <2>3 DEF PodInv, EntriesOf
<1>. QED
  BY <1>4, <1>5, <1>6, <1>7, <1>8 DEF SourcesInv

-----------------------------------------------------------------------------
(* The webhook                                                             *)

\* A delivery is sent: nothing is written for it yet.
LEMMA DeliverInv ==
  ASSUME SourcesInv, NEW hook \in Hooks, Deliver(hook), stream' = stream,
         again' = again, lost' = lost
  PROVE  HookInv' /\ DOMAIN hooks \subseteq DOMAIN hooks'
<1>0. HookInv /\ GiteaInv /\ BoundInv
  BY DEF SourcesInv
<1>1. /\ hooks \in Seq(Hooks) /\ state \in Seq(HookStates) /\ Len(state) = Len(hooks)
      /\ DOMAIN hooks = 1 .. Len(hooks) /\ Len(hooks) \in Nat
  <2>1. hooks \in Seq(Hooks) /\ state \in [DOMAIN hooks -> HookStates]
    BY <1>0 DEF HookInv
  <2>2. DOMAIN hooks = 1 .. Len(hooks) /\ Len(hooks) \in Nat
    BY <2>1
  <2>3. state \in [1 .. Len(hooks) -> HookStates]
    BY <2>1, <2>2
  <2>4. state \in Seq(HookStates) /\ Len(state) = Len(hooks)
    BY <2>2, <2>3
  <2>. QED
    BY <2>1, <2>2, <2>4
<1>13. PICK new : new = Len(hooks) + 1
  OBVIOUS
<1>2. hooks' = Append(hooks, hook) /\ state' = Append(state, "sent") /\ writers' = writers
  BY DEF Deliver
<1>3. /\ hooks' \in Seq(Hooks) /\ DOMAIN hooks' = 1 .. new /\ hooks'[new] = hook
      /\ \A d \in DOMAIN hooks : hooks'[d] = hooks[d]
  BY <1>1, <1>2, <1>13, AppendProperties
<1>4. /\ state' \in [DOMAIN hooks' -> HookStates] /\ state'[new] = "sent"
      /\ \A d \in DOMAIN hooks : state'[d] = state[d]
  <2>1. "sent" \in HookStates
    BY DEF HookStates
  <2>2. /\ state' \in Seq(HookStates) /\ Len(state') = new /\ state'[new] = "sent"
        /\ \A d \in 1 .. Len(state) : state'[d] = state[d]
    BY <1>1, <1>2, <1>13, <2>1, AppendProperties
  <2>. QED
    BY <1>1, <1>3, <2>2
<1>5. DOMAIN hooks' = DOMAIN hooks \cup {new} /\ new \notin DOMAIN hooks
  BY <1>1, <1>3, <1>13
<1>6. \A d \in DOMAIN hooks : HookEntry(d)' = HookEntry(d)
  BY <1>3 DEF HookEntry
<1>7. Count(HookEntry(new)', stream["gitea"]) = 0
  <2>1. (HookEntry(new)').n = new /\ (HookEntry(new)').from = "hook"
    BY DEF HookEntry
  <2>2. HookEntry(new)' \notin BagToSet(stream["gitea"])
    BY <1>0, <1>5, <2>1 DEF GiteaInv, EntriesOf, Known
  <2>. QED
    BY <2>2 DEF Count, BagIn
<1>8. \A y : Count(y, again) \in Nat
  BY <1>0, CountType
<1>9. ASSUME NEW d \in DOMAIN hooks'
      PROVE  /\ state'[d] = "sent" \/ d \in writers' =>
                   Count(HookEntry(d)', stream'["gitea"]) <= Count(HookEntry(d)', again')
             /\ \/ state'[d] = "accepted"
                \/ state'[d] = "answered" /\ hooks'[d].kind \in Published
                => d \in writers' \/ HookEntry(d)' \in BagToSet(stream'["gitea"]) \cup BagToSet(lost')
  <2>1. CASE d = new
    <3>1. d \notin writers'
      BY <1>0, <1>2, <1>5, <2>1 DEF HookInv
    <3>. QED
      <4>1. HookEntry(d)' = HookEntry(new)'
        BY <2>1
      <4>2. Count(HookEntry(d)', stream'["gitea"]) = 0
        BY <1>7, <4>1
      <4>3. state'[d] = "sent"
        BY <1>4, <2>1
      <4>. QED
        BY <1>8, <3>1, <4>2, <4>3
  <2>2. CASE d \in DOMAIN hooks
    <3>1. /\ state[d] = "sent" \/ d \in writers =>
                Count(HookEntry(d), stream["gitea"]) <= Count(HookEntry(d), again)
          /\ \/ state[d] = "accepted"
             \/ state[d] = "answered" /\ hooks[d].kind \in Published
             => d \in writers \/ HookEntry(d) \in BagToSet(stream["gitea"]) \cup BagToSet(lost)
      BY <1>0, <2>2 DEF HookInv, OnItsWay, EntriesOf
    <3>. QED
      BY <1>2, <1>3, <1>4, <1>6, <2>2, <3>1
  <2>. QED
    BY <1>5, <2>1, <2>2
<1>10. /\ writers' \subseteq {d \in DOMAIN hooks' : state'[d] \in {"accepted", "answered"}}
       /\ \A d \in writers' : VerifySignature(hooks'[d]) /\ hooks'[d].kind \in Published
  BY <1>0, <1>2, <1>3, <1>4, <1>5 DEF HookInv
<1>11. HookInv'
  BY <1>3, <1>4, <1>9, <1>10 DEF HookInv, OnItsWay, EntriesOf
<1>. QED
  BY <1>5, <1>11

\* What a delivery's own steps leave alone.
LEMMA OthersKept ==
  ASSUME SourcesInv, UNCHANGED <<kubeVars, watcherVars, assignVars, stream, ghostVars>>,
         BoundInv', events' >= events, DOMAIN hooks \subseteq DOMAIN hooks'
  PROVE  AssignInv' /\ GiteaInv' /\ PodInv'
<1>1. BoundInv /\ AssignInv /\ GiteaInv /\ PodInv
  BY DEF SourcesInv
<1>2. /\ \A t \in EventStreams : \A y : Count(y, stream[t]) \in Nat
      /\ AgainGrows /\ events' \in Nat /\ UNCHANGED <<lost, again, restarts, seen>>
  BY <1>1, CountType DEF BoundInv, ghostVars
<1>7. PodGhostsKept
  BY <1>2 DEF PodGhostsKept
<1>3. AssignInv'
  BY <1>1, <1>2, AssignKept
<1>4. issues' \in Nat /\ issues' >= issues
  BY <1>1 DEF assignVars, AssignInv
<1>5. GiteaInv'
  BY <1>1, <1>2, <1>4, GiteaKept
<1>6. PodInv'
  BY <1>1, <1>7, PodKept
<1>. QED
  BY <1>3, <1>5, <1>6

\* Gitea's report keeps the invariant.
LEMMA ReportInv ==
  ASSUME SourcesInv, NEW hook \in Hooks, Report(hook)
  PROVE  SourcesInv'
<1>1. /\ Occurrence /\ Deliver(hook)
      /\ UNCHANGED <<kubeVars, watcherVars, assignVars, stream, ghostVars, failures>>
      /\ UNCHANGED <<lost, again, restarts>>
  BY DEF Report, ghostVars
<1>2. BoundInv' /\ events' >= events
  <2>1. BoundInv /\ IsABag(lost')
    BY <1>1 DEF SourcesInv, BoundInv
  <2>. QED
    BY <1>1, <2>1, BoundKept
<1>3. HookInv' /\ DOMAIN hooks \subseteq DOMAIN hooks'
  BY <1>1, DeliverInv
<1>4. AssignInv' /\ GiteaInv' /\ PodInv'
  BY <1>1, <1>2, <1>3, OthersKept
<1>. QED
  BY <1>2, <1>3, <1>4 DEF SourcesInv

\* A repeated delivery keeps the invariant.
LEMMA RedeliverInv ==
  ASSUME SourcesInv, NEW d \in DOMAIN hooks, Redeliver(d)
  PROVE  SourcesInv'
<1>1. hooks[d] \in Hooks
  BY DEF SourcesInv, HookInv
<1>2. PICK hook \in Hooks : hook = hooks[d] /\ Report(hook)
  BY <1>1 DEF Redeliver
<1>. QED
  BY <1>2, ReportInv

\* A delivery is answered, refused or taken on.
LEMMA HandleInv ==
  ASSUME SourcesInv, NEW d \in DOMAIN hooks, ServeHTTP(d) \/ ReadFails(d) \/ Reply(d)
  PROVE  SourcesInv'
<1>0. HookInv /\ BoundInv
  BY DEF SourcesInv
<1>1. /\ UNCHANGED <<hooks, kubeVars, watcherVars, assignVars, stream, ghostVars>>
      /\ UNCHANGED <<lost, again, restarts>>
      /\ \/ UNCHANGED <<restarts, events, failures>>
         \/ Failure /\ restarts' \in {restarts, restarts + 1}
  BY DEF ServeHTTP, ReadFails, Reply, ghostVars, boundVars
<1>2. BoundInv' /\ events' >= events
  <2>1. IsABag(lost')
    BY <1>0, <1>1 DEF BoundInv
  <2>. QED
    BY <1>0, <1>1, <2>1, BoundKept
<1>3. AssignInv' /\ GiteaInv' /\ PodInv'
  BY <1>1, <1>2, OthersKept
<1>4. PICK v \in HookStates :
         /\ state' = [state EXCEPT ![d] = v]
         /\ \/ /\ state[d] = "sent" /\ Accepts(hooks[d]) /\ v = "accepted"
               /\ writers' = writers \cup {d}
            \/ /\ state[d] = "sent" /\ v \in {"answered", "refused"} /\ writers' = writers
               /\ v = "answered" => hooks[d].kind \notin Published
            \/ /\ state[d] = "accepted" /\ v = "answered" /\ writers' = writers
  <2>1. CASE ServeHTTP(d)
    <3>1. CASE Accepts(hooks[d])
      BY <2>1, <3>1 DEF ServeHTTP, HookStates
    <3>2. CASE ~Accepts(hooks[d]) /\ VerifySignature(hooks[d])
      BY <2>1, <3>2 DEF ServeHTTP, HookStates, Accepts
    <3>3. CASE ~Accepts(hooks[d]) /\ ~VerifySignature(hooks[d])
      BY <2>1, <3>3 DEF ServeHTTP, HookStates
    <3>. QED
      BY <3>1, <3>2, <3>3
  <2>2. CASE ReadFails(d)
    BY <2>2 DEF ReadFails, HookStates
  <2>3. CASE Reply(d)
    BY <2>3 DEF Reply, Replied, HookStates
  <2>. QED
    BY <2>1, <2>2, <2>3
<1>5. /\ state' \in [DOMAIN hooks -> HookStates] /\ state'[d] = v
      /\ \A c \in DOMAIN hooks : c # d => state'[c] = state[c]
  BY <1>0, <1>4 DEF HookInv
<1>6. /\ writers' \subseteq {c \in DOMAIN hooks : state'[c] \in {"accepted", "answered"}}
      /\ \A c \in writers' : VerifySignature(hooks[c]) /\ hooks[c].kind \in Published
  <2>1. ASSUME NEW c \in writers'
        PROVE  /\ c \in DOMAIN hooks /\ state'[c] \in {"accepted", "answered"}
               /\ VerifySignature(hooks[c]) /\ hooks[c].kind \in Published
    <3>1. CASE c = d
      <4>1. c \in writers => /\ state[c] \in {"accepted", "answered"}
                             /\ VerifySignature(hooks[c]) /\ hooks[c].kind \in Published
        BY <1>0 DEF HookInv
      <4>. QED
        BY <1>4, <1>5, <2>1, <3>1, <4>1 DEF Accepts
    <3>2. CASE c # d
      BY <1>0, <1>4, <1>5, <2>1, <3>2 DEF HookInv
    <3>. QED
      BY <3>1, <3>2
  <2>. QED
    BY <2>1
<1>7. \A c \in DOMAIN hooks : HookEntry(c)' = HookEntry(c)
  BY <1>1 DEF HookEntry
<1>8. ASSUME NEW c \in DOMAIN hooks
      PROVE  /\ state'[c] = "sent" \/ c \in writers' =>
                   Count(HookEntry(c), stream["gitea"]) <= Count(HookEntry(c), again)
             /\ \/ state'[c] = "accepted"
                \/ state'[c] = "answered" /\ hooks[c].kind \in Published
                => c \in writers' \/ HookEntry(c) \in BagToSet(stream["gitea"]) \cup BagToSet(lost)
  <2>1. /\ state[c] = "sent" \/ c \in writers =>
              Count(HookEntry(c), stream["gitea"]) <= Count(HookEntry(c), again)
        /\ \/ state[c] = "accepted"
           \/ state[c] = "answered" /\ hooks[c].kind \in Published
           => c \in writers \/ HookEntry(c) \in BagToSet(stream["gitea"]) \cup BagToSet(lost)
    BY <1>0, <1>8 DEF HookInv, OnItsWay, EntriesOf
  <2>2. CASE c # d
    BY <1>4, <1>5, <2>1, <2>2
  <2>3. CASE c = d
    BY <1>4, <1>5, <2>1, <2>3
  <2>. QED
    BY <2>2, <2>3
<1>9. HookInv'
  <2>1. hooks' \in Seq(Hooks) /\ hooks' = hooks
    BY <1>0, <1>1 DEF HookInv
  <2>. QED
    BY <1>1, <1>5, <1>6, <1>7, <1>8, <2>1 DEF HookInv, OnItsWay, EntriesOf
<1>. QED
  BY <1>2, <1>3, <1>9 DEF SourcesInv

\* An entry known and not written yet, but for repeated writes, is written.
LEMMA GiteaWritten ==
  ASSUME BoundInv, GiteaInv, UNCHANGED <<hooks, issues>>,
         NEW entry, Known(entry), Count(entry, stream["gitea"]) <= Count(entry, again),
         WriteEffects("gitea", entry)
  PROVE  GiteaInv'
<1>. USE DEF WriteEffects
<1>1. \A l : Known(l)' <=> Known(l)
  BY DEF Known
<1>2. \A l \in BagToSet(stream'["gitea"]) \cup {m \in BagToSet(lost') : m.from # "pod"} :
         Known(l)
  BY DEF GiteaInv, EntriesOf
<1>3. \A y : Count(y, stream["gitea"]) \in Nat
  BY CountType DEF EventStreams
<1>4. ASSUME NEW l \in BagToSet(stream'["gitea"])
      PROVE  Count(l, stream'["gitea"]) <= 1 + Count(l, again')
  <2>1. CASE l = entry
    <3>1. /\ Count(entry, stream["gitea"]) <= Count(entry, again)
          /\ Count(entry, stream'["gitea"]) <= Count(entry, stream["gitea"]) + 1
          /\ Count(entry, stream["gitea"]) \in Nat /\ Count(entry, stream'["gitea"]) \in Nat
          /\ Count(entry, again) \in Nat /\ Count(entry, again') \in Nat
          /\ Count(entry, again) <= Count(entry, again')
      BY <1>3 DEF AgainGrows
    <3>. QED
      BY <2>1, <3>1
  <2>2. CASE l # entry
    <3>1. l \in BagToSet(stream["gitea"])
      BY <1>4, <2>2
    <3>2. Count(l, stream["gitea"]) <= 1 + Count(l, again)
      BY <3>1 DEF GiteaInv, EntriesOf
    <3>. QED
      BY <2>2, <3>2
  <2>. QED
    BY <2>1, <2>2
<1>. QED
  BY <1>1, <1>2, <1>4 DEF GiteaInv, EntriesOf

\* The writing of another entry than those of Events.
LEMMA OtherWritten ==
  ASSUME PodInv, UNCHANGED <<kubeVars, watcherVars>>, NEW entry, entry.from # "pod",
         WriteEffects("gitea", entry)
  PROVE  PodInv'
<1>1. PodGhostsKept /\ stream'["k8s"] = stream["k8s"]
  BY DEF WriteEffects, PodGhostsKept, EventStreams
<1>. QED
  BY <1>1, PodKept

\* The goroutine writes a delivery's entry once, but for repeated writes.
LEMMA WriteHookInv ==
  ASSUME SourcesInv, NEW d \in DOMAIN hooks, WriteHook(d)
  PROVE  SourcesInv'
<1>0. BoundInv /\ HookInv /\ AssignInv /\ GiteaInv /\ PodInv
  BY DEF SourcesInv
<1>1. /\ d \in writers
      /\ \/ Written("gitea", HookEntry(d)) /\ writers' = writers \ {d}
         \/ Unheard("gitea", HookEntry(d)) /\ writers' = writers
      /\ UNCHANGED <<hooks, state, kubeVars, watcherVars, assignVars>>
  BY DEF WriteHook
<1>2. PICK entry : entry = HookEntry(d)
  OBVIOUS
<1>3. "gitea" \in EventStreams /\ "k8s" \in EventStreams
  BY DEF EventStreams
<1>4. /\ WriteEffects("gitea", entry)
      /\ \/ /\ again' = again /\ entry \in BagToSet(stream'["gitea"]) \cup BagToSet(lost')
            /\ writers' = writers \ {d}
         \/ Count(entry, again') = Count(entry, again) + 1 /\ writers' = writers
  BY <1>0, <1>1, <1>2, <1>3, WriteEffect
<1>5. /\ BoundInv' /\ events' \in Nat /\ events' >= events /\ AgainGrows
      /\ \A t \in EventStreams : \A y : Count(y, stream[t]) \in Nat
      /\ Count(entry, stream'["gitea"]) \in Nat
      /\ \A y : y # entry => Count(y, stream'["gitea"]) = Count(y, stream["gitea"])
      /\ BagToSet(lost) \subseteq BagToSet(lost')
      /\ BagToSet(stream["gitea"]) \subseteq BagToSet(stream'["gitea"])
      /\ Count(entry, stream'["gitea"]) <= Count(entry, stream["gitea"]) + 1
  BY <1>0, <1>4, CountType DEF WriteEffects
<1>6. entry.from = "hook" /\ entry.n = d
  BY <1>2 DEF HookEntry
<1>7. AssignInv'
  <2>1. \A a \in DOMAIN assigns : AssignEntry(a) # entry
    BY <1>6 DEF AssignEntry
  <2>. QED
    BY <1>0, <1>1, <1>4, <1>5, <2>1, AssignKept
<1>8. PodInv'
  BY <1>0, <1>1, <1>4, <1>6, OtherWritten
<1>9. GiteaInv'
  <2>1. UNCHANGED <<hooks, issues>>
    BY <1>1 DEF assignVars
  <2>2. Known(entry)
    BY <1>6 DEF Known
  <2>3. Count(entry, stream["gitea"]) <= Count(entry, again)
    BY <1>0, <1>1, <1>2 DEF HookInv
  <2>. QED
    BY <1>0, <1>4, <2>1, <2>2, <2>3, GiteaWritten
<1>10. \A c \in DOMAIN hooks : HookEntry(c)' = HookEntry(c) /\ (c # d => HookEntry(c) # entry)
  BY <1>1, <1>2 DEF HookEntry
<1>11. ASSUME NEW c \in DOMAIN hooks
       PROVE  /\ state[c] = "sent" \/ c \in writers' =>
                    Count(HookEntry(c), stream'["gitea"]) <= Count(HookEntry(c), again')
              /\ \/ state[c] = "accepted"
                 \/ state[c] = "answered" /\ hooks[c].kind \in Published
                 => c \in writers' \/ HookEntry(c) \in BagToSet(stream'["gitea"]) \cup BagToSet(lost')
  <2>1. /\ state[c] = "sent" \/ c \in writers =>
              Count(HookEntry(c), stream["gitea"]) <= Count(HookEntry(c), again)
        /\ \/ state[c] = "accepted"
           \/ state[c] = "answered" /\ hooks[c].kind \in Published
           => c \in writers \/ HookEntry(c) \in BagToSet(stream["gitea"]) \cup BagToSet(lost)
    BY <1>0, <1>11 DEF HookInv, OnItsWay, EntriesOf
  <2>2. Count(HookEntry(c), stream["gitea"]) \in Nat
    BY <1>3, <1>5
  <2>3. CASE c # d
    <3>1. Count(HookEntry(c), stream'["gitea"]) = Count(HookEntry(c), stream["gitea"])
      BY <1>5, <1>10, <2>3
    <3>2. c \in writers' <=> c \in writers
      BY <1>4, <2>3
    <3>. QED
      BY <1>5, <2>1, <2>2, <3>1, <3>2 DEF AgainGrows
  <2>4. CASE c = d
    <3>1. state[c] # "sent" /\ HookEntry(c) = entry
      BY <1>0, <1>1, <1>2, <2>4 DEF HookInv
    <3>2. Count(entry, stream["gitea"]) <= Count(entry, again) /\ Count(entry, stream["gitea"]) \in Nat
      BY <1>1, <2>1, <2>2, <2>4, <3>1
    <3>3. CASE entry \in BagToSet(stream'["gitea"]) \cup BagToSet(lost')
            /\ writers' = writers \ {d}
      BY <2>4, <3>1, <3>3
    <3>4. CASE Count(entry, again') = Count(entry, again) + 1 /\ writers' = writers
      <4>1. Count(entry, again) \in Nat
        BY <1>5 DEF AgainGrows
      <4>2. Count(entry, stream'["gitea"]) <= Count(entry, again')
        BY <1>5, <3>2, <3>4, <4>1
      <4>. QED
        BY <1>1, <2>4, <3>1, <3>4, <4>2
    <3>. QED
      BY <1>4, <3>3, <3>4
  <2>. QED
    BY <2>3, <2>4
<1>12. HookInv'
  <2>1. writers' \subseteq writers
    BY <1>4
  <2>. QED
    BY <1>0, <1>1, <1>10, <1>11, <2>1 DEF HookInv, OnItsWay, EntriesOf
<1>. QED
  BY <1>5, <1>7, <1>8, <1>9, <1>12 DEF SourcesInv

-----------------------------------------------------------------------------
(* The pod watcher                                                         *)

\* What its steps leave alone.
LEMMA GiteaSideKept ==
  ASSUME SourcesInv, UNCHANGED <<webhookVars, assignVars>>,
         stream'["gitea"] = stream["gitea"], BoundInv', events' >= events,
         AgainGrows, BagToSet(lost) \subseteq BagToSet(lost'),
         \A l \in BagToSet(lost') \ BagToSet(lost) : l.from # "pod" => Known(l)
  PROVE  HookInv' /\ AssignInv' /\ GiteaInv'
<1>1. BoundInv /\ HookInv /\ AssignInv /\ GiteaInv
  BY DEF SourcesInv
<1>2. /\ \A t \in EventStreams : \A y : Count(y, stream[t]) \in Nat
      /\ events' \in Nat
  BY <1>1, CountType DEF BoundInv
<1>3. HookInv'
  BY <1>1, <1>2, HookKept
<1>4. AssignInv'
  BY <1>1, <1>2, AssignKept
<1>5. issues' \in Nat /\ issues' >= issues /\ DOMAIN hooks \subseteq DOMAIN hooks'
  BY <1>1 DEF assignVars, webhookVars, AssignInv
<1>6. GiteaInv'
  BY <1>1, <1>2, <1>5, GiteaKept
<1>. QED
  BY <1>3, <1>4, <1>6

\* A step of Kubernetes or of the informer writes nothing.
LEMMA PodStepKept ==
  ASSUME SourcesInv, UNCHANGED <<webhookVars, assignVars, stream, lost, again, restarts>>,
         (Occurrence /\ UNCHANGED failures) \/ UNCHANGED boundVars
  PROVE  BoundInv' /\ HookInv' /\ AssignInv' /\ GiteaInv'
<1>1. BoundInv /\ IsABag(lost')
  BY DEF SourcesInv, BoundInv
<1>2. BoundInv' /\ events' >= events
  BY <1>1, BoundKept DEF boundVars
<1>3. AgainGrows
  BY <1>1, CountType
<1>4. HookInv' /\ AssignInv' /\ GiteaInv'
  BY <1>2, <1>3, GiteaSideKept
<1>. QED
  BY <1>2, <1>4

\* An Event happens: none of that name was looked at or written.
LEMMA HappenInv ==
  ASSUME SourcesInv, NEW e \in KubeEvents, NEW r \in Reasons, Happen(e, r)
  PROVE  SourcesInv'
<1>0. BoundInv /\ PodInv
  BY DEF SourcesInv
<1>1. /\ Occurrence /\ reason[e] = None /\ reason' = [reason EXCEPT ![e] = r]
      /\ there' = there \cup {e} /\ UNCHANGED <<store, handling>>
      /\ UNCHANGED <<webhookVars, assignVars, stream, lost, again, restarts, seen, failures>>
  BY DEF Happen, watcherVars, ghostVars
<1>2. BoundInv' /\ HookInv' /\ AssignInv' /\ GiteaInv'
  BY <1>1, PodStepKept
<1>3. None \notin KubeEvents /\ r # None
  BY EventSourcesAssumption
<1>4. /\ reason' \in [KubeEvents -> Reasons \cup {None}] /\ reason'[e] = r
      /\ \A c \in KubeEvents : c # e => reason'[c] = reason[c]
  BY <1>0, <1>1 DEF PodInv
<1>5. e \notin store /\ handling # e /\ e \notin there /\ seen[e] = {}
  BY <1>0, <1>1, <1>3 DEF PodInv
<1>6. \A c \in KubeEvents : c # e => PodEntry(c)' = PodEntry(c)
  BY <1>4 DEF PodEntry
<1>7. /\ Count(PodEntry(e)', stream["k8s"]) = 0
      /\ Count(PodEntry(e)', lost) = 0 /\ Count(PodEntry(e)', again) = 0
  <2>1. (PodEntry(e)').n = e /\ (PodEntry(e)').from = "pod"
    BY DEF PodEntry
  <2>2. PodEntry(e)' \notin BagToSet(stream["k8s"]) \cup BagToSet(lost) \cup BagToSet(again)
    BY <1>0, <1>1, <2>1 DEF PodInv, EntriesOf
  <2>. QED
    BY <2>2 DEF Count, BagIn
<1>8. PodWrites(e)' = Cardinality(seen[e]) + Count(PodEntry(e)', again)
  BY <1>1, <1>5, <1>7, FS_EmptySet DEF PodWrites
<1>9. ASSUME NEW c \in KubeEvents
      PROVE  /\ reason'[c] = None => seen[c] = {}
             /\ restarts \in seen[c] => c \notin there' \ store
             /\ StatusOf(reason'[c]) # {} =>
                   /\ PodWrites(c)' = Cardinality(seen[c]) + Count(PodEntry(c)', again)
                   /\ c \in store => handling = c
                         \/ PodEntry(c)' \in BagToSet(stream["k8s"]) \cup BagToSet(lost)
  <2>1. CASE c = e
    BY <1>3, <1>4, <1>5, <1>8, <2>1
  <2>2. CASE c # e
    <3>1. reason'[c] = reason[c] /\ PodEntry(c)' = PodEntry(c) /\ (c \in there' <=> c \in there)
      BY <1>1, <1>4, <1>6, <2>2
    <3>2. PodWrites(c)' = PodWrites(c)
      BY <1>1, <3>1 DEF PodWrites
    <3>. QED
      BY <1>0, <3>1, <3>2 DEF PodInv, OnItsWay, EntriesOf
  <2>. QED
    BY <2>1, <2>2
<1>10. /\ there' \subseteq {c \in KubeEvents : reason'[c] # None} /\ store' \subseteq there'
       /\ handling \in {c \in KubeEvents : StatusOf(reason'[c]) # {}} \cup {None}
       /\ handling # None => reason'[handling] # None
  <2>1. there' \subseteq {c \in KubeEvents : reason'[c] # None} /\ store' \subseteq there'
    BY <1>0, <1>1, <1>3, <1>4 DEF PodInv
  <2>2. /\ handling \in {c \in KubeEvents : StatusOf(reason'[c]) # {}} \cup {None}
        /\ handling # None => reason'[handling] # None
    BY <1>0, <1>4, <1>5 DEF PodInv
  <2>. QED
    BY <2>1, <2>2
<1>11. \A entry \in BagToSet(stream["k8s"]) \cup BagToSet(lost) \cup BagToSet(again) :
          entry.from = "pod" => entry.n \in KubeEvents /\ reason'[entry.n] # None
  BY <1>0, <1>3, <1>4 DEF PodInv, EntriesOf
<1>12. PodInv'
  <2>1. (\A y \in BagToSet(stream["k8s"]) : y.from = "pod")
        /\ seen \in [KubeEvents -> SUBSET (0 .. restarts)]
    BY <1>0 DEF PodInv, EntriesOf
  <2>. QED
    BY <1>1, <1>4, <1>9, <1>10, <1>11, <2>1 DEF PodInv, OnItsWay, EntriesOf
<1>. QED
  BY <1>2, <1>12 DEF SourcesInv

\* An Event expires, or happens again: there is nothing to look at.
LEMMA ExpireInv ==
  ASSUME SourcesInv, NEW e \in KubeEvents, Expire(e) \/ Repeat(e)
  PROVE  SourcesInv'
<1>0. BoundInv /\ PodInv
  BY DEF SourcesInv
<1>1. /\ Occurrence
      /\ \/ there' = there \ {e} /\ store' = store \ {e}
         \/ there' = there /\ store' = store
      /\ UNCHANGED <<webhookVars, assignVars, reason, handling, stream, lost, again, restarts,
                     seen, failures>>
  BY DEF Expire, Repeat, Updated, kubeVars, ghostVars
<1>2. BoundInv' /\ HookInv' /\ AssignInv' /\ GiteaInv'
  BY <1>1, PodStepKept
<1>3. \A c \in KubeEvents : PodEntry(c)' = PodEntry(c) /\ PodWrites(c)' = PodWrites(c)
  BY <1>1 DEF PodEntry, PodWrites
<1>4. /\ \A c \in KubeEvents : /\ c \in store' => c \in store
                               /\ c \in there' \ store' => c \in there \ store
      /\ there' \subseteq there
  BY <1>1
<1>5. store' \subseteq there'
  BY <1>0, <1>1 DEF PodInv
<1>6. ASSUME NEW c \in KubeEvents
      PROVE  /\ reason[c] = None => seen[c] = {}
             /\ restarts \in seen[c] => c \notin there' \ store'
             /\ StatusOf(reason[c]) # {} =>
                   /\ PodWrites(c)' = Cardinality(seen[c]) + Count(PodEntry(c), again)
                   /\ c \in store' => handling = c
                         \/ PodEntry(c) \in BagToSet(stream["k8s"]) \cup BagToSet(lost)
  BY <1>0, <1>3, <1>4, <1>6 DEF PodInv, OnItsWay, EntriesOf
<1>7. PodInv'
  <2>1. there' \subseteq {c \in KubeEvents : reason[c] # None}
    BY <1>0, <1>4 DEF PodInv
  <2>. QED
    BY <1>0, <1>1, <1>3, <1>5, <1>6, <2>1 DEF PodInv, OnItsWay, EntriesOf
<1>. QED
  BY <1>2, <1>7 DEF SourcesInv

\* The informer hands over an Event new to it.
LEMMA HandleEventInv ==
  ASSUME SourcesInv, NEW e \in KubeEvents, HandleEvent(e)
  PROVE  SourcesInv'
<1>0. BoundInv /\ PodInv
  BY DEF SourcesInv
<1>1. /\ handling = None /\ e \in there \ store /\ store' = store \cup {e}
      /\ handling' = IF StatusOf(reason[e]) = {} THEN None ELSE e
      /\ seen' = [seen EXCEPT ![e] = @ \cup {restarts}]
      /\ UNCHANGED <<webhookVars, assignVars, reason, there, stream, lost, again, restarts,
                     boundVars>>
  BY DEF HandleEvent, kubeVars
<1>2. BoundInv' /\ HookInv' /\ AssignInv' /\ GiteaInv'
  BY <1>1, PodStepKept
<1>3. None \notin KubeEvents
  BY EventSourcesAssumption
<1>4. \A c \in KubeEvents : PodEntry(c)' = PodEntry(c)
  BY <1>1 DEF PodEntry
<1>5. /\ seen \in [KubeEvents -> SUBSET (0 .. restarts)] /\ restarts \in Nat
      /\ restarts \notin seen[e]
  BY <1>0, <1>1 DEF PodInv, BoundInv
<1>6. /\ seen' \in [KubeEvents -> SUBSET (0 .. restarts)] /\ seen'[e] = seen[e] \cup {restarts}
      /\ \A c \in KubeEvents : c # e => seen'[c] = seen[c]
  BY <1>1, <1>5
<1>7. Cardinality(seen'[e]) = Cardinality(seen[e]) + 1 /\ Cardinality(seen[e]) \in Nat
  <2>1. seen[e] \subseteq 0 .. restarts /\ IsFiniteSet(0 .. restarts)
    BY <1>5, FS_Interval
  <2>2. IsFiniteSet(seen[e])
    BY <2>1, FS_Subset
  <2>. QED
    BY <1>5, <1>6, <2>2, FS_AddElement, FS_CardinalityType
<1>8. ASSUME NEW c \in KubeEvents
      PROVE  /\ reason[c] = None => seen'[c] = {}
             /\ restarts \in seen'[c] => c \notin there \ store'
             /\ StatusOf(reason[c]) # {} =>
                   /\ PodWrites(c)' = Cardinality(seen'[c]) + Count(PodEntry(c), again)
                   /\ c \in store' => handling' = c
                         \/ PodEntry(c) \in BagToSet(stream["k8s"]) \cup BagToSet(lost)
  <2>1. /\ reason[c] = None => seen[c] = {}
        /\ restarts \in seen[c] => c \notin there \ store
        /\ StatusOf(reason[c]) # {} =>
              /\ PodWrites(c) = Cardinality(seen[c]) + Count(PodEntry(c), again)
              /\ c \in store => handling = c
                    \/ PodEntry(c) \in BagToSet(stream["k8s"]) \cup BagToSet(lost)
    BY <1>0, <1>8 DEF PodInv, OnItsWay, EntriesOf
  <2>2. CASE c # e
    <3>1. handling # c /\ handling' # c
      BY <1>1, <1>3, <2>2
    <3>2. PodWrites(c)' = PodWrites(c)
      BY <1>1, <1>4, <3>1 DEF PodWrites
    <3>. QED
      BY <1>1, <1>6, <2>1, <2>2, <3>1, <3>2
  <2>3. CASE c = e
    <3>1. reason[c] # None
      BY <1>0, <1>1, <2>3 DEF PodInv
    <3>2. ASSUME StatusOf(reason[c]) # {}
          PROVE  PodWrites(c)' = Cardinality(seen'[c]) + Count(PodEntry(c), again)
      <4>1. handling # c /\ handling' = c
        BY <1>1, <1>3, <2>3, <3>2
      <4>2. /\ Count(PodEntry(c), stream["k8s"]) \in Nat
            /\ Count(PodEntry(c), lost) \in Nat /\ Count(PodEntry(c), again) \in Nat
        BY <1>0, CountType DEF EventStreams
      <4>3. PodWrites(c)' = PodWrites(c) + 1
        BY <1>1, <1>4, <4>1, <4>2 DEF PodWrites
      <4>4. PodWrites(c) = Cardinality(seen[c]) + Count(PodEntry(c), again)
        BY <2>1, <3>2
      <4>. QED
        BY <1>7, <2>3, <4>2, <4>3, <4>4
    <3>3. StatusOf(reason[c]) # {} => handling' = c
      BY <1>1, <2>3
    <3>4. c \notin there \ store'
      BY <1>1, <2>3
    <3>. QED
      BY <3>1, <3>2, <3>3, <3>4
  <2>. QED
    BY <2>2, <2>3
<1>9. /\ store' \subseteq there
      /\ handling' \in {c \in KubeEvents : StatusOf(reason[c]) # {}} \cup {None}
      /\ handling' # None => reason[handling'] # None
  <2>1. store \subseteq there /\ there \subseteq {c \in KubeEvents : reason[c] # None}
    BY <1>0 DEF PodInv
  <2>. QED
    BY <1>1, <2>1
<1>10. PodInv'
  <2>1. /\ reason \in [KubeEvents -> Reasons \cup {None}]
        /\ there \subseteq {c \in KubeEvents : reason[c] # None}
        /\ \A y \in BagToSet(stream["k8s"]) : y.from = "pod"
        /\ \A y \in BagToSet(stream["k8s"]) \cup BagToSet(lost) \cup BagToSet(again) :
              y.from = "pod" => y.n \in KubeEvents /\ reason[y.n] # None
    BY <1>0 DEF PodInv, EntriesOf
  <2>2. UNCHANGED <<reason, there, stream, lost, again, restarts>>
    BY <1>1
  <2>3. ASSUME NEW c \in KubeEvents
        PROVE  /\ reason[c] = None => seen'[c] = {}
               /\ restarts \in seen'[c] => c \notin there \ store'
               /\ StatusOf(reason[c]) # {} =>
                     /\ PodWrites(c)' = Cardinality(seen'[c]) + Count(PodEntry(c)', again)
                     /\ c \in store' => handling' = c
                           \/ PodEntry(c)' \in BagToSet(stream["k8s"]) \cup BagToSet(lost)
    BY <1>4, <1>8
  <2>. QED
    BY <1>6, <1>9, <2>1, <2>2, <2>3 DEF PodInv, OnItsWay, EntriesOf
<1>. QED
  BY <1>2, <1>10 DEF SourcesInv

\* The watcher writes an Event's entry, or loses it, and once more if it is
\* repeated.
LEMMA WriteEventInv == ASSUME SourcesInv, WriteEvent PROVE SourcesInv'
<1>0. BoundInv /\ PodInv
  BY DEF SourcesInv
<1>1. PICK e \in KubeEvents : e = handling /\ StatusOf(reason[e]) # {} /\ reason[e] # None
  BY <1>0 DEF WriteEvent, PodInv
<1>2. /\ \/ Written("k8s", PodEntry(e)) /\ handling' = None
         \/ Unheard("k8s", PodEntry(e)) /\ handling' = e
      /\ UNCHANGED <<webhookVars, assignVars, reason, there, store>>
  BY <1>1 DEF WriteEvent, kubeVars
<1>3. PICK entry : entry = PodEntry(e)
  OBVIOUS
<1>4. "gitea" \in EventStreams /\ "k8s" \in EventStreams /\ None \notin KubeEvents
  BY EventSourcesAssumption DEF EventStreams
<1>5. /\ WriteEffects("k8s", entry)
      /\ \/ /\ again' = again /\ entry \in BagToSet(stream'["k8s"]) \cup BagToSet(lost')
            /\ handling' = None
         \/ Count(entry, again') = Count(entry, again) + 1 /\ handling' = e
  BY <1>0, <1>2, <1>3, <1>4, WriteEffect
<1>6. entry.from = "pod" /\ entry.n = e
  BY <1>3 DEF PodEntry
<1>7. BoundInv' /\ HookInv' /\ AssignInv' /\ GiteaInv'
  <2>1. /\ BoundInv' /\ events' >= events /\ AgainGrows
        /\ stream'["gitea"] = stream["gitea"] /\ BagToSet(lost) \subseteq BagToSet(lost')
        /\ \A l \in BagToSet(lost') \ BagToSet(lost) : l.from # "pod" => Known(l)
    BY <1>4, <1>5, <1>6 DEF WriteEffects
  <2>. QED
    BY <1>2, <2>1, GiteaSideKept
<1>8. \A c \in KubeEvents : PodEntry(c)' = PodEntry(c) /\ (c # e => PodEntry(c) # entry)
  BY <1>2, <1>3 DEF PodEntry
<1>9. /\ UNCHANGED <<restarts, seen>>
      /\ BagToSet(stream["k8s"]) \subseteq BagToSet(stream'["k8s"])
      /\ BagToSet(lost) \subseteq BagToSet(lost')
      /\ BagToSet(stream'["k8s"]) \subseteq BagToSet(stream["k8s"]) \cup {entry}
      /\ BagToSet(lost') \subseteq BagToSet(lost) \cup {entry}
      /\ BagToSet(again') \subseteq BagToSet(again) \cup {entry}
      /\ \A y : y # entry => /\ Count(y, stream'["k8s"]) = Count(y, stream["k8s"])
                             /\ Count(y, lost') = Count(y, lost)
                             /\ Count(y, again') = Count(y, again)
      /\ Count(entry, stream'["k8s"]) + Count(entry, lost')
            = Count(entry, stream["k8s"]) + Count(entry, lost) + 1
      /\ \A y : Count(y, stream'["k8s"]) \in Nat /\ Count(y, lost') \in Nat
  BY <1>5 DEF WriteEffects
<1>10. ASSUME NEW c \in KubeEvents, StatusOf(reason[c]) # {}
       PROVE  /\ PodWrites(c)' = Cardinality(seen[c]) + Count(PodEntry(c), again')
              /\ c \in store => handling' = c
                    \/ PodEntry(c) \in BagToSet(stream'["k8s"]) \cup BagToSet(lost')
  <2>1. /\ PodWrites(c) = Cardinality(seen[c]) + Count(PodEntry(c), again)
        /\ c \in store => handling = c
              \/ PodEntry(c) \in BagToSet(stream["k8s"]) \cup BagToSet(lost)
    BY <1>0, <1>10 DEF PodInv, OnItsWay, EntriesOf
  <2>2. CASE c # e
    <3>1. handling # c /\ handling' # c
      BY <1>1, <1>4, <1>5, <2>2
    <3>2. PodWrites(c)' = PodWrites(c) /\ Count(PodEntry(c), again') = Count(PodEntry(c), again)
      BY <1>8, <1>9, <2>2, <3>1 DEF PodWrites
    <3>. QED
      BY <1>9, <2>1, <3>1, <3>2
  <2>3. CASE c = e
    <3>1. PodEntry(c) = entry /\ handling = c /\ PodEntry(c)' = entry /\ c # None
      BY <1>1, <1>3, <1>4, <1>8, <2>3
    <3>2. /\ Count(entry, stream["k8s"]) \in Nat /\ Count(entry, lost) \in Nat
          /\ Count(entry, again) \in Nat
          /\ Count(entry, stream'["k8s"]) \in Nat /\ Count(entry, lost') \in Nat
      BY <1>0, <1>4, <1>9, CountType
    <3>3. Cardinality(seen[c]) \in Nat
      <4>1. seen[c] \subseteq 0 .. restarts /\ restarts \in Nat
        <5>1. seen \in [KubeEvents -> SUBSET (0 .. restarts)]
          BY <1>0 DEF PodInv
        <5>2. restarts \in Nat
          BY <1>0 DEF BoundInv
        <5>. QED
          BY <5>1, <5>2
      <4>2. IsFiniteSet(0 .. restarts)
        <5>1. 0 \in Int /\ restarts \in Int
          BY <4>1
        <5>. QED
          BY <5>1, FS_Interval
      <4>. QED
        BY <4>1, <4>2, FS_Subset, FS_CardinalityType
    <3>4. /\ PodWrites(c) = Count(entry, stream["k8s"]) + Count(entry, lost) + 1
          /\ PodWrites(c)' = Count(entry, stream'["k8s"]) + Count(entry, lost')
                                + (IF handling' = c THEN 1 ELSE 0)
      BY <3>1, <3>2 DEF PodWrites
    <3>5. CASE /\ again' = again /\ entry \in BagToSet(stream'["k8s"]) \cup BagToSet(lost')
               /\ handling' = None
      <4>1. PodWrites(c)' = PodWrites(c)
        BY <1>9, <3>1, <3>2, <3>4, <3>5
      <4>. QED
        BY <2>1, <3>1, <3>5, <4>1
    <3>6. CASE Count(entry, again') = Count(entry, again) + 1 /\ handling' = e
      <4>1. PodWrites(c)' = PodWrites(c) + 1
        BY <1>9, <2>3, <3>2, <3>4, <3>6
      <4>. QED
        BY <2>1, <2>3, <3>1, <3>2, <3>3, <3>6, <4>1
    <3>. QED
      BY <1>5, <3>5, <3>6
  <2>. QED
    BY <2>2, <2>3
<1>11. /\ handling' \in {c \in KubeEvents : StatusOf(reason[c]) # {}} \cup {None}
       /\ handling' # None => reason[handling'] # None
  BY <1>1, <1>5
<1>12. /\ \A y \in BagToSet(stream'["k8s"]) : y.from = "pod"
       /\ \A y \in BagToSet(stream'["k8s"]) \cup BagToSet(lost') \cup BagToSet(again') :
             y.from = "pod" => y.n \in KubeEvents /\ reason[y.n] # None
  BY <1>0, <1>1, <1>6, <1>9 DEF PodInv, EntriesOf
<1>13. PodInv'
  BY <1>0, <1>2, <1>8, <1>9, <1>10, <1>11, <1>12 DEF PodInv, OnItsWay, EntriesOf
<1>. QED
  BY <1>7, <1>13 DEF SourcesInv

-----------------------------------------------------------------------------
\* What the collector had in hand when it is killed is lost; the next process
\* looks at every Event again.
LEMMA RestartInv == ASSUME SourcesInv, Restart PROVE SourcesInv'
<1>0. BoundInv /\ HookInv /\ AssignInv /\ GiteaInv /\ PodInv
  BY DEF SourcesInv
<1>. DEFINE cutHooks == {HookEntry(d) : d \in writers}
            cutPods == {PodEntry(e) : e \in {handling} \ {None}}
            between == lost (+) SetToBag(cutHooks)
<1>1. /\ Failure /\ restarts' = restarts + 1
      /\ lost' = between (+) SetToBag(cutPods)
      /\ state' = [d \in DOMAIN state |->
                      IF state[d] \in {"sent", "accepted"} THEN "cut" ELSE state[d]]
      /\ writers' = {} /\ store' = {} /\ handling' = None
      /\ UNCHANGED <<hooks, reason, there, assignVars, stream, again, seen>>
  BY DEF Restart, kubeVars
<1>2. /\ cutHooks = {HookEntry(d) : d \in writers}
      /\ cutPods = {PodEntry(e) : e \in {handling} \ {None}}
  OBVIOUS
<1>3. /\ IsABag(between) /\ BagToSet(between) = BagToSet(lost) \cup cutHooks
      /\ \A y : y \notin cutHooks => Count(y, between) = Count(y, lost)
  BY <1>0, AddSetToBag DEF BoundInv
<1>. HIDE DEF cutHooks, cutPods, between
<1>4. /\ IsABag(lost') /\ BagToSet(lost') = BagToSet(lost) \cup cutHooks \cup cutPods
      /\ \A y \in cutPods : y \notin cutHooks => Count(y, lost') = Count(y, lost) + 1
      /\ \A y : y \notin cutPods /\ y \notin cutHooks => Count(y, lost') = Count(y, lost)
  BY <1>1, <1>3, AddSetToBag
<1>5. BoundInv' /\ events' \in Nat /\ events' >= events
  BY <1>0, <1>1, <1>4, BoundKept
<1>6. /\ \A t \in EventStreams : \A y : Count(y, stream[t]) \in Nat
      /\ AgainGrows /\ BagToSet(lost) \subseteq BagToSet(lost')
  BY <1>0, <1>1, <1>4, CountType
<1>7. AssignInv'
  BY <1>0, <1>1, <1>5, <1>6, AssignKept
<1>8. GiteaInv'
  <2>1. ASSUME NEW l \in BagToSet(lost') \ BagToSet(lost), l.from # "pod" PROVE Known(l)
    <3>1. CASE l \in cutHooks
      BY <1>0, <1>2, <3>1 DEF HookEntry, Known, HookInv
    <3>2. CASE l \in cutPods
      BY <1>2, <2>1, <3>2 DEF PodEntry
    <3>. QED
      BY <1>4, <2>1, <3>1, <3>2
  <2>2. issues' \in Nat /\ issues' >= issues
    BY <1>0, <1>1 DEF assignVars, AssignInv
  <2>. QED
    BY <1>0, <1>1, <1>6, <2>1, <2>2, GiteaKept
<1>9. HookInv'
  <2>1. state' \in [DOMAIN hooks -> HookStates]
    BY <1>0, <1>1 DEF HookInv, HookStates
  <2>2. \A d \in DOMAIN hooks : HookEntry(d)' = HookEntry(d)
    BY <1>1 DEF HookEntry
  <2>3. ASSUME NEW d \in DOMAIN hooks
        PROVE  /\ state'[d] # "sent" /\ state'[d] # "accepted"
               /\ state'[d] = "answered" /\ hooks[d].kind \in Published =>
                     HookEntry(d) \in BagToSet(stream["gitea"]) \cup BagToSet(lost')
    <3>1. /\ state'[d] # "sent" /\ state'[d] # "accepted"
          /\ state'[d] = "answered" => state[d] = "answered"
      BY <1>0, <1>1 DEF HookInv
    <3>2. d \in writers => HookEntry(d) \in BagToSet(lost')
      BY <1>2, <1>4
    <3>3. state[d] = "answered" /\ hooks[d].kind \in Published =>
             d \in writers \/ HookEntry(d) \in BagToSet(stream["gitea"]) \cup BagToSet(lost)
      BY <1>0 DEF HookInv, OnItsWay, EntriesOf
    <3>. QED
      BY <1>6, <3>1, <3>2, <3>3
  <2>. QED
    BY <1>0, <1>1, <2>1, <2>2, <2>3 DEF HookInv, OnItsWay, EntriesOf
<1>10. PodInv'
  <2>1. \A e \in KubeEvents : PodEntry(e)' = PodEntry(e) /\ PodEntry(e) \notin cutHooks
    BY <1>1, <1>2 DEF PodEntry, HookEntry
  <2>2. None \notin KubeEvents /\ restarts \in Nat /\ "k8s" \in EventStreams
    BY <1>0, EventSourcesAssumption DEF BoundInv, EventStreams
  <2>3. /\ seen \in [KubeEvents -> SUBSET (0 .. restarts')]
        /\ \A e \in KubeEvents : restarts' \notin seen[e]
    BY <1>0, <1>1, <2>2 DEF PodInv
  <2>4. \A y \in BagToSet(lost') :
           y.from = "pod" => y.n \in KubeEvents /\ reason[y.n] # None
    <3>1. \A y \in cutHooks : y.from # "pod"
      BY <1>2 DEF HookEntry
    <3>2. \A y \in cutPods : y.n \in KubeEvents /\ reason[y.n] # None
      BY <1>0, <1>2 DEF PodEntry, PodInv
    <3>3. \A y \in BagToSet(lost) : y.from = "pod" => y.n \in KubeEvents /\ reason[y.n] # None
      BY <1>0 DEF PodInv
    <3>. QED
      BY <1>4, <3>1, <3>2, <3>3
  <2>5. ASSUME NEW e \in KubeEvents, StatusOf(reason[e]) # {}
        PROVE  PodWrites(e)' = Cardinality(seen[e]) + Count(PodEntry(e), again)
    <3>1. PodWrites(e) = Cardinality(seen[e]) + Count(PodEntry(e), again)
      BY <1>0, <2>5 DEF PodInv
    <3>2. Count(PodEntry(e), stream["k8s"]) \in Nat /\ Count(PodEntry(e), lost) \in Nat
      BY <1>0, <2>2, CountType
    <3>3. PodWrites(e)' = Count(PodEntry(e), stream["k8s"]) + Count(PodEntry(e), lost') + 0
      BY <1>1, <2>1, <2>2 DEF PodWrites
    <3>4. CASE handling = e
      <4>1. PodEntry(e) \in cutPods
        BY <1>2, <2>2, <3>4
      <4>2. Count(PodEntry(e), lost') = Count(PodEntry(e), lost) + 1
        BY <1>4, <2>1, <4>1
      <4>. QED
        BY <3>1, <3>2, <3>3, <3>4, <4>2 DEF PodWrites
    <3>5. CASE handling # e
      <4>1. PodEntry(e) \notin cutPods
        BY <1>2, <3>5 DEF PodEntry
      <4>2. Count(PodEntry(e), lost') = Count(PodEntry(e), lost)
        BY <1>4, <2>1, <4>1
      <4>. QED
        BY <3>1, <3>2, <3>3, <3>5, <4>2 DEF PodWrites
    <3>. QED
      BY <3>4, <3>5
  <2>6. /\ reason \in [KubeEvents -> Reasons \cup {None}]
        /\ there \subseteq {e \in KubeEvents : reason[e] # None}
        /\ \A y \in BagToSet(stream["k8s"]) : y.from = "pod"
        /\ \A y \in BagToSet(stream["k8s"]) \cup BagToSet(again) :
              y.from = "pod" => y.n \in KubeEvents /\ reason[y.n] # None
        /\ \A e \in KubeEvents : reason[e] = None => seen[e] = {}
    BY <1>0 DEF PodInv, EntriesOf
  <2>. QED
    BY <1>1, <2>1, <2>3, <2>4, <2>5, <2>6 DEF PodInv, OnItsWay, EntriesOf
<1>. QED
  BY <1>5, <1>7, <1>8, <1>9, <1>10 DEF SourcesInv

-----------------------------------------------------------------------------
(* AssignIssue                                                             *)

\* A call begins, which may make one issue.
LEMMA AssignIssueInv == ASSUME SourcesInv, AssignIssue PROVE SourcesInv'
<1>0. BoundInv /\ HookInv /\ AssignInv /\ GiteaInv /\ PodInv
  BY DEF SourcesInv
<1>1. /\ Occurrence /\ assigns' = Append(assigns, [state |-> "called", issue |-> 0])
      /\ UNCHANGED <<webhookVars, kubeVars, watcherVars>>
      /\ UNCHANGED <<issues, stream, lost, again, restarts, seen, failures>>
  BY DEF AssignIssue, ghostVars
<1>2. BoundInv' /\ events' = events + 1 /\ events \in Nat
  <2>1. IsABag(lost')
    BY <1>0, <1>1 DEF BoundInv
  <2>. QED
    BY <1>0, <1>1, <2>1, BoundKept DEF BoundInv, Occurrence
<1>3. /\ \A t \in EventStreams : \A y : Count(y, stream[t]) \in Nat
      /\ AgainGrows /\ PodGhostsKept
  BY <1>0, <1>1, CountType DEF PodGhostsKept
<1>4. HookInv'
  BY <1>0, <1>1, <1>3, HookKept
<1>5. PodInv'
  BY <1>0, <1>1, <1>3, PodKept
<1>6. GiteaInv'
  <2>1. issues' \in Nat /\ issues' >= issues /\ DOMAIN hooks \subseteq DOMAIN hooks'
    BY <1>0, <1>1 DEF webhookVars, AssignInv
  <2>. QED
    BY <1>0, <1>1, <1>3, <2>1, GiteaKept
<1>7. PICK new : new = Len(assigns) + 1
  OBVIOUS
<1>8. /\ assigns' \in Seq([state : AssignStates, issue : 0 .. issues])
      /\ DOMAIN assigns' = DOMAIN assigns \cup {new} /\ new \notin DOMAIN assigns
      /\ assigns'[new] = [state |-> "called", issue |-> 0]
      /\ \A a \in DOMAIN assigns : assigns'[a] = assigns[a]
  <2>1. assigns \in Seq([state : AssignStates, issue : 0 .. issues]) /\ issues \in Nat
    BY <1>0 DEF AssignInv
  <2>2. [state |-> "called", issue |-> 0] \in [state : AssignStates, issue : 0 .. issues]
    BY <2>1 DEF AssignStates
  <2>. QED
    BY <1>0, <1>1, <1>7, <2>1, <2>2, AppendProperties, CalledFinite
<1>9. issues' + Cardinality(Called') <= events'
  <2>1. Called' = Called \cup {new} /\ new \notin Called
    BY <1>8 DEF Called
  <2>2. Cardinality(Called') = Cardinality(Called) + 1
    BY <1>0, <2>1, CalledFinite, FS_AddElement
  <2>. QED
    BY <1>0, <1>1, <1>2, <2>2, CalledFinite DEF AssignInv
<1>10. \A a \in DOMAIN assigns : AssignEntry(a)' = AssignEntry(a)
  BY <1>8 DEF AssignEntry
<1>11. ASSUME NEW a \in DOMAIN assigns'
       PROVE  /\ assigns'[a].state = "called" => assigns'[a].issue = 0
              /\ assigns'[a].state = "created" =>
                    /\ assigns'[a].issue # 0
                    /\ Count(AssignEntry(a)', stream["gitea"]) <= Count(AssignEntry(a)', again)
              /\ assigns'[a].state = "answered" =>
                    AssignEntry(a)' \in BagToSet(stream["gitea"]) \cup BagToSet(lost)
  <2>1. CASE a = new
    BY <1>8, <2>1
  <2>2. CASE a \in DOMAIN assigns
    BY <1>0, <1>8, <1>10, <2>2 DEF AssignInv, OnItsWay, EntriesOf
  <2>. QED
    BY <1>8, <2>1, <2>2
<1>12. \A a, b \in DOMAIN assigns' :
          assigns'[a].issue = assigns'[b].issue /\ assigns'[a].issue # 0 => a = b
  BY <1>0, <1>8 DEF AssignInv
<1>13. AssignInv'
  BY <1>0, <1>1, <1>8, <1>9, <1>11, <1>12, CalledFinite DEF AssignInv, OnItsWay, EntriesOf
<1>. QED
  BY <1>2, <1>4, <1>5, <1>6, <1>13 DEF SourcesInv

\* A call goes on to v: only its own entry may have been written.
CallStep(a, v, entry) ==
    /\ issues' \in Nat /\ issues' >= issues /\ events' \in Nat
    /\ v \in [state : AssignStates, issue : 0 .. issues'] /\ v.state # "called"
    /\ assigns' = [assigns EXCEPT ![a] = v]
    /\ v.issue \in {0, assigns[a].issue} \/ v.issue > issues
    /\ issues' + Cardinality(Called \ {a}) <= events'
    /\ AgainGrows /\ BagToSet(lost) \subseteq BagToSet(lost')
    /\ BagToSet(stream["gitea"]) \subseteq BagToSet(stream'["gitea"])
    /\ entry = [from |-> "assign", n |-> v.issue, payload |-> "whole"]
    /\ \A y : y # entry => Count(y, stream'["gitea"]) = Count(y, stream["gitea"])
    /\ v.state = "created" => v.issue # 0 /\ Count(entry, stream'["gitea"]) <= Count(entry, again')
    /\ v.state = "answered" => entry \in BagToSet(stream'["gitea"]) \cup BagToSet(lost')

\* A step of a call of AssignIssue keeps the part about assignments.
LEMMA CallInv ==
  ASSUME AssignInv, BoundInv, NEW a \in DOMAIN assigns, NEW v, NEW entry,
         CallStep(a, v, entry)
  PROVE  AssignInv'
<1>. USE DEF CallStep
<1>1. assigns \in Seq([state : AssignStates, issue : 0 .. issues]) /\ issues \in Nat
  BY DEF AssignInv
<1>2. 0 .. issues \subseteq 0 .. issues'
  BY <1>1
<1>3. /\ assigns \in Seq([state : AssignStates, issue : 0 .. issues'])
      /\ \A b \in DOMAIN assigns : assigns[b].issue \in 0 .. issues
  <2>. DEFINE T == [state : AssignStates, issue : 0 .. issues]
              U == [state : AssignStates, issue : 0 .. issues']
  <2>1. T \subseteq U /\ \A t \in T : t.issue \in 0 .. issues
    BY <1>2
  <2>2. assigns \in Seq(T)
    BY <1>1
  <2>. HIDE DEF T, U
  <2>3. Len(assigns) \in Nat /\ assigns \in [1 .. Len(assigns) -> T]
    BY <2>2
  <2>4. assigns \in [1 .. Len(assigns) -> U] /\ \A b \in DOMAIN assigns : assigns[b] \in T
    BY <2>1, <2>3
  <2>5. assigns \in Seq(U)
    BY <2>3, <2>4, SeqDef
  <2>. QED
    BY <2>1, <2>4, <2>5 DEF U
<1>4. /\ assigns' \in Seq([state : AssignStates, issue : 0 .. issues'])
      /\ DOMAIN assigns' = DOMAIN assigns /\ assigns'[a] = v
      /\ \A b \in DOMAIN assigns : b # a => assigns'[b] = assigns[b]
  <2>1. a \in 1 .. Len(assigns)
    BY <1>3
  <2>. QED
    BY <1>3, <2>1, ExceptSeq
<1>5. \A b \in DOMAIN assigns : assigns[b].issue \in 0 .. issues
  BY <1>3
<1>6. Called' = Called \ {a}
  BY <1>4 DEF Called
<1>7. AssignEntry(a)' = entry
  BY <1>4 DEF AssignEntry
<1>8. \A y : Count(y, stream["gitea"]) \in Nat
  BY CountType DEF EventStreams
<1>9. ASSUME NEW b \in DOMAIN assigns
      PROVE  /\ assigns'[b].state = "called" => assigns'[b].issue = 0
             /\ assigns'[b].state = "created" =>
                   /\ assigns'[b].issue # 0
                   /\ Count(AssignEntry(b)', stream'["gitea"]) <= Count(AssignEntry(b)', again')
             /\ assigns'[b].state = "answered" =>
                   AssignEntry(b)' \in BagToSet(stream'["gitea"]) \cup BagToSet(lost')
  <2>1. CASE b = a
    BY <1>4, <1>7, <2>1
  <2>2. CASE b # a
    <3>1. assigns'[b] = assigns[b] /\ AssignEntry(b)' = AssignEntry(b)
      BY <1>4, <2>2 DEF AssignEntry
    <3>2. /\ assigns[b].state = "called" => assigns[b].issue = 0
          /\ assigns[b].state = "created" =>
                assigns[b].issue # 0 /\ Count(AssignEntry(b), stream["gitea"]) <= Count(AssignEntry(b), again)
          /\ assigns[b].state = "answered" =>
                AssignEntry(b) \in BagToSet(stream["gitea"]) \cup BagToSet(lost)
      BY <1>9 DEF AssignInv, OnItsWay, EntriesOf
    <3>3. assigns[b].issue # 0 => AssignEntry(b) # entry
      <4>1. assigns[b].issue # 0 => assigns[b].issue # assigns[a].issue
        BY <2>2 DEF AssignInv
      <4>2. assigns[b].issue # 0 => v.issue # assigns[b].issue
        BY <1>1, <1>5, <4>1
      <4>3. (AssignEntry(b)).n = assigns[b].issue /\ entry.n = v.issue
        BY DEF AssignEntry
      <4>. QED
        BY <4>2, <4>3
    <3>4. assigns[b].state = "created" => Count(AssignEntry(b), stream'["gitea"]) <= Count(AssignEntry(b), again')
      <4>1. assigns[b].state = "created" =>
               Count(AssignEntry(b), stream'["gitea"]) = Count(AssignEntry(b), stream["gitea"])
        BY <3>2, <3>3
      <4>. QED
        BY <1>8, <3>2, <4>1 DEF AgainGrows
    <3>. QED
      BY <3>1, <3>2, <3>4
  <2>. QED
    BY <2>1, <2>2
<1>10. ASSUME NEW b \in DOMAIN assigns, NEW c \in DOMAIN assigns,
              assigns'[b].issue = assigns'[c].issue, assigns'[b].issue # 0
       PROVE  b = c
  <2>1. \A d \in DOMAIN assigns : d # a => assigns[d].issue = assigns'[d].issue
    BY <1>4
  <2>2. \A d \in DOMAIN assigns : d # a /\ assigns'[d].issue # 0 => assigns'[d].issue # v.issue
    <3>1. SUFFICES ASSUME NEW d \in DOMAIN assigns, d # a, assigns[d].issue # 0
                   PROVE  assigns[d].issue # v.issue
      BY <2>1
    <3>2. CASE v.issue > issues
      BY <1>1, <1>5, <3>2
    <3>3. CASE v.issue = assigns[a].issue
      BY <3>1, <3>3 DEF AssignInv
    <3>4. CASE v.issue = 0
      BY <3>1, <3>4
    <3>. QED
      BY <3>2, <3>3, <3>4
  <2>. QED
    BY <1>4, <1>10, <2>1, <2>2 DEF AssignInv
<1>. QED
  BY <1>4, <1>6, <1>9, <1>10 DEF AssignInv, OnItsWay, EntriesOf

\* Gitea makes the issue and reports it, or refuses, or is not heard.
LEMMA CreateIssueInv ==
  ASSUME SourcesInv, NEW a \in DOMAIN assigns, CreateIssue(a)
  PROVE  SourcesInv'
<1>0. BoundInv /\ HookInv /\ AssignInv /\ GiteaInv /\ PodInv
  BY DEF SourcesInv
<1>. DEFINE hook == [kind |-> "issues opened", size |-> 0, genuine |-> TRUE]
<1>1. /\ assigns[a].state = "called"
      /\ \/ /\ issues' = issues + 1 /\ Deliver(hook)
            /\ assigns' = [assigns EXCEPT ![a] = [state |-> "created", issue |-> issues']]
            /\ UNCHANGED <<events, failures>>
         \/ /\ Failure
            /\ assigns' = [assigns EXCEPT ![a].state = "refused"]
            /\ \/ issues' = issues + 1 /\ Deliver(hook)
               \/ UNCHANGED <<issues, webhookVars>>
      /\ UNCHANGED <<kubeVars, watcherVars, stream, lost, again, restarts, seen>>
  BY DEF CreateIssue, Made, boundVars, ghostVars
<1>2. hook \in Hooks
  BY EventSourcesAssumption DEF Hooks
<1>3. /\ \A t \in EventStreams : \A y : Count(y, stream[t]) \in Nat
      /\ (\A y : Count(y, again) \in Nat) /\ events \in Nat
      /\ issues \in Nat /\ "gitea" \in EventStreams /\ IsABag(lost') /\ PodGhostsKept
      /\ AgainGrows /\ BagToSet(lost) \subseteq BagToSet(lost') /\ restarts' = restarts
      /\ stream'["gitea"] = stream["gitea"] /\ stream'["k8s"] = stream["k8s"]
  <2>1. MaxEvents \in Nat /\ issues \in Nat
    BY <1>0, CalledFinite, EventSourcesAssumption
  <2>2. \A t \in EventStreams : \A y : Count(y, stream[t]) \in Nat
    BY <1>0, CountType
  <2>3. events \in Nat /\ IsABag(lost) /\ \A y : Count(y, again) \in Nat
    BY <1>0, <2>1, CountType DEF BoundInv
  <2>4. UNCHANGED <<stream, lost, again, restarts, seen>>
    BY <1>1
  <2>5. AgainGrows /\ PodGhostsKept
    BY <1>0, <2>4, CountType DEF PodGhostsKept
  <2>. QED
    BY <2>1, <2>2, <2>3, <2>4, <2>5 DEF EventStreams
<1>4. BoundInv' /\ events' \in Nat /\ events' >= events
  <2>1. CASE UNCHANGED <<events, failures>>
    BY <1>0, <1>1, <1>3, <2>1, BoundKept
  <2>2. CASE Failure
    BY <1>0, <1>1, <1>3, <2>2, BoundKept
  <2>. QED
    BY <1>1, <2>1, <2>2
<1>5. HookInv' /\ DOMAIN hooks \subseteq DOMAIN hooks'
  <2>1. CASE Deliver(hook)
    <3>. HIDE DEF hook
    <3>. QED
      BY <1>1, <1>2, <2>1, DeliverInv
  <2>2. CASE UNCHANGED webhookVars
    <3>1. HookInv'
      BY <1>0, <1>3, <2>2, HookKept
    <3>. QED
      BY <2>2, <3>1 DEF webhookVars
  <2>. QED
    BY <1>1, <2>1, <2>2
<1>6. PodInv'
  <2>1. UNCHANGED <<kubeVars, watcherVars>>
    BY <1>1
  <2>. QED
    BY <1>0, <1>3, <2>1, PodKept
<1>7. issues' \in {issues, issues + 1}
  BY <1>1
<1>8. GiteaInv'
  <2>0. lost' = lost
    BY <1>1
  <2>1. issues' \in Nat /\ issues' >= issues /\ BagToSet(lost') \ BagToSet(lost) = {}
    BY <1>3, <1>7, <2>0
  <2>. QED
    BY <1>0, <1>3, <1>5, <2>1, GiteaKept
<1>9. issues' + Cardinality(Called \ {a}) <= events'
  <2>1. a \in Called
    BY <1>1 DEF Called
  <2>2. Cardinality(Called \ {a}) = Cardinality(Called) - 1
    BY <1>0, <2>1, CalledFinite, FS_RemoveElement
  <2>3. issues + Cardinality(Called) <= events /\ Cardinality(Called) \in Nat
    BY <1>0, CalledFinite DEF AssignInv
  <2>. QED
    BY <1>3, <1>4, <1>7, <2>2, <2>3
<1>10. assigns[a].issue = 0
  BY <1>0, <1>1 DEF AssignInv
<1>11. assigns[a] \in [state : AssignStates, issue : 0 .. issues]
  BY <1>0, CalledFinite
<1>12. AssignInv'
  <2>1. CASE assigns' = [assigns EXCEPT ![a] = [state |-> "created", issue |-> issues']]
             /\ issues' = issues + 1
    <3>1. PICK v : v = [state |-> "created", issue |-> issues']
      OBVIOUS
    <3>2. PICK entry : entry = [from |-> "assign", n |-> v.issue, payload |-> "whole"]
      OBVIOUS
    <3>3. v \in [state : AssignStates, issue : 0 .. issues'] /\ v.state = "created"
            /\ v.issue = issues + 1
      BY <1>3, <2>1, <3>1 DEF AssignStates
    <3>4. Count(entry, stream["gitea"]) <= Count(entry, again)
      <4>1. entry.from = "assign" /\ entry.n = issues + 1
        BY <3>2, <3>3
      <4>2. entry \notin BagToSet(stream["gitea"])
        BY <1>0, <1>3, <4>1 DEF GiteaInv, EntriesOf, Known
      <4>. QED
        BY <1>3, <4>2 DEF Count, BagIn
    <3>5. assigns' = [assigns EXCEPT ![a] = v]
      BY <2>1, <3>1
    <3>6. /\ issues' \in Nat /\ issues' >= issues /\ v.issue > issues
          /\ \A y : Count(y, stream'["gitea"]) = Count(y, stream["gitea"])
          /\ Count(entry, stream'["gitea"]) <= Count(entry, again') /\ v.issue # 0
          /\ v.state # "called" /\ v.state # "answered"
      <4>1. /\ issues' \in Nat /\ issues' >= issues /\ v.issue > issues /\ v.issue # 0
            /\ v.state # "called" /\ v.state # "answered"
        BY <1>3, <2>1, <3>3
      <4>2. \A y : Count(y, stream'["gitea"]) = Count(y, stream["gitea"])
        BY <1>3
      <4>3. Count(entry, stream["gitea"]) <= Count(entry, again')
        BY <1>1, <3>4
      <4>. QED
        BY <4>1, <4>2, <4>3
    <3>. QED
      <4>1. CallStep(a, v, entry)
        BY <1>3, <1>4, <1>9, <3>2, <3>3, <3>5, <3>6 DEF CallStep
      <4>. QED
        BY <1>0, <4>1, CallInv
  <2>2. CASE assigns' = [assigns EXCEPT ![a].state = "refused"]
    <3>1. PICK v : v = [assigns[a] EXCEPT !.state = "refused"]
      OBVIOUS
    <3>2. PICK entry : entry = [from |-> "assign", n |-> v.issue, payload |-> "whole"]
      OBVIOUS
    <3>3. v \in [state : AssignStates, issue : 0 .. issues'] /\ v.state = "refused"
            /\ v.issue = 0
      <4>1. v \in [state : AssignStates, issue : 0 .. issues] /\ v.state = "refused"
              /\ v.issue = 0
        BY <1>10, <1>11, <3>1 DEF AssignStates
      <4>2. 0 \in 0 .. issues'
        BY <1>3, <1>7
      <4>. QED
        BY <4>1, <4>2
    <3>4. assigns' = [assigns EXCEPT ![a] = v]
      BY <2>2, <3>1
    <3>5. /\ issues' \in Nat /\ issues' >= issues
          /\ \A y : Count(y, stream'["gitea"]) = Count(y, stream["gitea"])
          /\ v.state # "called" /\ v.state # "created" /\ v.state # "answered"
      BY <1>3, <1>7, <3>3
    <3>. QED
      <4>1. CallStep(a, v, entry)
        BY <1>3, <1>4, <1>9, <3>2, <3>3, <3>4, <3>5 DEF CallStep
      <4>. QED
        BY <1>0, <4>1, CallInv
  <2>. QED
    BY <1>1, <2>1, <2>2
<1>. QED
  BY <1>4, <1>5, <1>6, <1>8, <1>12 DEF SourcesInv

\* The entry is written, and the call answered whatever becomes of the write.
LEMMA WriteAssignedInv ==
  ASSUME SourcesInv, NEW a \in DOMAIN assigns, WriteAssigned(a)
  PROVE  SourcesInv'
<1>0. BoundInv /\ HookInv /\ AssignInv /\ GiteaInv /\ PodInv
  BY DEF SourcesInv
<1>1. /\ assigns[a].state = "created"
      /\ \/ /\ Written("gitea", AssignEntry(a))
            /\ assigns' = [assigns EXCEPT ![a].state = "answered"]
         \/ Unheard("gitea", AssignEntry(a)) /\ assigns' = assigns
      /\ UNCHANGED <<webhookVars, issues, kubeVars, watcherVars>>
  BY DEF WriteAssigned
<1>2. PICK entry : entry = AssignEntry(a)
  OBVIOUS
<1>3. "gitea" \in EventStreams /\ "k8s" \in EventStreams
  BY DEF EventStreams
<1>4. /\ WriteEffects("gitea", entry)
      /\ \/ /\ again' = again /\ entry \in BagToSet(stream'["gitea"]) \cup BagToSet(lost')
            /\ assigns' = [assigns EXCEPT ![a].state = "answered"]
         \/ Count(entry, again') = Count(entry, again) + 1 /\ assigns' = assigns
  BY <1>0, <1>1, <1>2, <1>3, WriteEffect
<1>5. /\ BoundInv' /\ events' \in Nat /\ events' >= events /\ AgainGrows
      /\ \A t \in EventStreams : \A y : Count(y, stream[t]) \in Nat
      /\ Count(entry, stream'["gitea"]) \in Nat /\ Count(entry, again) \in Nat
      /\ \A y : y # entry => Count(y, stream'["gitea"]) = Count(y, stream["gitea"])
      /\ BagToSet(lost) \subseteq BagToSet(lost')
      /\ BagToSet(stream["gitea"]) \subseteq BagToSet(stream'["gitea"])
      /\ Count(entry, stream'["gitea"]) <= Count(entry, stream["gitea"]) + 1
      /\ events \in Nat /\ issues \in Nat
  <2>1. MaxEvents \in Nat /\ issues \in Nat
    BY <1>0, CalledFinite, EventSourcesAssumption
  <2>2. events \in Nat
    BY <1>0, <2>1 DEF BoundInv
  <2>. QED
    BY <1>0, <1>4, <2>1, <2>2, CountType DEF WriteEffects
<1>6. entry = [from |-> "assign", n |-> assigns[a].issue, payload |-> "whole"]
  BY <1>2 DEF AssignEntry
<1>7. /\ assigns[a] \in [state : AssignStates, issue : 0 .. issues] /\ assigns[a].issue # 0
      /\ Count(entry, stream["gitea"]) <= Count(entry, again)
  <2>1. assigns[a] \in [state : AssignStates, issue : 0 .. issues]
    BY <1>0, CalledFinite
  <2>2. assigns[a].issue # 0 /\ Count(entry, stream["gitea"]) <= Count(entry, again)
    BY <1>0, <1>1, <1>2 DEF AssignInv
  <2>. QED
    BY <2>1, <2>2
<1>8. HookInv'
  <2>1. \A d \in DOMAIN hooks : HookEntry(d) # entry
    <3>1. entry.from = "assign"
      BY <1>6
    <3>. QED
      BY <3>1 DEF HookEntry
  <2>. QED
    BY <1>0, <1>1, <1>5, <2>1, HookKept
<1>9. PodInv'
  <2>1. entry.from # "pod"
    BY <1>6
  <2>. QED
    BY <1>0, <1>1, <1>4, <2>1, OtherWritten
<1>10. GiteaInv'
  <2>1. UNCHANGED <<hooks, issues>>
    BY <1>1 DEF webhookVars
  <2>2. Known(entry)
    <3>1. entry.from = "assign" /\ entry.n \in 1 .. issues
      BY <1>5, <1>6, <1>7
    <3>. QED
      BY <3>1 DEF Known
  <2>. QED
    BY <1>0, <1>4, <1>7, <2>1, <2>2, GiteaWritten
<1>11. AssignInv'
  <2>1. issues' + Cardinality(Called \ {a}) <= events'
    <3>1. Called \ {a} = Called
      BY <1>1 DEF Called
    <3>2. issues + Cardinality(Called) <= events /\ Cardinality(Called) \in Nat
      BY <1>0, CalledFinite DEF AssignInv
    <3>. QED
      BY <1>1, <1>5, <3>1, <3>2
  <2>0. /\ AgainGrows /\ events' \in Nat /\ BagToSet(lost) \subseteq BagToSet(lost')
        /\ BagToSet(stream["gitea"]) \subseteq BagToSet(stream'["gitea"])
    BY <1>5
  <2>2. CASE /\ entry \in BagToSet(stream'["gitea"]) \cup BagToSet(lost')
             /\ assigns' = [assigns EXCEPT ![a].state = "answered"]
    <3>1. PICK v : v = [assigns[a] EXCEPT !.state = "answered"]
      OBVIOUS
    <3>2. /\ v \in [state : AssignStates, issue : 0 .. issues']
          /\ v.state = "answered" /\ v.issue = assigns[a].issue
      BY <1>1, <1>7, <3>1 DEF AssignStates
    <3>3. assigns' = [assigns EXCEPT ![a] = v]
      BY <2>2, <3>1
    <3>4. /\ issues' \in Nat /\ issues' >= issues
          /\ v.state # "called" /\ v.state # "created"
          /\ v.issue \in {0, assigns[a].issue}
          /\ entry = [from |-> "assign", n |-> v.issue, payload |-> "whole"]
          /\ \A y : y # entry => Count(y, stream'["gitea"]) = Count(y, stream["gitea"])
          /\ entry \in BagToSet(stream'["gitea"]) \cup BagToSet(lost')
      BY <1>1, <1>5, <1>6, <2>2, <3>2
    <3>5. /\ v.issue \in {0, assigns[a].issue} \/ v.issue > issues
          /\ v.state = "created" => v.issue # 0 /\ Count(entry, stream'["gitea"]) <= Count(entry, again')
          /\ v.state = "answered" => entry \in BagToSet(stream'["gitea"]) \cup BagToSet(lost')
          /\ \A y : y # entry => Count(y, stream'["gitea"]) = Count(y, stream["gitea"])
      BY <3>2, <3>4
    <3>. QED
      <4>1. CallStep(a, v, entry)
        BY <2>0, <2>1, <3>2, <3>3, <3>4, <3>5 DEF CallStep
      <4>. QED
        BY <1>0, <4>1, CallInv
  <2>3. CASE Count(entry, again') = Count(entry, again) + 1 /\ assigns' = assigns
    <3>1. PICK v : v = assigns[a]
      OBVIOUS
    <3>2. /\ v \in [state : AssignStates, issue : 0 .. issues']
          /\ v.state = "created" /\ v.issue = assigns[a].issue
      BY <1>1, <1>7, <3>1
    <3>3. assigns' = [assigns EXCEPT ![a] = v]
      <4>1. assigns = [b \in DOMAIN assigns |-> assigns[b]]
        BY <1>0 DEF AssignInv
      <4>. QED
        BY <2>3, <3>1, <4>1
    <3>4. /\ issues' \in Nat /\ issues' >= issues
          /\ v.state # "called" /\ v.state # "answered" /\ v.issue # 0
          /\ v.issue \in {0, assigns[a].issue}
          /\ entry = [from |-> "assign", n |-> v.issue, payload |-> "whole"]
          /\ \A y : y # entry => Count(y, stream'["gitea"]) = Count(y, stream["gitea"])
      BY <1>1, <1>5, <1>6, <1>7, <3>2
    <3>5. Count(entry, stream'["gitea"]) <= Count(entry, again')
      <4>1. Count(entry, stream["gitea"]) \in Nat
        BY <1>3, <1>5
      <4>. QED
        BY <1>5, <1>7, <2>3, <4>1
    <3>6. /\ v.issue \in {0, assigns[a].issue} \/ v.issue > issues
          /\ v.state = "created" => v.issue # 0 /\ Count(entry, stream'["gitea"]) <= Count(entry, again')
          /\ v.state = "answered" => entry \in BagToSet(stream'["gitea"]) \cup BagToSet(lost')
          /\ \A y : y # entry => Count(y, stream'["gitea"]) = Count(y, stream["gitea"])
      BY <3>2, <3>4, <3>5
    <3>. QED
      <4>1. CallStep(a, v, entry)
        BY <2>0, <2>1, <3>2, <3>3, <3>4, <3>6 DEF CallStep
      <4>. QED
        BY <1>0, <4>1, CallInv
  <2>. QED
    BY <1>4, <2>2, <2>3
<1>. QED
  BY <1>5, <1>8, <1>9, <1>10, <1>11 DEF SourcesInv

\* An abandoned call's entry is lost, if it has an issue.
LEMMA AbandonInv ==
  ASSUME SourcesInv, NEW a \in DOMAIN assigns, Abandon(a)
  PROVE  SourcesInv'
<1>0. BoundInv /\ HookInv /\ AssignInv /\ GiteaInv /\ PodInv
  BY DEF SourcesInv
<1>1. /\ Failure
      /\ assigns' = [assigns EXCEPT ![a].state = "cut"]
      /\ lost' = IF assigns[a].issue = 0 THEN lost ELSE lost (+) SetToBag({AssignEntry(a)})
      /\ UNCHANGED <<webhookVars, kubeVars, watcherVars>>
      /\ UNCHANGED <<issues, stream, again, restarts, seen>>
  BY DEF Abandon
<1>10. PICK own : own = AssignEntry(a)
  OBVIOUS
<1>11. /\ IsABag(lost') /\ BagToSet(lost) \subseteq BagToSet(lost')
       /\ \A l \in BagToSet(lost') \ BagToSet(lost) : assigns[a].issue # 0 /\ l = own
       /\ \A y : y # own => Count(y, lost') = Count(y, lost)
  <2>1. IsABag(lost)
    BY <1>0 DEF BoundInv
  <2>2. CASE assigns[a].issue = 0
    BY <1>1, <2>1, <2>2
  <2>3. CASE assigns[a].issue # 0
    <3>1. lost' = lost (+) SetToBag({own})
      BY <1>1, <1>10, <2>3
    <3>2. /\ IsABag(lost') /\ BagToSet(lost') = BagToSet(lost) \cup {own}
          /\ \A y : y # own => Count(y, lost') = Count(y, lost)
      <4>. DEFINE next == lost (+) SetToBag({own})
      <4>1. /\ IsABag(next) /\ BagToSet(next) = BagToSet(lost) \cup {own}
            /\ \A y : y # own => Count(y, next) = Count(y, lost)
        BY <2>1, AddToBag
      <4>. HIDE DEF next
      <4>2. lost' = next
        BY <3>1 DEF next
      <4>. QED
        BY <4>1, <4>2
    <3>. QED
      BY <2>3, <3>2
  <2>. QED
    BY <2>2, <2>3
<1>12. own.from = "assign" /\ own.n = assigns[a].issue
  BY <1>10 DEF AssignEntry
<1>2. BoundInv' /\ events' \in Nat /\ events' >= events
  BY <1>0, <1>1, <1>11, BoundKept
<1>3. /\ \A t \in EventStreams : \A y : Count(y, stream[t]) \in Nat
      /\ AgainGrows /\ issues \in Nat /\ events \in Nat
  <2>1. MaxEvents \in Nat /\ issues \in Nat
    BY <1>0, CalledFinite, EventSourcesAssumption
  <2>2. (\A t \in EventStreams : \A y : Count(y, stream[t]) \in Nat) /\ AgainGrows
    BY <1>0, <1>1, CountType
  <2>. QED
    BY <1>0, <2>1, <2>2 DEF BoundInv
<1>4. PodGhostsKept
  BY <1>1, <1>11, <1>12 DEF PodGhostsKept
<1>5. assigns[a] \in [state : AssignStates, issue : 0 .. issues]
  BY <1>0, CalledFinite
<1>6. HookInv'
  BY <1>0, <1>1, <1>3, <1>11, HookKept
<1>7. PodInv'
  BY <1>0, <1>1, <1>4, PodKept
<1>8. GiteaInv'
  <2>1. \A l \in BagToSet(lost') \ BagToSet(lost) : Known(l)
    <3>1. ASSUME NEW l \in BagToSet(lost') \ BagToSet(lost)
          PROVE  l.from = "assign" /\ l.n \in 1 .. issues
      BY <1>3, <1>5, <1>11, <1>12
    <3>. QED
      BY <3>1 DEF Known
  <2>2. DOMAIN hooks \subseteq DOMAIN hooks'
    BY <1>1 DEF webhookVars
  <2>. QED
    BY <1>0, <1>1, <1>3, <2>1, <2>2, GiteaKept
<1>9. AssignInv'
  <2>1. PICK v : v = [assigns[a] EXCEPT !.state = "cut"]
    OBVIOUS
  <2>2. PICK entry : entry = [from |-> "assign", n |-> v.issue, payload |-> "whole"]
    OBVIOUS
  <2>3. /\ v \in [state : AssignStates, issue : 0 .. issues']
        /\ v.state = "cut" /\ v.issue = assigns[a].issue
    BY <1>1, <1>5, <2>1 DEF AssignStates
  <2>4. assigns' = [assigns EXCEPT ![a] = v]
    BY <1>1, <2>1
  <2>5. issues' + Cardinality(Called \ {a}) <= events'
    <3>1. issues + Cardinality(Called) <= events /\ Cardinality(Called) \in Nat
      BY <1>0, CalledFinite DEF AssignInv
    <3>2. Cardinality(Called \ {a}) <= Cardinality(Called) /\ Cardinality(Called \ {a}) \in Nat
      <4>1. IsFiniteSet(Called) /\ Called \ {a} \subseteq Called
        BY <1>0, CalledFinite
      <4>. QED
        BY <4>1, FS_Subset, FS_CardinalityType
    <3>. QED
      BY <1>1, <1>2, <1>3, <3>1, <3>2
  <2>6. /\ issues' \in Nat /\ issues' >= issues /\ AgainGrows
        /\ v.state # "called" /\ v.state # "created" /\ v.state # "answered"
        /\ v.issue \in {0, assigns[a].issue}
        /\ \A y : Count(y, stream'["gitea"]) = Count(y, stream["gitea"])
        /\ BagToSet(stream["gitea"]) \subseteq BagToSet(stream'["gitea"])
    BY <1>1, <1>3, <2>3
  <2>7. /\ v.issue \in {0, assigns[a].issue} \/ v.issue > issues
        /\ v.state = "created" => v.issue # 0 /\ Count(entry, stream'["gitea"]) <= Count(entry, again')
        /\ v.state = "answered" => entry \in BagToSet(stream'["gitea"]) \cup BagToSet(lost')
        /\ \A y : y # entry => Count(y, stream'["gitea"]) = Count(y, stream["gitea"])
    BY <2>6
  <2>. QED
    <3>1. CallStep(a, v, entry)
      BY <1>2, <1>11, <2>2, <2>3, <2>4, <2>5, <2>6, <2>7 DEF CallStep
    <3>. QED
      BY <1>0, <3>1, CallInv
<1>. QED
  BY <1>2, <1>6, <1>7, <1>8, <1>9 DEF SourcesInv

-----------------------------------------------------------------------------
LEMMA SourcesStepInv == SourcesInv /\ [SourcesNext]_sourceVars => SourcesInv'
<1>. SUFFICES ASSUME SourcesInv, [SourcesNext]_sourceVars PROVE SourcesInv'
  OBVIOUS
<1>1. ASSUME NEW hook \in Hooks, Report(hook) PROVE SourcesInv'
  BY <1>1, ReportInv
<1>2. ASSUME NEW d \in DOMAIN hooks, Redeliver(d) \/ ReadFails(d) \/ WebhookStep(d)
      PROVE  SourcesInv'
  <2>1. CASE Redeliver(d)
    BY <1>2, <2>1, RedeliverInv
  <2>2. CASE ServeHTTP(d) \/ ReadFails(d) \/ Reply(d)
    BY <1>2, <2>2, HandleInv
  <2>3. CASE WriteHook(d)
    BY <1>2, <2>3, WriteHookInv
  <2>. QED
    BY <1>2, <2>1, <2>2, <2>3 DEF WebhookStep
<1>3. ASSUME NEW e \in KubeEvents,
             Expire(e) \/ Repeat(e) \/ \E r \in Reasons : Happen(e, r)
      PROVE  SourcesInv'
  BY <1>3, ExpireInv, HappenInv
<1>4. CASE WatcherStep
  BY <1>4, HandleEventInv, WriteEventInv DEF WatcherStep
<1>5. CASE Restart
  BY <1>5, RestartInv
<1>6. CASE AssignIssue
  BY <1>6, AssignIssueInv
<1>7. ASSUME NEW a \in DOMAIN assigns, AssignStep(a) \/ Abandon(a) PROVE SourcesInv'
  BY <1>7, CreateIssueInv, WriteAssignedInv, AbandonInv DEF AssignStep
<1>8. CASE UNCHANGED sourceVars
  <2>1. /\ UNCHANGED <<webhookVars, kubeVars, watcherVars, assignVars, stream, ghostVars>>
        /\ UNCHANGED <<lost, again, restarts, events, failures>>
    BY <1>8 DEF sourceVars, ghostVars, boundVars
  <2>2. BoundInv' /\ events' >= events
    <3>1. BoundInv /\ IsABag(lost')
      BY <2>1 DEF SourcesInv, BoundInv
    <3>. QED
      BY <2>1, <3>1, BoundKept
  <2>3. UNCHANGED hooks
    BY <2>1 DEF webhookVars
  <2>4. AssignInv' /\ GiteaInv' /\ PodInv'
    BY <2>1, <2>2, <2>3, OthersKept
  <2>5. HookInv'
    <3>1. BoundInv /\ HookInv
      BY DEF SourcesInv
    <3>. QED
      BY <2>1, <3>1, CountType, HookKept
  <2>. QED
    BY <2>2, <2>4, <2>5 DEF SourcesInv
<1>. QED
  BY <1>1, <1>2, <1>3, <1>4, <1>5, <1>6, <1>7, <1>8 DEF SourcesNext

\* The invariant holds of every behaviour.
LEMMA SourcesInvariance == SourcesSpec => []SourcesInv
BY SourcesInitInv, SourcesStepInv, PTL DEF SourcesSpec

\* What is on the streams is what was accepted: an Event exactly once for every
\* process of the collector that looked at it, a delivery or an assignment once,
\* but for what a fault loses and what the Redis client writes again.
THEOREM EntriesAreExplained == SourcesSpec => []StreamsExplained
<1>1. SourcesInv => StreamsExplained
  <2>. SUFFICES ASSUME SourcesInv PROVE StreamsExplained
    OBVIOUS
  <2>1. BoundInv /\ HookInv /\ AssignInv /\ GiteaInv /\ PodInv
    BY DEF SourcesInv
  <2>2. issues \in 0 .. MaxEvents
    <3>1. issues + Cardinality(Called) <= events
      BY <2>1 DEF AssignInv
    <3>2. MaxEvents \in Nat /\ Cardinality(Called) \in Nat /\ issues \in Nat
      BY <2>1, CalledFinite, EventSourcesAssumption
    <3>3. events \in 0 .. MaxEvents
      BY <2>1 DEF BoundInv
    <3>. QED
      BY <3>1, <3>2, <3>3
  <2>3. hooks \in Seq(Hooks) /\ state \in [DOMAIN hooks -> HookStates]
        /\ writers \subseteq {d \in DOMAIN hooks : state[d] \in {"accepted", "answered"}}
        /\ \A d \in writers : VerifySignature(hooks[d]) /\ hooks[d].kind \in Published
    BY <2>1 DEF HookInv
  <2>4. assigns \in Seq([state : AssignStates, issue : 0 .. issues])
    BY <2>1 DEF AssignInv
  <2>5. /\ reason \in [KubeEvents -> Reasons \cup {None}]
        /\ there \subseteq {e \in KubeEvents : reason[e] # None}
        /\ store \subseteq there
        /\ handling \in {e \in KubeEvents : StatusOf(reason[e]) # {}} \cup {None}
        /\ \A entry \in EntriesOf("k8s") : entry.from = "pod" /\ entry.n \in KubeEvents
        /\ seen \in [KubeEvents -> SUBSET (0 .. restarts)]
    BY <2>1 DEF PodInv
  <2>6. \A entry \in EntriesOf("gitea") \cup {l \in BagToSet(lost) : l.from # "pod"} :
          \/ entry.from = "hook" /\ entry.n \in DOMAIN hooks
          \/ entry.from = "assign" /\ entry.n \in 1 .. issues
    BY <2>1 DEF GiteaInv, Known
  <2>7. /\ \A s \in EventStreams : IsABag(stream[s])
        /\ IsABag(lost) /\ IsABag(again)
        /\ restarts \in 0 .. failures
        /\ events \in 0 .. MaxEvents
        /\ failures \in 0 .. MaxFailures
    <3>1. MaxFailures \in Nat
      BY EventSourcesAssumption
    <3>. QED
      BY <2>1, <3>1 DEF BoundInv
  <2>8. SourcesTypeOK
    BY <2>2, <2>3, <2>4, <2>5, <2>6, <2>7 DEF SourcesTypeOK
  <2>9. OncePerProcess /\ OncePerReport
    BY <2>1 DEF PodInv, PodWrites, GiteaInv, OncePerProcess, OncePerReport
  <2>. QED
    BY <2>8, <2>9 DEF StreamsExplained
<1>. QED
  BY <1>1, SourcesInvariance, PTL

\* What was answered as accepted, and what the informer holds, is in its stream
\* or being written, unless a fault took it.
THEOREM NothingGoesQuietly == SourcesSpec => []NothingIsLostQuietly
<1>1. SourcesInv => NothingIsLostQuietly
  BY DEF SourcesInv, HookInv, AssignInv, PodInv, NothingIsLostQuietly
<1>. QED
  BY <1>1, SourcesInvariance, PTL

-----------------------------------------------------------------------------
(* The browsers' connections: LivePush                                     *)

\* The batch is a run of entries the group delivered, of which those not yet
\* broadcast remain; nobody is visited but by a broadcast.
RunInv ==
    /\ \A s \in Streams : delivered[s] <= added[s]
    /\ pc # "send" => todo = {}
    /\ pc \in {"push", "send"} <=> batch # <<>>
    /\ pc \in {"down", "read"} => ids = {}
    /\ \A k \in 1 .. Len(batch) :
          batch[k] = batch[1] + k - 1 /\ batch[k] <= delivered[turn]
    /\ \A i \in ids : <<turn, i>> \in pushed \/ \E k \in 1 .. Len(batch) : batch[k] = i
    /\ \A e \in pushed : e[2] <= delivered[e[1]]

\* An event a client was sent was delivered, and lies before what is still to
\* be broadcast of its stream, but for the one the broadcast is at when it has
\* visited the client.
Sendable(c, e) ==
    /\ e[2] <= delivered[e[1]]
    /\ e[1] = turn /\ batch # <<>> =>
          e[2] < batch[1] \/ (e[2] = batch[1] /\ pc = "send" /\ c \notin todo)

\* What a client received and what waits for it are in order, and the one
\* before the other.
QueueInv ==
    \A c \in Clients :
        /\ InOrder(got[c])
        /\ InOrder(channel[c])
        /\ \A x \in Range(got[c]) : \A y \in Range(channel[c]) :
              x[1] = y[1] => x[2] < y[2]
        /\ \A x \in Range(got[c]) \cup Range(channel[c]) : Sendable(c, x)

\* A client the broadcast has visited got the event, or had no room.
VisitedInv ==
    \A c \in clients \ todo :
        pc = "send" /\ alive[c] /\ Matches(c, Event) =>
            Event \in excused[c] \cup Range(got[c]) \cup Range(channel[c])

PushInv == DeliveriesAgree /\ RunInv /\ QueueInv /\ VisitedInv /\ NothingElseIsMissed

-----------------------------------------------------------------------------
(* Sequences in order                                                      *)

\* An event behind all of its stream goes to the end.
LEMMA AppendInOrder ==
  ASSUME NEW S, NEW q \in Seq(S), NEW x \in S, InOrder(q),
         \A y \in Range(q) : y[1] = x[1] => y[2] < x[2]
  PROVE  /\ Append(q, x) \in Seq(S)
         /\ Len(Append(q, x)) = Len(q) + 1
         /\ InOrder(Append(q, x))
         /\ Range(Append(q, x)) = Range(q) \cup {x}
<1>. DEFINE r == Append(q, x)
<1>1. /\ r \in Seq(S) /\ Len(r) = Len(q) + 1 /\ Len(q) \in Nat
      /\ \A i \in 1 .. Len(q) : r[i] = q[i]
      /\ r[Len(q) + 1] = x
      /\ DOMAIN q = 1 .. Len(q) /\ DOMAIN r = 1 .. Len(q) + 1
  BY AppendProperties
<1>. HIDE DEF r
<1>2. ASSUME NEW m \in DOMAIN r, NEW n \in DOMAIN r, m < n, r[m][1] = r[n][1]
      PROVE  r[m][2] < r[n][2]
  <2>1. m \in DOMAIN q /\ r[m] = q[m]
    BY <1>1, <1>2
  <2>2. CASE n \in DOMAIN q
    BY <1>1, <1>2, <2>1, <2>2 DEF InOrder
  <2>3. CASE n \notin DOMAIN q
    <3>1. r[n] = x
      BY <1>1, <2>3
    <3>2. q[m] \in Range(q)
      BY <2>1 DEF Range
    <3>. QED
      BY <1>2, <2>1, <3>1, <3>2
  <2>. QED
    BY <2>2, <2>3
<1>3. InOrder(r)
  BY <1>2 DEF InOrder
<1>4. Range(r) = Range(q) \cup {x}
  BY <1>1 DEF Range
<1>. QED
  BY <1>1, <1>3, <1>4 DEF r

\* The first event is taken out.
LEMMA TailInOrder ==
  ASSUME NEW S, NEW q \in Seq(S), q # <<>>, InOrder(q)
  PROVE  /\ Tail(q) \in Seq(S)
         /\ Len(Tail(q)) = Len(q) - 1
         /\ InOrder(Tail(q))
         /\ Head(q) \in S
         /\ Range(q) = Range(Tail(q)) \cup {Head(q)}
         /\ \A y \in Range(Tail(q)) : Head(q)[1] = y[1] => Head(q)[2] < y[2]
<1>. DEFINE r == Tail(q)
<1>1. /\ r \in Seq(S) /\ Len(r) = Len(q) - 1 /\ Len(q) \in Nat /\ Len(q) # 0
      /\ \A i \in 1 .. Len(q) - 1 : r[i] = q[i + 1]
      /\ DOMAIN q = 1 .. Len(q) /\ DOMAIN r = 1 .. Len(q) - 1
      /\ Head(q) = q[1] /\ q[1] \in S
  BY HeadTailProperties, EmptySeq, ElementOfSeq
<1>. HIDE DEF r
<1>2. InOrder(r)
  <2>1. ASSUME NEW m \in DOMAIN r, NEW n \in DOMAIN r, m < n, r[m][1] = r[n][1]
        PROVE  r[m][2] < r[n][2]
    <3>1. /\ m + 1 \in DOMAIN q /\ n + 1 \in DOMAIN q /\ m + 1 < n + 1
          /\ r[m] = q[m + 1] /\ r[n] = q[n + 1]
      BY <1>1, <2>1
    <3>. QED
      BY <2>1, <3>1 DEF InOrder
  <2>. QED
    BY <2>1 DEF InOrder
<1>3. \A i \in DOMAIN r : i + 1 \in DOMAIN q /\ 1 < i + 1 /\ r[i] = q[i + 1]
  BY <1>1
<1>4. Range(q) = Range(r) \cup {q[1]}
  <2>1. \A i \in DOMAIN q : i = 1 \/ (i - 1 \in DOMAIN r /\ r[i - 1] = q[i])
    BY <1>1
  <2>2. \A i \in DOMAIN q : q[i] \in Range(r) \cup {q[1]}
    BY <2>1 DEF Range
  <2>3. \A i \in DOMAIN r : r[i] \in Range(q)
    BY <1>3 DEF Range
  <2>4. q[1] \in Range(q)
    BY <1>1 DEF Range
  <2>. QED
    BY <2>2, <2>3, <2>4 DEF Range
<1>5. ASSUME NEW y \in Range(r), q[1][1] = y[1] PROVE q[1][2] < y[2]
  <2>1. PICK i \in DOMAIN r : y = r[i]
    BY DEF Range
  <2>2. 1 \in DOMAIN q
    BY <1>1
  <2>. QED
    BY <1>3, <1>5, <2>1, <2>2 DEF InOrder
<1>. QED
  BY <1>1, <1>2, <1>4, <1>5 DEF r

\* Two sequences in order, the one before the other, are in order when joined.
LEMMA ConcatInOrder ==
  ASSUME NEW S, NEW p \in Seq(S), NEW r \in Seq(S), InOrder(p), InOrder(r),
         \A x \in Range(p) : \A y \in Range(r) : x[1] = y[1] => x[2] < y[2]
  PROVE  InOrder(p \o r)
<1>. DEFINE q == p \o r
<1>1. /\ Len(p) \in Nat /\ Len(r) \in Nat
      /\ DOMAIN p = 1 .. Len(p) /\ DOMAIN r = 1 .. Len(r)
      /\ DOMAIN q = 1 .. Len(p) + Len(r)
      /\ \A i \in DOMAIN q :
            \/ i \in DOMAIN p /\ q[i] = p[i]
            \/ i > Len(p) /\ i - Len(p) \in DOMAIN r /\ q[i] = r[i - Len(p)]
  BY ConcatProperties
<1>. HIDE DEF q
<1>2. ASSUME NEW m \in DOMAIN q, NEW n \in DOMAIN q, m < n, q[m][1] = q[n][1]
      PROVE  q[m][2] < q[n][2]
  <2>1. CASE n \in DOMAIN p /\ q[n] = p[n]
    <3>1. m \in DOMAIN p /\ q[m] = p[m]
      BY <1>1, <1>2, <2>1
    <3>. QED
      BY <1>2, <2>1, <3>1 DEF InOrder
  <2>2. CASE /\ m \in DOMAIN p /\ q[m] = p[m]
             /\ n - Len(p) \in DOMAIN r /\ q[n] = r[n - Len(p)]
    <3>1. q[m] \in Range(p) /\ q[n] \in Range(r)
      BY <2>2 DEF Range
    <3>. QED
      BY <1>2, <3>1
  <2>3. CASE /\ m - Len(p) \in DOMAIN r /\ q[m] = r[m - Len(p)]
             /\ n - Len(p) \in DOMAIN r /\ q[n] = r[n - Len(p)]
    <3>1. m - Len(p) < n - Len(p)
      BY <1>1, <1>2
    <3>. QED
      BY <1>2, <2>3, <3>1 DEF InOrder
  <2>. QED
    BY <1>1, <1>2, <2>1, <2>2, <2>3
<1>. QED
  BY <1>2 DEF InOrder, q

-----------------------------------------------------------------------------
LEMMA PushInitInv == PushInit => PushInv
<1>. SUFFICES ASSUME PushInit PROVE PushInv
  OBVIOUS
<1>. USE DEF PushInit
<1>1. 1 \in Streams /\ 0 \in 0 .. MaxEntries /\ 0 \in 0 .. MaxFaults /\ 0 <= ChannelSize
  BY LivePushAssumption DEF Streams
<1>2. PushTypeOK
  <2>1. /\ added \in [Streams -> 0 .. MaxEntries] /\ delivered \in [Streams -> 0 .. MaxEntries]
        /\ first \in [Streams -> Nat \ {0}] /\ grouped \in [Streams -> BOOLEAN]
        /\ pel \in [Streams -> SUBSET Ids] /\ handed \in [Streams -> SUBSET Ids]
        /\ agent \in [Entries -> Names]
    BY <1>1 DEF Names
  <2>2. /\ conn \in [Clients -> {"new", "reading", "done"}] /\ alive \in [Clients -> BOOLEAN]
        /\ filter \in [Clients -> Names] /\ pump \in [Clients -> {"none", "run", "ended"}]
        /\ got \in [Clients -> Seq(Entries)] /\ channel \in [Clients -> Seq(Entries)]
        /\ excused \in [Clients -> SUBSET Entries]
        /\ \A c \in Clients : Len(channel[c]) <= ChannelSize
    BY <1>1 DEF Names
  <2>3. /\ pc \in {"down", "read", "push", "send", "ack"} /\ turn \in Streams
        /\ batch \in Seq(Ids) /\ ids \subseteq Ids /\ todo \subseteq Clients
        /\ pushed \subseteq Entries /\ faults \in 0 .. MaxFaults
    BY <1>1
  <2>. QED
    BY <2>1, <2>2, <2>3 DEF PushTypeOK
<1>3. SendIsSafe /\ AckedIsPushed
  BY DEF SendIsSafe, AckedIsPushed
<1>4. RunInv
  BY DEF RunInv
<1>5. QueueInv
  BY DEF QueueInv, InOrder, Range
<1>6. VisitedInv /\ NothingElseIsMissed
  BY DEF VisitedInv, NothingElseIsMissed, clients
<1>. QED
  BY <1>2, <1>3, <1>4, <1>5, <1>6 DEF PushInv, DeliveriesAgree

\* What clients received and what waits for them changes only by sends and by
\* their pumps.
LEMMA QueueKept ==
  ASSUME QueueInv, UNCHANGED <<got, channel>>,
         \A c \in Clients : \A e \in Range(got[c]) \cup Range(channel[c]) :
            Sendable(c, e) => Sendable(c, e)'
  PROVE  QueueInv'
BY DEF QueueInv

\* No browser misses more when what waited for it is kept.
LEMMA MissedKept ==
  ASSUME NothingElseIsMissed, UNCHANGED <<conn, alive, filter, excused, pushed>>,
         \A e \in pushed : agent'[e] = agent[e],
         \A c \in Clients : Range(got[c]) \cup Range(channel[c])
                               \subseteq Range(got'[c]) \cup Range(channel'[c])
  PROVE  NothingElseIsMissed'
BY DEF NothingElseIsMissed, clients, Matches

\* The types of what a step of Run does not change.
ClientTypes ==
    /\ conn \in [Clients -> {"new", "reading", "done"}]
    /\ alive \in [Clients -> BOOLEAN]
    /\ filter \in [Clients -> Names]
    /\ pump \in [Clients -> {"none", "run", "ended"}]
    /\ got \in [Clients -> Seq(Entries)]
    /\ channel \in [Clients -> Seq(Entries)]
    /\ \A c \in Clients : Len(channel[c]) <= ChannelSize
    /\ excused \in [Clients -> SUBSET Entries]

\* The types of what a step of a connection does not change.
StreamTypes ==
    /\ added \in [Streams -> 0 .. MaxEntries]
    /\ first \in [Streams -> Nat \ {0}]
    /\ grouped \in [Streams -> BOOLEAN]
    /\ delivered \in [Streams -> 0 .. MaxEntries]
    /\ pel \in [Streams -> SUBSET Ids]
    /\ agent \in [Entries -> Names]
    /\ handed \in [Streams -> SUBSET Ids]

RunTypes ==
    /\ pc \in {"down", "read", "push", "send", "ack"}
    /\ turn \in Streams
    /\ batch \in Seq(Ids)
    /\ ids \subseteq Ids
    /\ todo \subseteq Clients
    /\ pushed \subseteq Entries
    /\ faults \in 0 .. MaxFaults

\* The invariant, taken apart.
LEMMA PushParts ==
  ASSUME PushInv
  PROVE  /\ ClientTypes /\ StreamTypes /\ RunTypes /\ SendIsSafe /\ AckedIsPushed
         /\ RunInv /\ QueueInv /\ VisitedInv /\ NothingElseIsMissed
BY DEF PushInv, DeliveriesAgree, PushTypeOK, ClientTypes, StreamTypes, RunTypes

\* The invariant, put together.
LEMMA PushWhole ==
  ASSUME ClientTypes', StreamTypes', RunTypes', SendIsSafe', AckedIsPushed',
         RunInv', QueueInv', VisitedInv', NothingElseIsMissed'
  PROVE  PushInv'
BY DEF PushInv, DeliveriesAgree, PushTypeOK, ClientTypes, StreamTypes, RunTypes

\* The faults are counted.
LEMMA FaultType ==
  ASSUME RunTypes, Fault \/ UNCHANGED faults
  PROVE  faults' \in 0 .. MaxFaults
BY LivePushAssumption DEF RunTypes, Fault

\* An entry is added: nothing of what was delivered changes.
LEMMA PublishInv == ASSUME PushInv, NEW s \in Streams, Publish(s) PROVE PushInv'
<1>0. /\ ClientTypes /\ StreamTypes /\ RunTypes /\ SendIsSafe /\ AckedIsPushed
      /\ RunInv /\ QueueInv /\ VisitedInv /\ NothingElseIsMissed
  BY PushParts
<1>1. /\ added[s] < MaxEntries /\ added' = [added EXCEPT ![s] = @ + 1]
      /\ \E f \in TrimmedTo(first[s], added'[s], MaxLen) : first' = [first EXCEPT ![s] = f]
      /\ \E a \in Names : agent' = [agent EXCEPT ![<<s, added'[s]>>] = a]
      /\ UNCHANGED <<grouped, delivered, pel, handed, pc, turn, batch, ids, todo, pushed>>
      /\ UNCHANGED <<conn, alive, filter, pump, got, channel, excused, faults>>
  BY DEF Publish, runVars, clientVars, netVars, pumpVars, queueVars
<1>2. MaxEntries \in Nat /\ added[s] \in 0 .. MaxEntries /\ first[s] \in Nat \ {0}
  BY <1>0, LivePushAssumption DEF StreamTypes
<1>3. PICK new : new = added[s] + 1
  OBVIOUS
<1>4. new \in Ids /\ new \in 0 .. MaxEntries /\ added'[s] = new
      /\ \A t \in Streams : added'[t] >= added[t]
  BY <1>0, <1>1, <1>2, <1>3 DEF StreamTypes, Ids
<1>5. StreamTypes'
  <2>1. added' \in [Streams -> 0 .. MaxEntries]
    BY <1>0, <1>1, <1>3, <1>4 DEF StreamTypes
  <2>2. first' \in [Streams -> Nat \ {0}]
    <3>1. PICK f \in TrimmedTo(first[s], new, MaxLen) : first' = [first EXCEPT ![s] = f]
      BY <1>1, <1>4
    <3>2. f \in Nat \ {0}
      BY <1>2, <1>4 DEF TrimmedTo
    <3>. QED
      BY <1>0, <3>1, <3>2 DEF StreamTypes
  <2>3. agent' \in [Entries -> Names]
    BY <1>0, <1>1 DEF StreamTypes
  <2>. QED
    BY <1>0, <1>1, <2>1, <2>2, <2>3 DEF StreamTypes
<1>6. ClientTypes' /\ RunTypes' /\ SendIsSafe' /\ AckedIsPushed'
  BY <1>0, <1>1 DEF ClientTypes, RunTypes, SendIsSafe, AckedIsPushed, clients
<1>7. \A t \in Streams : delivered[t] \in Nat /\ added[t] \in Nat /\ delivered[t] <= added[t]
  <2>1. \A t \in Streams : delivered[t] \in 0 .. MaxEntries /\ added[t] \in 0 .. MaxEntries
    BY <1>0 DEF StreamTypes
  <2>. QED
    BY <1>0, <1>2, <2>1 DEF RunInv
<1>8. RunInv'
  <2>1. \A t \in Streams : added'[t] \in Nat
    BY <1>2, <1>5 DEF StreamTypes
  <2>2. \A t \in Streams : delivered'[t] <= added'[t]
    BY <1>1, <1>4, <1>7, <2>1
  <2>. QED
    BY <1>0, <1>1, <2>2 DEF RunInv
<1>9. ASSUME NEW e \in Entries, e[2] <= delivered[e[1]] PROVE agent'[e] = agent[e]
  <2>1. e[1] \in Streams /\ e[2] \in Nat /\ e = <<e[1], e[2]>>
    BY DEF Entries, Ids
  <2>2. e # <<s, new>>
    BY <1>3, <1>7, <1>9, <2>1
  <2>. QED
    BY <1>0, <1>1, <1>4, <2>2 DEF StreamTypes
<1>10. QueueInv'
  <2>1. \A c \in Clients : \A e : Sendable(c, e) => Sendable(c, e)'
    BY <1>1 DEF Sendable
  <2>. QED
    BY <1>0, <1>1, <2>1, QueueKept
<1>11. VisitedInv'
  <2>1. pc = "send" => Event \in Entries /\ Event[2] <= delivered[Event[1]]
    <3>1. pc = "send" => batch # <<>>
      BY <1>0 DEF RunInv
    <3>2. batch # <<>> => Head(batch) = batch[1] /\ 1 \in 1 .. Len(batch) /\ batch[1] \in Ids
      BY <1>0, EmptySeq, ElementOfSeq, HeadTailProperties DEF RunTypes
    <3>3. pc = "send" => batch[1] <= delivered[turn]
      BY <1>0, <3>1, <3>2 DEF RunInv
    <3>. QED
      BY <1>0, <3>1, <3>2, <3>3 DEF Event, Entries, RunTypes
  <2>2. Event' = Event /\ clients' = clients
    BY <1>1 DEF Event, clients
  <2>3. pc = "send" => \A c \in Clients : Matches(c, Event)' <=> Matches(c, Event)
    BY <1>1, <1>9, <2>1, <2>2 DEF Matches
  <2>. QED
    BY <1>0, <1>1, <2>2, <2>3 DEF VisitedInv, clients
<1>12. NothingElseIsMissed'
  <2>1. \A e \in pushed : agent'[e] = agent[e]
    BY <1>0, <1>9 DEF RunInv, RunTypes
  <2>. QED
    BY <1>0, <1>1, <2>1, MissedKept
<1>. QED
  BY <1>5, <1>6, <1>8, <1>10, <1>11, <1>12, PushWhole

\* The groups are created at the streams' ends, which lie behind whatever was
\* delivered.
LEMMA BackendStartInv == ASSUME PushInv, Start PROVE PushInv'
<1>0. /\ ClientTypes /\ StreamTypes /\ RunTypes /\ SendIsSafe /\ AckedIsPushed
      /\ RunInv /\ QueueInv /\ VisitedInv /\ NothingElseIsMissed
  BY PushParts
<1>1. /\ pc = "down" /\ pc' = "read" /\ turn' = 1
      /\ \/ /\ grouped' = [s \in Streams |-> TRUE]
            /\ delivered' = [s \in Streams |-> IF grouped[s] THEN delivered[s] ELSE added[s]]
            /\ UNCHANGED faults
         \/ Fault /\ UNCHANGED <<grouped, delivered>>
      /\ UNCHANGED <<added, first, pel, agent, handed, batch, ids, todo, pushed>>
      /\ UNCHANGED <<conn, alive, filter, pump, got, channel, excused>>
  BY DEF Start, clientVars, netVars, pumpVars, queueVars
<1>2. MaxEntries \in Nat /\ 1 \in Streams
  BY LivePushAssumption DEF Streams
<1>3. \A t \in Streams : delivered[t] \in Nat /\ added[t] \in Nat /\ delivered[t] <= added[t]
  <2>1. \A t \in Streams : delivered[t] \in 0 .. MaxEntries /\ added[t] \in 0 .. MaxEntries
    BY <1>0 DEF StreamTypes
  <2>. QED
    BY <1>0, <1>2, <2>1 DEF RunInv
<1>4. StreamTypes'
  BY <1>0, <1>1 DEF StreamTypes
<1>5. \A t \in Streams : delivered'[t] >= delivered[t] /\ delivered'[t] <= added'[t]
                         /\ delivered'[t] \in Nat
  BY <1>0, <1>1, <1>3 DEF StreamTypes
<1>6. batch = <<>> /\ ids = {} /\ todo = {}
  BY <1>0, <1>1 DEF RunInv
<1>7. RunTypes'
  <2>1. faults' \in 0 .. MaxFaults
    BY <1>0, <1>1, FaultType
  <2>. QED
    BY <1>0, <1>1, <1>2, <2>1 DEF RunTypes
<1>8. ClientTypes' /\ SendIsSafe' /\ AckedIsPushed'
  BY <1>0, <1>1 DEF ClientTypes, SendIsSafe, AckedIsPushed, clients
<1>9. ASSUME NEW e \in Entries, e[2] <= delivered[e[1]] PROVE e[2] <= delivered'[e[1]]
  <2>1. e[1] \in Streams /\ e[2] \in Nat
    BY DEF Entries, Ids
  <2>. QED
    BY <1>3, <1>5, <1>9, <2>1
<1>10. RunInv'
  <2>1. \A e \in pushed : e[2] <= delivered'[e[1]]
    BY <1>0, <1>9 DEF RunInv, RunTypes
  <2>2. batch' = <<>> /\ ids' = {} /\ todo' = {} /\ Len(batch') = 0
    BY <1>1, <1>6
  <2>. QED
    BY <1>1, <1>5, <2>1, <2>2 DEF RunInv
<1>11. QueueInv'
  <2>1. ASSUME NEW c \in Clients, NEW e \in Range(got[c]) \cup Range(channel[c]), Sendable(c, e)
        PROVE  Sendable(c, e)'
    <3>1. got[c] \in Seq(Entries) /\ channel[c] \in Seq(Entries)
      BY <1>0 DEF ClientTypes
    <3>2. e \in Entries
      BY <3>1, ElementOfSeq DEF Range
    <3>. QED
      BY <1>1, <1>6, <1>9, <2>1, <3>2 DEF Sendable
  <2>. QED
    BY <1>0, <1>1, <2>1, QueueKept
<1>12. VisitedInv'
  BY <1>1 DEF VisitedInv
<1>13. NothingElseIsMissed'
  BY <1>0, <1>1, MissedKept
<1>. QED
  BY <1>4, <1>7, <1>8, <1>10, <1>11, <1>12, <1>13, PushWhole

\* The connections end with the process, and nobody is owed an event.
LEMMA KillInv == ASSUME PushInv, Kill PROVE PushInv'
<1>0. /\ ClientTypes /\ StreamTypes /\ RunTypes /\ SendIsSafe /\ AckedIsPushed
      /\ RunInv /\ QueueInv /\ VisitedInv /\ NothingElseIsMissed
  BY PushParts
<1>1. /\ Fault /\ pc' = "down" /\ batch' = <<>> /\ ids' = {} /\ todo' = {}
      /\ conn' = [c \in Clients |-> IF conn[c] = "new" THEN "new" ELSE "done"]
      /\ alive' = [c \in Clients |-> conn[c] = "new"]
      /\ pump' = [c \in Clients |-> IF pump[c] = "none" THEN "none" ELSE "ended"]
      /\ channel' = [c \in Clients |-> <<>>]
      /\ filter' = [c \in Clients |-> NoAgent]
      /\ got' = [c \in Clients |-> <<>>]
      /\ excused' = [c \in Clients |-> {}]
      /\ UNCHANGED <<turn, pushed, added, first, grouped, delivered, pel, agent, handed>>
  BY DEF Kill, Forget, streamVars
<1>2. StreamTypes' /\ AckedIsPushed'
  BY <1>0, <1>1 DEF StreamTypes, AckedIsPushed
<1>3. RunTypes'
  <2>1. faults' \in 0 .. MaxFaults
    BY <1>0, <1>1, FaultType
  <2>. QED
    BY <1>0, <1>1, <2>1 DEF RunTypes
<1>4. ClientTypes'
  <2>1. 0 <= ChannelSize
    BY LivePushAssumption
  <2>2. /\ conn' \in [Clients -> {"new", "reading", "done"}] /\ alive' \in [Clients -> BOOLEAN]
        /\ filter' \in [Clients -> Names] /\ pump' \in [Clients -> {"none", "run", "ended"}]
    BY <1>1 DEF Names
  <2>3. /\ got' \in [Clients -> Seq(Entries)] /\ channel' \in [Clients -> Seq(Entries)]
        /\ \A c \in Clients : Len(channel'[c]) <= ChannelSize
        /\ excused' \in [Clients -> SUBSET Entries]
    BY <1>1, <2>1
  <2>. QED
    BY <2>2, <2>3 DEF ClientTypes
<1>5. clients' = {} /\ SendIsSafe'
  BY <1>1 DEF SendIsSafe, clients
<1>6. RunInv'
  <2>1. Len(batch') = 0
    BY <1>1
  <2>. QED
    BY <1>0, <1>1, <2>1 DEF RunInv
<1>7. QueueInv'
  BY <1>1 DEF QueueInv, InOrder, Range
<1>8. VisitedInv' /\ NothingElseIsMissed'
  BY <1>5 DEF VisitedInv, NothingElseIsMissed
<1>. QED
  BY <1>2, <1>3, <1>4, <1>5, <1>6, <1>7, <1>8, PushWhole

\* The entries of the batches and of the queues are entries.
LEMMA SentAreEntries ==
  ASSUME ClientTypes, NEW c \in Clients
  PROVE  /\ got[c] \in Seq(Entries) /\ channel[c] \in Seq(Entries)
         /\ Range(got[c]) \subseteq Entries /\ Range(channel[c]) \subseteq Entries
<1>1. got[c] \in Seq(Entries) /\ channel[c] \in Seq(Entries)
  BY DEF ClientTypes
<1>. QED
  BY <1>1, ElementOfSeq DEF Range

\* What the types give of one stream.
LEMMA StreamNumbers ==
  ASSUME StreamTypes, RunInv
  PROVE  /\ MaxEntries \in Nat
         /\ \A s \in Streams :
               /\ delivered[s] \in Nat /\ added[s] \in Nat /\ first[s] \in Nat
               /\ delivered[s] <= added[s] /\ added[s] <= MaxEntries
<1>1. MaxEntries \in Nat
  BY LivePushAssumption
<1>2. \A s \in Streams : /\ delivered[s] \in 0 .. MaxEntries /\ added[s] \in 0 .. MaxEntries
                        /\ first[s] \in Nat
  BY DEF StreamTypes
<1>. QED
  BY <1>1, <1>2 DEF RunInv

\* The loop's next stream is one.
LEMMA NextTurnType ==
  ASSUME RunTypes, NextTurn
  PROVE  turn' \in Streams
<1>1. NumStreams \in Nat \ {0} /\ turn \in 1 .. NumStreams
  BY LivePushAssumption DEF RunTypes, Streams
<1>2. turn' = IF turn = NumStreams THEN 1 ELSE turn + 1
  BY DEF NextTurn
<1>. QED
  BY <1>1, <1>2 DEF Streams

\* What a read returns lies behind everything that was sent of the stream; if
\* the reply is lost, nothing of it is broadcast.
LEMMA ReadInv == ASSUME PushInv, Read PROVE PushInv'
<1>0. /\ ClientTypes /\ StreamTypes /\ RunTypes /\ SendIsSafe /\ AckedIsPushed
      /\ RunInv /\ QueueInv /\ VisitedInv /\ NothingElseIsMissed
  BY PushParts
<1>1. PICK from, to : from = From(turn) /\ to = To(turn)
  OBVIOUS
<1>2. PICK N : N = New(turn)
  OBVIOUS
<1>3. /\ pc = "read" /\ N # {}
      /\ delivered' = [delivered EXCEPT ![turn] = to]
      /\ pel' = [pel EXCEPT ![turn] = @ \cup N]
      /\ handed' = [handed EXCEPT ![turn] = @ \cup N]
      /\ \/ /\ pc' = "push" /\ batch' = MessagesOf(from, to) /\ ids' = N
            /\ UNCHANGED <<turn, faults>>
         \/ Fault /\ NextTurn /\ UNCHANGED <<pc, batch, ids>>
      /\ UNCHANGED <<added, first, grouped, agent, todo, pushed>>
      /\ UNCHANGED <<conn, alive, filter, pump, got, channel, excused>>
  BY <1>1, <1>2 DEF Read, clientVars, netVars, pumpVars, queueVars
<1>4. turn \in Streams /\ batch = <<>> /\ ids = {} /\ todo = {}
  BY <1>0, <1>3 DEF RunInv, RunTypes
<1>5. /\ from \in Nat /\ to \in Nat /\ delivered[turn] < from /\ from <= to
      /\ to <= added[turn] /\ N = from .. to
  <2>1. BatchSize \in Nat
    BY LivePushAssumption
  <2>2. /\ first[turn] \in Nat /\ added[turn] \in Nat /\ delivered[turn] \in Nat
    BY <1>0, <1>4, StreamNumbers
  <2>. QED
    BY <1>1, <1>2, <1>3, <2>1, <2>2, FreshRun DEF From, To, New
<1>6. MaxEntries \in Nat /\ delivered[turn] \in Nat /\ added[turn] \in Nat
        /\ added[turn] <= MaxEntries
  BY <1>0, <1>4, StreamNumbers
<1>7. N \subseteq Ids /\ to \in 0 .. MaxEntries
  BY <1>5, <1>6 DEF Ids
<1>8. \A t \in Streams : delivered'[t] = IF t = turn THEN to ELSE delivered[t]
  BY <1>0, <1>3 DEF StreamTypes
<1>9. StreamTypes'
  <2>1. delivered' \in [Streams -> 0 .. MaxEntries]
    BY <1>0, <1>3, <1>4, <1>7 DEF StreamTypes
  <2>2. pel' \in [Streams -> SUBSET Ids] /\ handed' \in [Streams -> SUBSET Ids]
    BY <1>0, <1>3, <1>4, <1>7 DEF StreamTypes
  <2>. QED
    BY <1>0, <1>3, <2>1, <2>2 DEF StreamTypes
<1>10. /\ MessagesOf(from, to) \in Seq(Ids)
       /\ Len(MessagesOf(from, to)) = to - from + 1
       /\ \A k \in 1 .. (to - from + 1) : MessagesOf(from, to)[k] = from + k - 1
  BY <1>5, <1>7, RunIsSeq
<1>11. RunTypes'
  <2>1. turn' \in Streams
    BY <1>0, <1>3, <1>4, NextTurnType
  <2>2. faults' \in 0 .. MaxFaults
    BY <1>0, <1>3, FaultType
  <2>3. batch' \in Seq(Ids) /\ ids' \subseteq Ids /\ pc' \in {"read", "push"}
    BY <1>0, <1>3, <1>7, <1>10 DEF RunTypes
  <2>. QED
    BY <1>0, <1>3, <2>1, <2>2, <2>3 DEF RunTypes
<1>12. ClientTypes' /\ SendIsSafe'
  BY <1>0, <1>3 DEF ClientTypes, SendIsSafe, clients
<1>13. AckedIsPushed'
  <2>1. \A s \in Streams : handed'[s] \ pel'[s] \subseteq handed[s] \ pel[s]
    BY <1>0, <1>3 DEF StreamTypes
  <2>. QED
    BY <1>0, <1>3, <2>1 DEF AckedIsPushed
<1>14. ASSUME NEW e \in Entries, e[2] <= delivered[e[1]] PROVE e[2] <= delivered'[e[1]]
  <2>1. e[1] \in Streams /\ e[2] \in Nat
    BY DEF Entries, Ids
  <2>. QED
    BY <1>5, <1>6, <1>8, <1>14, <2>1
<1>15. RunInv'
  <2>1. \A s \in Streams : delivered'[s] <= added'[s]
    BY <1>0, <1>3, <1>5, <1>8 DEF RunInv
  <2>2. \A e \in pushed' : e[2] <= delivered'[e[1]]
    BY <1>0, <1>3, <1>14 DEF RunInv, RunTypes
  <2>3. CASE pc' = "push" /\ batch' = MessagesOf(from, to) /\ ids' = N /\ turn' = turn
    <3>1. delivered'[turn'] = to /\ todo' = {}
      BY <1>3, <1>4, <1>8, <2>3
    <3>2. /\ Len(batch') = to - from + 1 /\ batch' # <<>> /\ batch'[1] = from
          /\ \A k \in 1 .. Len(batch') : batch'[k] = from + k - 1 /\ batch'[k] <= to
      <4>1. /\ Len(batch') = to - from + 1
                  /\ \A k \in 1 .. Len(batch') : batch'[k] = from + k - 1
        BY <1>10, <2>3
      <4>2. Len(batch') # 0 /\ batch'[1] = from
        BY <1>5, <4>1
      <4>. QED
        BY <1>5, <4>1, <4>2
    <3>3. \A i \in ids' : \E k \in 1 .. Len(batch') : batch'[k] = i
      <4>1. ASSUME NEW i \in ids' PROVE i - from + 1 \in 1 .. Len(batch')
              /\ batch'[i - from + 1] = i
        <5>1. i \in Nat /\ from <= i /\ i <= to
          BY <1>5, <2>3, <4>1
        <5>2. i - from + 1 \in 1 .. Len(batch')
          BY <1>5, <3>2, <5>1
        <5>3. batch'[i - from + 1] = from + (i - from + 1) - 1
          BY <3>2, <5>2
        <5>. QED
          BY <1>5, <5>1, <5>2, <5>3
      <4>. QED
        BY <4>1
    <3>. QED
      BY <2>1, <2>2, <2>3, <3>1, <3>2, <3>3 DEF RunInv
  <2>4. CASE pc' = "read" /\ batch' = batch /\ ids' = ids
    <3>1. Len(batch') = 0 /\ batch' = <<>> /\ ids' = {} /\ todo' = {}
      BY <1>3, <1>4, <2>4
    <3>. QED
      BY <2>1, <2>2, <2>4, <3>1 DEF RunInv
  <2>. QED
    BY <1>3, <2>3, <2>4
<1>16. QueueInv'
  <2>1. ASSUME NEW c \in Clients, NEW e \in Range(got[c]) \cup Range(channel[c]), Sendable(c, e)
        PROVE  Sendable(c, e)'
    <3>1. e \in Entries
      BY <1>0, SentAreEntries
    <3>2. e[2] <= delivered[e[1]] /\ e[2] <= delivered'[e[1]] /\ e[2] \in Nat
      BY <1>14, <2>1, <3>1 DEF Sendable, Entries, Ids
    <3>3. CASE batch' = MessagesOf(from, to) /\ turn' = turn
      <4>1. e[1] = turn => e[2] < batch'[1]
        <5>1. batch'[1] = from
          BY <1>5, <1>10, <3>3
        <5>. QED
          BY <1>5, <1>6, <3>2, <5>1
      <4>. QED
        BY <3>2, <3>3, <4>1 DEF Sendable
    <3>4. CASE batch' = <<>>
      BY <3>2, <3>4 DEF Sendable
    <3>. QED
      BY <1>3, <1>4, <3>3, <3>4
  <2>. QED
    BY <1>0, <1>3, <2>1, QueueKept
<1>17. VisitedInv' /\ NothingElseIsMissed'
  <2>1. pc' # "send"
    BY <1>3
  <2>. QED
    BY <1>0, <1>3, <2>1, MissedKept DEF VisitedInv
<1>. QED
  BY <1>9, <1>11, <1>12, <1>13, <1>15, <1>16, <1>17, PushWhole

\* Nothing is read, the lock is taken, or the batch is acknowledged.
LEMMA ReadNothingInv == ASSUME PushInv, ReadNothing PROVE PushInv'
<1>0. /\ ClientTypes /\ StreamTypes /\ RunTypes /\ SendIsSafe /\ AckedIsPushed
      /\ RunInv /\ QueueInv /\ VisitedInv /\ NothingElseIsMissed
  BY PushParts
<1>1. /\ pc = "read" /\ NextTurn
      /\ UNCHANGED <<added, first, grouped, delivered, pel, agent, handed>>
      /\ UNCHANGED <<pc, batch, ids, todo, pushed, faults>>
      /\ UNCHANGED <<conn, alive, filter, pump, got, channel, excused>>
  BY DEF ReadNothing, streamVars, clientVars, netVars, pumpVars, queueVars
<1>2. batch = <<>> /\ ids = {} /\ turn' \in Streams
  BY <1>0, <1>1, NextTurnType DEF RunInv
<1>3. StreamTypes' /\ ClientTypes' /\ SendIsSafe' /\ AckedIsPushed'
  BY <1>0, <1>1 DEF StreamTypes, ClientTypes, SendIsSafe, AckedIsPushed, clients
<1>4. RunTypes'
  BY <1>0, <1>1, <1>2 DEF RunTypes
<1>5. RunInv'
  <2>1. Len(batch') = 0 /\ batch' = <<>> /\ ids' = {}
    BY <1>1, <1>2
  <2>. QED
    BY <1>0, <1>1, <2>1 DEF RunInv
<1>6. QueueInv'
  <2>1. \A c \in Clients : \A e : Sendable(c, e) => Sendable(c, e)'
    BY <1>1, <1>2 DEF Sendable
  <2>. QED
    BY <1>0, <1>1, <2>1, QueueKept
<1>7. VisitedInv' /\ NothingElseIsMissed'
  BY <1>0, <1>1, MissedKept DEF VisitedInv
<1>. QED
  BY <1>3, <1>4, <1>5, <1>6, <1>7, PushWhole

\* Taking the lock keeps the invariant.
LEMMA BroadcastInv == ASSUME PushInv, Broadcast PROVE PushInv'
<1>0. /\ ClientTypes /\ StreamTypes /\ RunTypes /\ SendIsSafe /\ AckedIsPushed
      /\ RunInv /\ QueueInv /\ VisitedInv /\ NothingElseIsMissed
  BY PushParts
<1>1. /\ pc = "push" /\ pc' = "send" /\ todo' = clients
      /\ UNCHANGED <<added, first, grouped, delivered, pel, agent, handed>>
      /\ UNCHANGED <<turn, batch, ids, pushed, faults>>
      /\ UNCHANGED <<conn, alive, filter, pump, got, channel, excused>>
  BY DEF Broadcast, streamVars, clientVars, netVars, pumpVars, queueVars
<1>2. StreamTypes' /\ ClientTypes' /\ AckedIsPushed'
  BY <1>0, <1>1 DEF StreamTypes, ClientTypes, AckedIsPushed
<1>3. clients' = clients /\ clients \subseteq Clients
  BY <1>1 DEF clients
<1>4. RunTypes' /\ SendIsSafe'
  BY <1>0, <1>1, <1>3 DEF RunTypes, SendIsSafe
<1>5. RunInv'
  BY <1>0, <1>1 DEF RunInv
<1>6. QueueInv'
  <2>1. \A c \in Clients : \A e : Sendable(c, e) => Sendable(c, e)'
    BY <1>1 DEF Sendable
  <2>. QED
    BY <1>0, <1>1, <2>1, QueueKept
<1>7. VisitedInv'
  BY <1>1, <1>3 DEF VisitedInv
<1>8. NothingElseIsMissed'
  BY <1>0, <1>1, MissedKept
<1>. QED
  BY <1>2, <1>4, <1>5, <1>6, <1>7, <1>8, PushWhole

\* The acknowledgement keeps the invariant.
LEMMA AckInv == ASSUME PushInv, Ack PROVE PushInv'
<1>0. /\ ClientTypes /\ StreamTypes /\ RunTypes /\ SendIsSafe /\ AckedIsPushed
      /\ RunInv /\ QueueInv /\ VisitedInv /\ NothingElseIsMissed
  BY PushParts
<1>1. /\ pc = "ack" /\ pc' = "read" /\ ids' = {} /\ NextTurn
      /\ \/ pel' = [pel EXCEPT ![turn] = @ \ ids] /\ UNCHANGED faults
         \/ Fault /\ UNCHANGED pel
      /\ UNCHANGED <<added, first, grouped, delivered, agent, handed>>
      /\ UNCHANGED <<batch, todo, pushed>>
      /\ UNCHANGED <<conn, alive, filter, pump, got, channel, excused>>
  BY DEF Ack, clientVars, netVars, pumpVars, queueVars
<1>2. batch = <<>> /\ turn' \in Streams /\ todo = {}
  BY <1>0, <1>1, NextTurnType DEF RunInv
<1>3. faults' \in 0 .. MaxFaults
  BY <1>0, <1>1, FaultType
<1>4. \A i \in ids : <<turn, i>> \in pushed
  BY <1>0, <1>2 DEF RunInv
<1>5. StreamTypes' /\ ClientTypes' /\ SendIsSafe' /\ RunTypes'
  <2>1. pel' \in [Streams -> SUBSET Ids]
    BY <1>0, <1>1 DEF StreamTypes
  <2>. QED
    BY <1>0, <1>1, <1>2, <1>3, <2>1 DEF StreamTypes, ClientTypes, SendIsSafe, clients, RunTypes
<1>6. AckedIsPushed'
  <2>1. ASSUME NEW s \in Streams, NEW i \in handed[s] \ pel'[s]
        PROVE  <<s, i>> \in pushed
    <3>1. CASE i \in pel[s]
      <4>1. s = turn /\ i \in ids
        BY <1>0, <1>1, <2>1, <3>1 DEF StreamTypes
      <4>. QED
        BY <1>4, <4>1
    <3>2. CASE i \notin pel[s]
      BY <1>0, <2>1, <3>2 DEF AckedIsPushed
    <3>. QED
      BY <3>1, <3>2
  <2>. QED
    BY <1>1, <2>1 DEF AckedIsPushed
<1>7. RunInv'
  <2>1. Len(batch') = 0 /\ batch' = <<>> /\ ids' = {} /\ todo' = {}
    BY <1>1, <1>2
  <2>. QED
    BY <1>0, <1>1, <2>1 DEF RunInv
<1>8. QueueInv'
  <2>1. \A c \in Clients : \A e : Sendable(c, e) => Sendable(c, e)'
    BY <1>1, <1>2 DEF Sendable
  <2>. QED
    BY <1>0, <1>1, <2>1, QueueKept
<1>9. VisitedInv' /\ NothingElseIsMissed'
  <2>1. pc' # "send"
    BY <1>1
  <2>. QED
    BY <1>0, <1>1, <2>1, MissedKept DEF VisitedInv
<1>. QED
  BY <1>5, <1>6, <1>7, <1>8, <1>9, PushWhole

\* The message the broadcast is at.
LEMMA EventOfBatch ==
  ASSUME StreamTypes, RunTypes, RunInv, pc \in {"push", "send"}
  PROVE  /\ Event = <<turn, batch[1]>> /\ Event \in Entries
         /\ Len(batch) \in Nat /\ Len(batch) # 0 /\ batch[1] \in Nat
         /\ batch # <<>> /\ batch[1] <= delivered[turn] /\ turn \in Streams
<1>1. batch # <<>> /\ batch \in Seq(Ids) /\ turn \in Streams
  BY DEF RunInv, RunTypes
<1>2. /\ Head(batch) = batch[1] /\ 1 \in 1 .. Len(batch) /\ batch[1] \in Ids
      /\ Len(batch) \in Nat /\ Len(batch) # 0
  BY <1>1, EmptySeq, ElementOfSeq, HeadTailProperties
<1>3. batch[1] <= delivered[turn]
  BY <1>2 DEF RunInv
<1>4. batch[1] \in Nat
  BY <1>2 DEF Ids
<1>. QED
  BY <1>1, <1>2, <1>3, <1>4 DEF Event, Entries

\* A client is visited: it gets the event behind all it was sent of the stream,
\* or has no room, or did not ask for it.
LEMMA PushSendInv == ASSUME PushInv, NEW c \in Clients, Send(c) PROVE PushInv'
<1>0. /\ ClientTypes /\ StreamTypes /\ RunTypes /\ SendIsSafe /\ AckedIsPushed
      /\ RunInv /\ QueueInv /\ VisitedInv /\ NothingElseIsMissed
  BY PushParts
<1>1. PICK e : e = Event
  OBVIOUS
<1>2. /\ pc = "send" /\ c \in todo /\ todo' = todo \ {c}
      /\ \/ /\ Matches(c, e) /\ Len(channel[c]) < ChannelSize
            /\ channel' = [channel EXCEPT ![c] = Append(@, e)] /\ UNCHANGED excused
         \/ /\ excused' = [excused EXCEPT ![c] = @ \cup {e}] /\ UNCHANGED channel
         \/ ~Matches(c, e) /\ UNCHANGED <<channel, excused>>
      /\ UNCHANGED <<added, first, grouped, delivered, pel, agent, handed>>
      /\ UNCHANGED <<pc, turn, batch, ids, pushed, faults>>
      /\ UNCHANGED <<conn, alive, filter, pump, got>>
  BY <1>1 DEF Send, streamVars, netVars, pumpVars, queueVars
<1>3. /\ e = <<turn, batch[1]>> /\ e \in Entries /\ batch # <<>> /\ batch[1] \in Nat
      /\ batch[1] <= delivered[turn]
  BY <1>0, <1>1, <1>2, EventOfBatch
<1>4. Event' = e /\ clients' = clients
  BY <1>1, <1>2 DEF Event, clients
<1>5. StreamTypes' /\ AckedIsPushed' /\ RunTypes' /\ RunInv' /\ SendIsSafe'
  <2>1. StreamTypes' /\ AckedIsPushed' /\ RunTypes'
    BY <1>0, <1>2 DEF StreamTypes, AckedIsPushed, RunTypes
  <2>2. RunInv'
    BY <1>0, <1>2 DEF RunInv
  <2>3. SendIsSafe'
    BY <1>0, <1>2, <1>4 DEF SendIsSafe
  <2>. QED
    BY <2>1, <2>2, <2>3
<1>6. /\ got[c] \in Seq(Entries) /\ channel[c] \in Seq(Entries)
      /\ Range(got[c]) \subseteq Entries /\ Range(channel[c]) \subseteq Entries
  BY <1>0, SentAreEntries
<1>7. \A x \in Range(got[c]) \cup Range(channel[c]) : x[1] = turn => x[2] < batch[1]
  BY <1>0, <1>2, <1>3 DEF QueueInv, Sendable
<1>8. InOrder(channel[c]) /\ InOrder(got[c])
  BY <1>0 DEF QueueInv
<1>9. PICK q : q = Append(channel[c], e)
  OBVIOUS
<1>10. q \in Seq(Entries) /\ Len(q) = Len(channel[c]) + 1 /\ InOrder(q)
       /\ Range(q) = Range(channel[c]) \cup {e}
  <2>1. \A y \in Range(channel[c]) : y[1] = e[1] => y[2] < e[2]
    BY <1>3, <1>7
  <2>2. e \in Entries
    BY <1>3
  <2>. QED
    BY <1>6, <1>8, <1>9, <2>1, <2>2, AppendInOrder
<1>11. /\ \A d \in Clients : d # c => channel'[d] = channel[d] /\ excused'[d] = excused[d]
       /\ (channel'[c] = q /\ Len(channel[c]) < ChannelSize) \/ channel'[c] = channel[c]
       /\ excused'[c] \in {excused[c], excused[c] \cup {e}}
       /\ Matches(c, e) => e \in excused'[c] \cup Range(channel'[c])
       /\ channel' = [d \in Clients |-> channel'[d]]
       /\ excused' = [d \in Clients |-> excused'[d]]
  <2>1. /\ channel = [d \in Clients |-> channel[d]] /\ excused = [d \in Clients |-> excused[d]]
    BY <1>0 DEF ClientTypes
  <2>2. CASE /\ Matches(c, e) /\ Len(channel[c]) < ChannelSize
             /\ channel' = [channel EXCEPT ![c] = Append(@, e)] /\ UNCHANGED excused
    BY <1>9, <1>10, <2>1, <2>2
  <2>3. CASE excused' = [excused EXCEPT ![c] = @ \cup {e}] /\ UNCHANGED channel
    BY <2>1, <2>3
  <2>4. CASE ~Matches(c, e) /\ UNCHANGED <<channel, excused>>
    BY <2>1, <2>4
  <2>. QED
    BY <1>2, <2>2, <2>3, <2>4
<1>12. ClientTypes'
  <2>1. \A d \in Clients : channel'[d] \in Seq(Entries) /\ Len(channel'[d]) <= ChannelSize
    <3>1. \A d \in Clients : channel[d] \in Seq(Entries) /\ Len(channel[d]) <= ChannelSize
      BY <1>0 DEF ClientTypes
    <3>2. Len(channel[c]) \in Nat /\ ChannelSize \in Nat
      BY <1>6, LivePushAssumption
    <3>. QED
      BY <1>10, <1>11, <3>1, <3>2
  <2>2. \A d \in Clients : excused'[d] \in SUBSET Entries
    BY <1>0, <1>3, <1>11 DEF ClientTypes
  <2>3. /\ channel' \in [Clients -> Seq(Entries)] /\ excused' \in [Clients -> SUBSET Entries]
    BY <1>11, <2>1, <2>2
  <2>. QED
    BY <1>0, <1>2, <2>1, <2>3 DEF ClientTypes
<1>13. QueueInv'
  <2>1. ASSUME NEW d \in Clients
        PROVE  /\ InOrder(got[d])
               /\ InOrder(channel'[d])
               /\ \A x \in Range(got[d]) : \A y \in Range(channel'[d]) :
                     x[1] = y[1] => x[2] < y[2]
               /\ \A x \in Range(got[d]) \cup Range(channel'[d]) : Sendable(d, x)'
    <3>1. /\ InOrder(got[d]) /\ InOrder(channel[d])
          /\ \A x \in Range(got[d]) : \A y \in Range(channel[d]) : x[1] = y[1] => x[2] < y[2]
          /\ \A x \in Range(got[d]) \cup Range(channel[d]) : Sendable(d, x)
      BY <1>0 DEF QueueInv
    <3>2. \A x : Sendable(d, x) => Sendable(d, x)'
      BY <1>2 DEF Sendable
    <3>3. CASE channel'[d] = channel[d]
      BY <3>1, <3>2, <3>3
    <3>4. CASE d = c /\ channel'[d] = q
      <4>1. \A x \in Range(got[d]) : x[1] = e[1] => x[2] < e[2]
        BY <1>3, <1>7, <3>4
      <4>2. Sendable(c, e)'
        BY <1>2, <1>3 DEF Sendable
      <4>. QED
        BY <1>10, <3>1, <3>2, <3>4, <4>1, <4>2
    <3>. QED
      BY <1>11, <3>3, <3>4
  <2>. QED
    BY <1>2, <2>1 DEF QueueInv
<1>14. \A d \in Clients : /\ Range(channel[d]) \subseteq Range(channel'[d])
                         /\ excused[d] \subseteq excused'[d]
                         /\ \A x : Matches(d, x)' <=> Matches(d, x)
  BY <1>2, <1>10, <1>11 DEF Matches
<1>15. VisitedInv'
  <2>1. ASSUME NEW d \in clients \ todo', alive[d], Matches(d, e)
        PROVE  e \in excused'[d] \cup Range(got[d]) \cup Range(channel'[d])
    <3>1. d \in Clients
      BY DEF clients
    <3>2. CASE d = c
      BY <1>11, <2>1, <3>2
    <3>3. CASE d # c
      <4>1. d \in clients \ todo
        BY <1>2, <2>1, <3>3
      <4>2. e \in excused[d] \cup Range(got[d]) \cup Range(channel[d])
        BY <1>0, <1>1, <1>2, <2>1, <4>1 DEF VisitedInv
      <4>. QED
        BY <1>14, <3>1, <4>2
    <3>. QED
      BY <3>2, <3>3
  <2>2. clients \subseteq Clients
    BY DEF clients
  <2>. QED
    BY <1>2, <1>4, <1>14, <2>1, <2>2 DEF VisitedInv
<1>16. NothingElseIsMissed'
  <2>1. clients \subseteq Clients
    BY DEF clients
  <2>. QED
    BY <1>0, <1>2, <1>4, <1>14, <2>1 DEF NothingElseIsMissed
<1>. QED
  BY <1>5, <1>12, <1>13, <1>15, <1>16, PushWhole

\* All are visited, and the batch goes on behind the message.
LEMMA SentInv == ASSUME PushInv, Sent PROVE PushInv'
<1>0. /\ ClientTypes /\ StreamTypes /\ RunTypes /\ SendIsSafe /\ AckedIsPushed
      /\ RunInv /\ QueueInv /\ VisitedInv /\ NothingElseIsMissed
  BY PushParts
<1>1. PICK e : e = Event
  OBVIOUS
<1>2. /\ pc = "send" /\ todo = {} /\ pushed' = pushed \cup {e} /\ batch' = Tail(batch)
      /\ pc' = IF Len(batch) = 1 THEN "ack" ELSE "push"
      /\ UNCHANGED <<added, first, grouped, delivered, pel, agent, handed>>
      /\ UNCHANGED <<turn, ids, todo, faults>>
      /\ UNCHANGED <<conn, alive, filter, pump, got, channel, excused>>
  BY <1>1 DEF Sent, streamVars, clientVars, netVars, pumpVars, queueVars
<1>3. /\ e = <<turn, batch[1]>> /\ e \in Entries /\ batch # <<>> /\ batch[1] \in Nat
      /\ batch[1] <= delivered[turn] /\ Len(batch) \in Nat /\ Len(batch) # 0
  BY <1>0, <1>1, <1>2, EventOfBatch
<1>4. /\ batch' \in Seq(Ids) /\ Len(batch') = Len(batch) - 1
      /\ \A k \in 1 .. Len(batch') : batch'[k] = batch[k + 1]
      /\ batch' # <<>> <=> Len(batch') # 0
  <2>1. batch \in Seq(Ids)
    BY <1>0 DEF RunTypes
  <2>2. /\ Tail(batch) \in Seq(Ids) /\ Len(Tail(batch)) = Len(batch) - 1
        /\ \A k \in 1 .. (Len(batch) - 1) : Tail(batch)[k] = batch[k + 1]
        /\ Tail(batch) = <<>> <=> Len(batch) = 1
    BY <1>3, <2>1, RestOfRun
  <2>. QED
    BY <1>2, <1>3, <2>2
<1>5. StreamTypes' /\ ClientTypes' /\ SendIsSafe'
  BY <1>0, <1>2 DEF StreamTypes, ClientTypes, SendIsSafe, clients
<1>6. RunTypes' /\ AckedIsPushed'
  BY <1>0, <1>2, <1>3, <1>4 DEF RunTypes, AckedIsPushed
<1>7. \A k \in 1 .. Len(batch) : batch[k] = batch[1] + k - 1 /\ batch[k] <= delivered[turn]
  BY <1>0 DEF RunInv
<1>8. Len(batch') # 0 => batch'[1] = batch[1] + 1
  <2>1. SUFFICES ASSUME Len(batch') # 0 PROVE batch'[1] = batch[1] + 1
    OBVIOUS
  <2>2. 1 \in 1 .. Len(batch') /\ 2 \in 1 .. Len(batch)
    BY <1>3, <1>4, <2>1
  <2>3. batch'[1] = batch[2] /\ batch[2] = batch[1] + 2 - 1
    BY <1>4, <1>7, <2>2
  <2>. QED
    BY <1>3, <2>3
<1>9. RunInv'
  <2>1. \A k \in 1 .. Len(batch') :
           batch'[k] = batch'[1] + k - 1 /\ batch'[k] <= delivered'[turn']
    <3>1. SUFFICES ASSUME NEW k \in 1 .. Len(batch')
                   PROVE  batch'[k] = batch'[1] + k - 1 /\ batch'[k] <= delivered'[turn']
      OBVIOUS
    <3>2. k + 1 \in 1 .. Len(batch) /\ k \in Nat /\ Len(batch') # 0
      BY <1>3, <1>4
    <3>3. batch'[k] = batch[k + 1]
      BY <1>4
    <3>4. batch[k + 1] = batch[1] + (k + 1) - 1 /\ batch[k + 1] <= delivered[turn]
      BY <1>7, <3>2
    <3>. QED
      BY <1>2, <1>3, <1>8, <3>2, <3>3, <3>4
  <2>2. pc' \in {"push", "send"} <=> batch' # <<>>
    BY <1>2, <1>3, <1>4
  <2>3. ASSUME NEW i \in ids'
        PROVE  <<turn', i>> \in pushed' \/ \E k \in 1 .. Len(batch') : batch'[k] = i
    <3>1. CASE <<turn, i>> \in pushed
      BY <1>2, <3>1
    <3>2. CASE \E k \in 1 .. Len(batch) : batch[k] = i
      <4>1. PICK k \in 1 .. Len(batch) : batch[k] = i
        BY <3>2
      <4>2. CASE k = 1
        BY <1>2, <1>3, <4>1, <4>2
      <4>3. CASE k # 1
        <5>1. k - 1 \in 1 .. Len(batch') /\ batch'[k - 1] = batch[k]
          BY <1>3, <1>4, <4>1, <4>3
        <5>. QED
          BY <4>1, <5>1
      <4>. QED
        BY <4>2, <4>3
    <3>. QED
      BY <1>0, <1>2, <2>3, <3>1, <3>2 DEF RunInv
  <2>4. \A x \in pushed' : x[2] <= delivered'[x[1]]
    BY <1>0, <1>2, <1>3 DEF RunInv
  <2>5. pc' \notin {"down", "read"}
    BY <1>2
  <2>. QED
    BY <1>0, <1>2, <2>1, <2>2, <2>3, <2>4, <2>5 DEF RunInv
<1>10. QueueInv'
  <2>1. ASSUME NEW c \in Clients, NEW x \in Range(got[c]) \cup Range(channel[c]), Sendable(c, x)
        PROVE  Sendable(c, x)'
    <3>1. x \in Entries /\ x[2] \in Nat
      BY <1>0, SentAreEntries DEF Entries, Ids
    <3>2. x[1] = turn /\ Len(batch') # 0 => x[2] < batch'[1]
      BY <1>3, <1>8, <2>1, <3>1 DEF Sendable
    <3>. QED
      BY <1>2, <1>4, <2>1, <3>2 DEF Sendable
  <2>. QED
    BY <1>0, <1>2, <2>1, QueueKept
<1>11. VisitedInv'
  BY <1>2 DEF VisitedInv
<1>12. NothingElseIsMissed'
  <2>1. ASSUME NEW c \in clients, alive[c], Matches(c, e), e \notin excused[c]
        PROVE  e \in Range(got[c]) \cup Range(channel[c])
    BY <1>0, <1>1, <1>2, <2>1 DEF VisitedInv
  <2>. QED
    BY <1>0, <1>2, <2>1 DEF NothingElseIsMissed, clients, Matches
<1>. QED
  BY <1>5, <1>6, <1>9, <1>10, <1>11, <1>12, PushWhole

-----------------------------------------------------------------------------
(* Connections                                                             *)

\* Between two broadcasts a client comes, to which all that was broadcast is
\* not owed.
LEMMA RegisterInv == ASSUME PushInv, NEW c \in Clients, Register(c) PROVE PushInv'
<1>0. /\ ClientTypes /\ StreamTypes /\ RunTypes /\ SendIsSafe /\ AckedIsPushed
      /\ RunInv /\ QueueInv /\ VisitedInv /\ NothingElseIsMissed
  BY PushParts
<1>1. /\ pc # "send" /\ conn' = [conn EXCEPT ![c] = "reading"]
      /\ \E a \in Names : filter' = [filter EXCEPT ![c] = a]
      /\ excused' = [excused EXCEPT ![c] = pushed]
      /\ pump' = [pump EXCEPT ![c] = "run"]
      /\ UNCHANGED <<added, first, grouped, delivered, pel, agent, handed>>
      /\ UNCHANGED <<pc, turn, batch, ids, todo, pushed, faults>>
      /\ UNCHANGED <<alive, got, channel>>
  BY DEF Register, Unlocked, Enter, streamVars, runVars
<1>2. StreamTypes' /\ RunTypes' /\ AckedIsPushed' /\ RunInv'
  <2>1. StreamTypes' /\ RunTypes' /\ AckedIsPushed'
    BY <1>0, <1>1 DEF StreamTypes, RunTypes, AckedIsPushed
  <2>2. RunInv'
    BY <1>0, <1>1 DEF RunInv
  <2>. QED
    BY <2>1, <2>2
<1>3. ClientTypes'
  <2>1. /\ conn' \in [Clients -> {"new", "reading", "done"}]
        /\ filter' \in [Clients -> Names]
        /\ excused' \in [Clients -> SUBSET Entries]
        /\ pump' \in [Clients -> {"none", "run", "ended"}]
    BY <1>0, <1>1 DEF ClientTypes, RunTypes
  <2>. QED
    BY <1>0, <1>1, <2>1 DEF ClientTypes
<1>4. todo = {} /\ SendIsSafe'
  BY <1>0, <1>1 DEF RunInv, SendIsSafe
<1>5. QueueInv'
  <2>1. \A d \in Clients : \A e : Sendable(d, e) => Sendable(d, e)'
    BY <1>1 DEF Sendable
  <2>. QED
    BY <1>0, <1>1, <2>1, QueueKept
<1>6. VisitedInv'
  BY <1>1 DEF VisitedInv
<1>7. NothingElseIsMissed'
  <2>1. ASSUME NEW d \in clients', alive'[d], NEW e \in pushed' \ excused'[d], Matches(d, e)'
        PROVE  e \in Range(got'[d]) \cup Range(channel'[d])
    <3>1. d \in Clients
      BY DEF clients
    <3>2. d # c
      BY <1>0, <1>1, <2>1, <3>1 DEF ClientTypes
    <3>3. d \in clients /\ excused'[d] = excused[d] /\ Matches(d, e)
      BY <1>0, <1>1, <2>1, <3>1, <3>2 DEF ClientTypes, clients, Matches
    <3>. QED
      BY <1>0, <1>1, <2>1, <3>3 DEF NothingElseIsMissed
  <2>. QED
    BY <2>1 DEF NothingElseIsMissed
<1>. QED
  BY <1>2, <1>3, <1>4, <1>5, <1>6, <1>7, PushWhole

\* A connection that ends keeps the invariant.
LEMMA BreakInv == ASSUME PushInv, NEW c \in Clients, Break(c) PROVE PushInv'
<1>0. /\ ClientTypes /\ StreamTypes /\ RunTypes /\ SendIsSafe /\ AckedIsPushed
      /\ RunInv /\ QueueInv /\ VisitedInv /\ NothingElseIsMissed
  BY PushParts
<1>1. /\ alive' = [alive EXCEPT ![c] = FALSE]
      /\ UNCHANGED <<added, first, grouped, delivered, pel, agent, handed>>
      /\ UNCHANGED <<pc, turn, batch, ids, todo, pushed, faults>>
      /\ UNCHANGED <<conn, filter, pump, got, channel, excused>>
  BY DEF Break, streamVars, runVars, pumpVars, queueVars
<1>2. clients' = clients /\ clients \subseteq Clients /\ Event' = Event
  BY <1>1 DEF clients, Event
<1>3. /\ \A d \in Clients : alive'[d] => alive[d]
      /\ \A d, e : Matches(d, e)' <=> Matches(d, e)
  BY <1>0, <1>1 DEF ClientTypes, Matches
<1>4. StreamTypes' /\ RunTypes' /\ AckedIsPushed' /\ SendIsSafe'
  BY <1>0, <1>1, <1>2 DEF StreamTypes, RunTypes, AckedIsPushed, SendIsSafe
<1>5. RunInv'
  BY <1>0, <1>1 DEF RunInv
<1>6. ClientTypes'
  BY <1>0, <1>1 DEF ClientTypes
<1>7. QueueInv'
  <2>1. \A d \in Clients : \A e : Sendable(d, e) => Sendable(d, e)'
    BY <1>1 DEF Sendable
  <2>. QED
    BY <1>0, <1>1, <2>1, QueueKept
<1>8. VisitedInv'
  BY <1>0, <1>1, <1>2, <1>3 DEF VisitedInv
<1>9. NothingElseIsMissed'
  BY <1>0, <1>1, <1>2, <1>3 DEF NothingElseIsMissed
<1>. QED
  BY <1>4, <1>5, <1>6, <1>7, <1>8, <1>9, PushWhole

\* Between two broadcasts a client goes; what waits for it stays in order.
LEMMA UnregisterInv == ASSUME PushInv, NEW c \in Clients, Unregister(c) PROVE PushInv'
<1>0. /\ ClientTypes /\ StreamTypes /\ RunTypes /\ SendIsSafe /\ AckedIsPushed
      /\ RunInv /\ QueueInv /\ VisitedInv /\ NothingElseIsMissed
  BY PushParts
<1>1. /\ pc # "send" /\ conn' = [conn EXCEPT ![c] = "done"]
      /\ filter' = [d \in Clients |-> IF d = c THEN NoAgent ELSE filter[d]]
      /\ got' = [d \in Clients |-> IF d = c THEN <<>> ELSE got[d]]
      /\ excused' = [d \in Clients |-> IF d = c THEN {} ELSE excused[d]]
      /\ UNCHANGED <<added, first, grouped, delivered, pel, agent, handed>>
      /\ UNCHANGED <<pc, turn, batch, ids, todo, pushed, faults>>
      /\ UNCHANGED <<alive, pump, channel>>
  BY DEF Unregister, Unlocked, Leave, Forget, streamVars, runVars
<1>2. StreamTypes' /\ RunTypes' /\ AckedIsPushed' /\ RunInv'
  <2>1. StreamTypes' /\ RunTypes' /\ AckedIsPushed'
    BY <1>0, <1>1 DEF StreamTypes, RunTypes, AckedIsPushed
  <2>2. RunInv'
    BY <1>0, <1>1 DEF RunInv
  <2>. QED
    BY <2>1, <2>2
<1>3. ClientTypes'
  <2>1. /\ conn' \in [Clients -> {"new", "reading", "done"}]
        /\ filter' \in [Clients -> Names]
    BY <1>0, <1>1 DEF ClientTypes, Names
  <2>2. got' \in [Clients -> Seq(Entries)] /\ excused' \in [Clients -> SUBSET Entries]
    BY <1>0, <1>1 DEF ClientTypes
  <2>. QED
    BY <1>0, <1>1, <2>1, <2>2 DEF ClientTypes
<1>4. SendIsSafe'
  BY <1>0, <1>1 DEF RunInv, SendIsSafe
<1>5. QueueInv'
  <2>1. \A d \in Clients : \A e : Sendable(d, e) => Sendable(d, e)'
    BY <1>1 DEF Sendable
  <2>2. \A d \in Clients : got'[d] = got[d] \/ got'[d] = <<>>
    BY <1>1
  <2>3. InOrder(<<>>) /\ Range(<<>>) = {}
    BY DEF InOrder, Range
  <2>4. \A d \in Clients : InOrder(got'[d]) /\ Range(got'[d]) \subseteq Range(got[d])
    BY <1>0, <2>2, <2>3 DEF QueueInv
  <2>. QED
    BY <1>0, <1>1, <2>1, <2>4 DEF QueueInv
<1>6. VisitedInv'
  BY <1>1 DEF VisitedInv
<1>7. NothingElseIsMissed'
  <2>1. ASSUME NEW d \in clients', alive'[d], NEW e \in pushed' \ excused'[d], Matches(d, e)'
        PROVE  e \in Range(got'[d]) \cup Range(channel'[d])
    <3>1. d \in Clients /\ conn'[d] = "reading"
      BY DEF clients
    <3>2. d # c
      BY <1>0, <1>1, <3>1 DEF ClientTypes
    <3>3. d \in clients /\ excused'[d] = excused[d] /\ Matches(d, e) /\ got'[d] = got[d]
      BY <1>0, <1>1, <2>1, <3>1, <3>2 DEF ClientTypes, clients, Matches
    <3>. QED
      BY <1>0, <1>1, <2>1, <3>3 DEF NothingElseIsMissed
  <2>. QED
    BY <2>1 DEF NothingElseIsMissed
<1>. QED
  BY <1>2, <1>3, <1>4, <1>5, <1>6, <1>7, PushWhole

\* A message goes from the channel to the browser, or is lost with the connection.
LEMMA PumpOneInv == ASSUME PushInv, NEW c \in Clients, PumpOne(c) PROVE PushInv'
<1>0. /\ ClientTypes /\ StreamTypes /\ RunTypes /\ SendIsSafe /\ AckedIsPushed
      /\ RunInv /\ QueueInv /\ VisitedInv /\ NothingElseIsMissed
  BY PushParts
<1>1. PICK e, q : e = Head(channel[c]) /\ q = Tail(channel[c])
  OBVIOUS
<1>2. /\ channel[c] # <<>> /\ channel' = [channel EXCEPT ![c] = q]
      /\ \/ got' = [got EXCEPT ![c] = Append(@, e)] /\ UNCHANGED pump
         \/ ~alive[c] /\ got' = got /\ pump' \in {pump, [pump EXCEPT ![c] = "ended"]}
      /\ UNCHANGED <<added, first, grouped, delivered, pel, agent, handed>>
      /\ UNCHANGED <<pc, turn, batch, ids, todo, pushed, faults>>
      /\ UNCHANGED <<conn, alive, filter, excused>>
  BY <1>1 DEF PumpOne, Stop, streamVars, runVars, netVars, pumpVars
<1>3. /\ got[c] \in Seq(Entries) /\ channel[c] \in Seq(Entries)
      /\ Range(got[c]) \subseteq Entries /\ Range(channel[c]) \subseteq Entries
  BY <1>0, SentAreEntries
<1>4. /\ InOrder(got[c]) /\ InOrder(channel[c])
      /\ \A x \in Range(got[c]) : \A y \in Range(channel[c]) : x[1] = y[1] => x[2] < y[2]
  BY <1>0 DEF QueueInv
<1>5. /\ q \in Seq(Entries) /\ Len(q) = Len(channel[c]) - 1 /\ InOrder(q) /\ e \in Entries
      /\ Range(channel[c]) = Range(q) \cup {e}
      /\ \A y \in Range(q) : e[1] = y[1] => e[2] < y[2]
  BY <1>1, <1>2, <1>3, <1>4, TailInOrder
<1>6. PICK p : p = Append(got[c], e)
  OBVIOUS
<1>7. p \in Seq(Entries) /\ InOrder(p) /\ Range(p) = Range(got[c]) \cup {e}
  <2>1. \A y \in Range(got[c]) : y[1] = e[1] => y[2] < e[2]
    BY <1>4, <1>5
  <2>. QED
    BY <1>3, <1>4, <1>5, <1>6, <2>1, AppendInOrder
<1>8. /\ \A d \in Clients : d # c => channel'[d] = channel[d] /\ got'[d] = got[d]
      /\ channel'[c] = q
      /\ got'[c] = p \/ (got'[c] = got[c] /\ ~alive[c])
      /\ channel' = [d \in Clients |-> channel'[d]]
      /\ got' = [d \in Clients |-> got'[d]]
  <2>1. channel = [d \in Clients |-> channel[d]] /\ got = [d \in Clients |-> got[d]]
    BY <1>0 DEF ClientTypes
  <2>. QED
    BY <1>2, <1>6, <2>1
<1>9. StreamTypes' /\ RunTypes' /\ AckedIsPushed' /\ SendIsSafe'
  BY <1>0, <1>2 DEF StreamTypes, RunTypes, AckedIsPushed, SendIsSafe, clients
<1>10. RunInv'
  BY <1>0, <1>2 DEF RunInv
<1>11. ClientTypes'
  <2>1. \A d \in Clients : channel'[d] \in Seq(Entries) /\ Len(channel'[d]) <= ChannelSize
    <3>1. \A d \in Clients : channel[d] \in Seq(Entries) /\ Len(channel[d]) <= ChannelSize
      BY <1>0 DEF ClientTypes
    <3>2. Len(channel[c]) \in Nat /\ ChannelSize \in Nat
      BY <1>3, LivePushAssumption
    <3>. QED
      BY <1>5, <1>8, <3>1, <3>2
  <2>2. \A d \in Clients : got'[d] \in Seq(Entries)
    BY <1>0, <1>7, <1>8 DEF ClientTypes
  <2>3. channel' \in [Clients -> Seq(Entries)] /\ got' \in [Clients -> Seq(Entries)]
    BY <1>8, <2>1, <2>2
  <2>4. pump' \in [Clients -> {"none", "run", "ended"}]
    BY <1>0, <1>2 DEF ClientTypes
  <2>. QED
    BY <1>0, <1>2, <2>1, <2>3, <2>4 DEF ClientTypes
<1>12. ASSUME NEW d \in Clients
       PROVE  /\ InOrder(got'[d]) /\ InOrder(channel'[d])
              /\ \A x \in Range(got'[d]) : \A y \in Range(channel'[d]) :
                    x[1] = y[1] => x[2] < y[2]
              /\ Range(got'[d]) \cup Range(channel'[d])
                    \subseteq Range(got[d]) \cup Range(channel[d])
              /\ alive[d] => Range(got[d]) \cup Range(channel[d])
                               \subseteq Range(got'[d]) \cup Range(channel'[d])
  <2>1. CASE d # c
    BY <1>0, <1>8, <2>1 DEF QueueInv
  <2>2. CASE d = c /\ got'[c] = p
    BY <1>4, <1>5, <1>7, <1>8, <2>2
  <2>3. CASE d = c /\ got'[c] = got[c] /\ ~alive[c]
    BY <1>4, <1>5, <1>8, <2>3
  <2>. QED
    BY <1>8, <2>1, <2>2, <2>3
<1>13. QueueInv'
  <2>1. \A d \in Clients : \A x : Sendable(d, x) => Sendable(d, x)'
    BY <1>2 DEF Sendable
  <2>. QED
    BY <1>0, <1>12, <2>1 DEF QueueInv
<1>14. /\ clients' = clients /\ clients \subseteq Clients /\ Event' = Event
       /\ \A d, x : Matches(d, x)' <=> Matches(d, x)
  BY <1>2 DEF clients, Event, Matches
<1>15. VisitedInv'
  BY <1>0, <1>2, <1>12, <1>14 DEF VisitedInv
<1>16. NothingElseIsMissed'
  BY <1>0, <1>2, <1>12, <1>14 DEF NothingElseIsMissed
<1>. QED
  BY <1>9, <1>10, <1>11, <1>13, <1>15, <1>16, PushWhole

\* A step that changes at most whether a pump runs.
LEMMA PumpStopsInv ==
  ASSUME PushInv,
         pump' = pump \/ \E c \in Clients : pump' = [pump EXCEPT ![c] = "ended"],
         UNCHANGED <<streamVars, runVars, netVars, got, queueVars, faults>>
  PROVE  PushInv'
<1>0. /\ ClientTypes /\ StreamTypes /\ RunTypes /\ SendIsSafe /\ AckedIsPushed
      /\ RunInv /\ QueueInv /\ VisitedInv /\ NothingElseIsMissed
  BY PushParts
<1>1. /\ UNCHANGED <<added, first, grouped, delivered, pel, agent, handed>>
      /\ UNCHANGED <<pc, turn, batch, ids, todo, pushed, faults>>
      /\ UNCHANGED <<conn, alive, filter, got, channel, excused>>
  BY DEF streamVars, runVars, netVars, queueVars
<1>2. StreamTypes' /\ RunTypes' /\ AckedIsPushed' /\ SendIsSafe'
  BY <1>0, <1>1 DEF StreamTypes, RunTypes, AckedIsPushed, SendIsSafe, clients
<1>3. ClientTypes'
  <2>1. pump' \in [Clients -> {"none", "run", "ended"}]
    BY <1>0 DEF ClientTypes
  <2>. QED
    BY <1>0, <1>1, <2>1 DEF ClientTypes
<1>4. RunInv' /\ VisitedInv'
  <2>1. RunInv'
    BY <1>0, <1>1 DEF RunInv
  <2>2. /\ clients' = clients /\ Event' = Event /\ \A d, e : Matches(d, e)' <=> Matches(d, e)
    BY <1>1 DEF clients, Event, Matches
  <2>3. VisitedInv'
    BY <1>0, <1>1, <2>2 DEF VisitedInv
  <2>. QED
    BY <2>1, <2>3
<1>5. QueueInv'
  <2>1. \A d \in Clients : \A e : Sendable(d, e) => Sendable(d, e)'
    BY <1>1 DEF Sendable
  <2>. QED
    BY <1>0, <1>1, <2>1, QueueKept
<1>6. NothingElseIsMissed'
  BY <1>0, <1>1, MissedKept
<1>. QED
  BY <1>2, <1>3, <1>4, <1>5, <1>6, PushWhole

-----------------------------------------------------------------------------
LEMMA PushStepInv == PushInv /\ [PushNext]_pushVars => PushInv'
<1>. SUFFICES ASSUME PushInv, [PushNext]_pushVars PROVE PushInv'
  OBVIOUS
<1>1. ASSUME NEW s \in Streams, Publish(s) PROVE PushInv'
  BY <1>1, PublishInv
<1>2. CASE Start \/ Kill
  BY <1>2, BackendStartInv, KillInv
<1>3. CASE RunStep
  BY <1>3, ReadInv, ReadNothingInv, BroadcastInv, SentInv, AckInv, PushSendInv DEF RunStep
<1>4. ASSUME NEW c \in Clients, Register(c) \/ Break(c) \/ Unregister(c) PROVE PushInv'
  BY <1>4, RegisterInv, BreakInv, UnregisterInv
<1>5. ASSUME NEW c \in Clients, PumpStep(c) PROVE PushInv'
  <2>1. CASE PumpOne(c)
    BY <2>1, PumpOneInv
  <2>2. CASE PingFails(c) \/ PumpEnds(c)
    BY <2>2, PumpStopsInv DEF PingFails, PumpEnds, Stop
  <2>. QED
    BY <1>5, <2>1, <2>2 DEF PumpStep
<1>6. CASE UNCHANGED pushVars
  <2>1. UNCHANGED pump /\ UNCHANGED <<streamVars, runVars, netVars, got, queueVars, faults>>
    BY <1>6 DEF pushVars, clientVars, pumpVars
  <2>. QED
    BY <2>1, PumpStopsInv
<1>. QED
  BY <1>1, <1>2, <1>3, <1>4, <1>5, <1>6 DEF PushNext

\* The invariant holds of every behaviour.
LEMMA PushInvariance == PushSpec => []PushInv
BY PushInitInv, PushStepInv, PTL DEF PushSpec

\* No broadcast sends on a closed channel, and no entry is acknowledged before
\* it was offered to every client.
THEOREM PushersAgree == PushSpec => []DeliveriesAgree
<1>1. PushInv => DeliveriesAgree
  BY DEF PushInv
<1>. QED
  BY <1>1, PushInvariance, PTL

\* A browser receives the events of a stream in order and each at most once.
THEOREM BrowsersReceiveInOrder == PushSpec => []ReceivedInOrder
<1>1. PushInv => ReceivedInOrder
  <2>. SUFFICES ASSUME PushInv, NEW c \in Clients PROVE InOrder(got[c] \o channel[c])
    BY DEF ReceivedInOrder
  <2>1. got[c] \in Seq(Entries) /\ channel[c] \in Seq(Entries)
    BY PushParts, SentAreEntries
  <2>2. /\ InOrder(got[c]) /\ InOrder(channel[c])
        /\ \A x \in Range(got[c]) : \A y \in Range(channel[c]) : x[1] = y[1] => x[2] < y[2]
    BY PushParts DEF QueueInv
  <2>. QED
    BY <2>1, <2>2, ConcatInOrder
<1>. QED
  BY <1>1, PushInvariance, PTL

\* Connecting and disconnecting clients cost no other client an event.
THEOREM BrowsersMissNothingElse == PushSpec => []NothingElseIsMissed
<1>1. PushInv => NothingElseIsMissed
  BY DEF PushInv
<1>. QED
  BY <1>1, PushInvariance, PTL

=============================================================================
