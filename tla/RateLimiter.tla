---------------------------- MODULE RateLimiter ----------------------------
(***************************************************************************)
(* The gateway's rate limiter (internal/gateway/ratelimit): one token      *)
(* bucket per agent in a sync.Map, used by the handlers' goroutines, and a *)
(* cleaner that removes the buckets idle for five minutes.                 *)
(*                                                                         *)
(* Tokens are counted in units small enough that a bucket gains one unit   *)
(* per tick of the clock; a request costs Cost units.  The clock is the    *)
(* monotonic one of time.Now, and goroutines may stall for any time.       *)
(***************************************************************************)
EXTENDS Integers

CONSTANTS
    Agents,
    Handlers,    \* goroutines that may be inside Allow at the same time
    NoAgent,     \* not an agent
    Cost,        \* units of one request
    Full,        \* maxTokens, in units
    IdleTicks,   \* the cleaner's age limit
    MaxBuckets,  \* bound on the buckets ever made
    MaxTime      \* bound on the clock

\* An idle bucket has the time to fill up (5 minutes, against 10 seconds).
ASSUME RateLimiterAssumption ==
    /\ NoAgent \notin Agents
    /\ Cost \in Nat \ {0}
    /\ Full \in Nat \ {0}
    /\ IdleTicks \in Nat
    /\ Full <= IdleTicks
    /\ MaxBuckets \in Nat
    /\ MaxTime \in Nat

Buckets == 1 .. MaxBuckets
NoBucket == 0

VARIABLES
    now,        \* the clock
    made,       \* buckets made so far
    tokens,     \* per bucket
    last,       \* lastRefill, per bucket
    key,        \* Limiter.buckets: an agent's bucket, or NoBucket
    agent,      \* the agent a handler's request comes from
    held,       \* the bucket a handler got from LoadOrStore, or NoBucket
    verdict,    \* what Allow last returned to a handler
    cutoff,     \* the cleaner's cutoff
    unvisited,  \* keys Range may still visit
    condemned,  \* the agent whose bucket was found idle, or NoAgent
    \* observability only
    credit,     \* what an ideal bucket of the agent would hold, below 0 if it
                \* would not have admitted all that was admitted
    slack       \* what removals gave away: the units a removed bucket lacked,
                \* and the requests admitted by a bucket already removed

bucketVars  == <<made, tokens, last, key>>
handlerVars == <<agent, held, verdict>>
cleanerVars == <<cutoff, unvisited, condemned>>
ghostVars   == <<credit, slack>>
limiterVars == <<now, bucketVars, handlerVars, cleanerVars, ghostVars>>

AtMost(n, bound) == IF n < bound THEN n ELSE bound

\* What allow finds in bucket b.
Level(b) == AtMost(tokens[b] + (now - last[b]), Full)

LimiterInit ==
    /\ now = 0
    /\ made = 0
    /\ tokens = [b \in Buckets |-> Full]
    /\ last = [b \in Buckets |-> 0]
    /\ key = [a \in Agents |-> NoBucket]
    /\ agent = [h \in Handlers |-> NoAgent]
    /\ held = [h \in Handlers |-> NoBucket]
    /\ verdict = [h \in Handlers |-> FALSE]
    /\ cutoff = -IdleTicks
    /\ unvisited = {}
    /\ condemned = NoAgent
    /\ credit = [a \in Agents |-> Full]
    /\ slack = [a \in Agents |-> 0]

Tick ==
    /\ now < MaxTime
    /\ now' = now + 1
    /\ credit' = [a \in Agents |-> AtMost(credit[a] + 1, Full)]
    /\ UNCHANGED <<bucketVars, handlerVars, cleanerVars, slack>>

\* Mutant of LoadOrStore: the new bucket is always stored.
StoreNew(h, a) ==
    /\ held[h] = NoBucket
    /\ made < MaxBuckets
    /\ agent' = [agent EXCEPT ![h] = a]
    /\ made' = made + 1
    /\ tokens' = [tokens EXCEPT ![made'] = Full]
    /\ last' = [last EXCEPT ![made'] = now]
    /\ key' = [key EXCEPT ![a] = made']
    /\ held' = [held EXCEPT ![h] = made']
    /\ UNCHANGED <<now, verdict, cleanerVars, ghostVars>>

\* LoadOrStore: the agent's bucket, or a new one stored in the same step.
LoadOrStore(h, a) ==
    /\ held[h] = NoBucket
    /\ agent' = [agent EXCEPT ![h] = a]
    /\ \/ /\ key[a] # NoBucket
          /\ held' = [held EXCEPT ![h] = key[a]]
          /\ UNCHANGED bucketVars
       \/ /\ key[a] = NoBucket
          /\ made < MaxBuckets
          /\ made' = made + 1
          /\ tokens' = [tokens EXCEPT ![made'] = Full]
          /\ last' = [last EXCEPT ![made'] = now]
          /\ key' = [key EXCEPT ![a] = made']
          /\ held' = [held EXCEPT ![h] = made']
    /\ UNCHANGED <<now, verdict, cleanerVars, ghostVars>>

\* Mutant of Allow: a refused request forgets the units gained so far.
AllowForgetful(h) ==
    LET b == held[h]
        a == agent[h]
        admitted == Level(b) >= Cost
    IN  /\ b # NoBucket
        /\ last' = [last EXCEPT ![b] = now]
        /\ verdict' = [verdict EXCEPT ![h] = admitted]
        /\ tokens' = [tokens EXCEPT ![b] =
              IF admitted THEN Level(b) - Cost ELSE @]
        /\ credit' = [credit EXCEPT ![a] = IF admitted THEN @ - Cost ELSE @]
        /\ held' = [held EXCEPT ![h] = NoBucket]
        /\ UNCHANGED <<now, made, key, agent, cleanerVars, slack>>

\* bucket.allow, under the bucket's mutex.
Allow(h) ==
    LET b == held[h]
        a == agent[h]
        admitted == Level(b) >= Cost
    IN  /\ b # NoBucket
        /\ last' = [last EXCEPT ![b] = now]
        /\ verdict' = [verdict EXCEPT ![h] = admitted]
        /\ tokens' = [tokens EXCEPT ![b] =
              IF admitted THEN Level(b) - Cost ELSE Level(b)]
        /\ credit' = [credit EXCEPT ![a] = IF admitted THEN @ - Cost ELSE @]
        /\ slack' = [slack EXCEPT ![a] =
              IF admitted /\ key[a] # b THEN @ + Cost ELSE @]
        /\ held' = [held EXCEPT ![h] = NoBucket]
        /\ UNCHANGED <<now, made, key, agent, cleanerVars>>

\* Mutant of Sweep: the age limit is left out.
SweepAll ==
    /\ unvisited = {}
    /\ condemned = NoAgent
    /\ cutoff' = now
    /\ unvisited' = Agents
    /\ UNCHANGED <<now, bucketVars, handlerVars, condemned, ghostVars>>

\* The cleaner's ticker fires; the cutoff is computed once.
Sweep ==
    /\ unvisited = {}
    /\ condemned = NoAgent
    /\ cutoff' = now - IdleTicks
    /\ unvisited' = Agents
    /\ UNCHANGED <<now, bucketVars, handlerVars, condemned, ghostVars>>

\* Range calls its function on a key: lastActive takes the bucket's mutex and
\* gives it back.
Visit(a) ==
    /\ condemned = NoAgent
    /\ a \in unvisited
    /\ unvisited' = unvisited \ {a}
    /\ condemned' = IF key[a] # NoBucket /\ last[key[a]] < cutoff
                    THEN a ELSE NoAgent
    /\ UNCHANGED <<now, bucketVars, handlerVars, cutoff, ghostVars>>

\* The key is deleted, whatever happened to the bucket since.
Delete ==
    /\ condemned # NoAgent
    /\ key' = [key EXCEPT ![condemned] = NoBucket]
    /\ slack' = [slack EXCEPT ![condemned] = @ + (Full - Level(key[condemned]))]
    /\ condemned' = NoAgent
    /\ UNCHANGED <<now, made, tokens, last, handlerVars, cutoff, unvisited,
                   credit>>

LimiterNext ==
    \/ Tick
    \/ \E h \in Handlers, a \in Agents : LoadOrStore(h, a)
    \/ \E h \in Handlers : Allow(h)
    \/ Sweep
    \/ \E a \in Agents : Visit(a)
    \/ Delete

LimiterSpec == LimiterInit /\ [][LimiterNext]_limiterVars

-----------------------------------------------------------------------------
LimiterTypeOK ==
    /\ now \in 0 .. MaxTime
    /\ made \in 0 .. MaxBuckets
    /\ tokens \in [Buckets -> 0 .. Full]
    /\ last \in [Buckets -> 0 .. MaxTime]
    /\ key \in [Agents -> 0 .. made]
    /\ agent \in [Handlers -> Agents \cup {NoAgent}]
    /\ held \in [Handlers -> 0 .. made]
    /\ verdict \in [Handlers -> BOOLEAN]
    /\ cutoff \in Int
    /\ unvisited \subseteq Agents
    /\ condemned \in Agents \cup {NoAgent}
    /\ credit \in [Agents -> Int]
    /\ slack \in [Agents -> Nat]

\* Over any stretch of time an agent is admitted no more than one bucket would
\* admit, plus what racing removals gave away: a bucket that was used again
\* after the cleaner found it idle.
AdmissionBound == \A a \in Agents : credit[a] + slack[a] >= 0

\* A removal gives nothing away unless the bucket was used after the cleaner
\* looked at it: an idle bucket is as good as a new one.
IdleIsFull ==
    condemned # NoAgent /\ last[key[condemned]] < cutoff
        => Level(key[condemned]) = Full

\* Nobody is refused a request that an ideal bucket would admit, whichever
\* bucket, removed or not, the handler holds.
RefusalIsJustified ==
    [][\A h \in Handlers :
          held[h] # NoBucket /\ held'[h] = NoBucket /\ ~verdict'[h]
              => credit[agent[h]] < Cost]_limiterVars
=============================================================================
