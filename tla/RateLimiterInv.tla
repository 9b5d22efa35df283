--------------------------- MODULE RateLimiterInv ---------------------------
(***************************************************************************)
(* The inductive strengthening of RateLimiter's properties: how the ideal  *)
(* bucket relates to the real ones.                                        *)
(***************************************************************************)
EXTENDS RateLimiter

\* The clock is not behind what was read from it.
ClockInv ==
    /\ \A b \in Buckets : last[b] <= now
    /\ cutoff <= now - IdleTicks

\* A bucket serves one agent; the cleaner's key is there until it deletes it.
OwnerInv ==
    /\ \A h \in Handlers : held[h] # NoBucket => agent[h] \in Agents
    /\ \A a1, a2 \in Agents : key[a1] = key[a2] /\ key[a1] # NoBucket => a1 = a2
    /\ \A h \in Handlers, a \in Agents :
          held[h] # NoBucket /\ key[a] = held[h] => agent[h] = a
    /\ \A g, h \in Handlers :
          held[g] # NoBucket /\ held[g] = held[h] => agent[g] = agent[h]
    /\ condemned # NoAgent => key[condemned] # NoBucket

\* What a bucket that is not there would hold.
LevelOf(a) == IF key[a] = NoBucket THEN Full ELSE Level(key[a])

\* The real bucket is ahead of the ideal one by what was given away at most.
DebtInv == \A a \in Agents : credit[a] + slack[a] >= LevelOf(a)

\* The ideal bucket is never ahead of a real one, removed or not.
CreditInv ==
    /\ \A a \in Agents : credit[a] <= LevelOf(a)
    /\ \A h \in Handlers :
          held[h] # NoBucket => credit[agent[h]] <= Level(held[h])

\* What the proofs carry through every step: together the parts above say that
\* real and ideal buckets never differ by more than removals account for.
LimiterInv == LimiterTypeOK /\ ClockInv /\ OwnerInv /\ DebtInv /\ CreditInv

\* The buckets of an agent, in the map, removed or held by a handler, never
\* differ by more than removals account for, and a removal of a bucket that
\* was idle until then accounts for nothing.
BucketsAgree == LimiterInv /\ IdleIsFull
=============================================================================
