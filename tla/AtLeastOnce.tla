---------------------------- MODULE AtLeastOnce ----------------------------
(***************************************************************************)
(* What an at-least-once sink promises about the events it takes from a    *)
(* queue: it takes each event once, and it lets go of an event only when   *)
(* the event is kept for good, parked (written where a later write may     *)
(* still replace it) or was dropped; a parked event that is replaced       *)
(* counts as dropped.  How events are batched, retried or re-delivered is  *)
(* left open.                                                              *)
(***************************************************************************)
EXTENDS Naturals

CONSTANT Events

VARIABLES
    accepted,     \* events the sink ever took
    outstanding,  \* events the queue still holds it responsible for
    kept,         \* events it wrote for good, once or more
    parked,       \* events it wrote where they can be replaced
    dropped       \* events it gave up

sinkVars == <<accepted, outstanding, kept, parked, dropped>>

SinkInit ==
    /\ accepted = {}
    /\ outstanding = {}
    /\ kept = {}
    /\ parked = {}
    /\ dropped = {}

Accept(S) ==
    /\ S \cap accepted = {}
    /\ accepted' = accepted \cup S
    /\ outstanding' = outstanding \cup S
    /\ UNCHANGED <<kept, parked, dropped>>

\* Keep, park and drop some of the accepted events, possibly again; of the
\* parked ones, those in L are replaced.
Settle(K, P, D, L) ==
    /\ K \cup P \cup D \subseteq accepted
    /\ L \subseteq parked
    /\ kept' = kept \cup K
    /\ parked' = (parked \ L) \cup P
    /\ dropped' = dropped \cup D \cup L
    /\ UNCHANGED <<accepted, outstanding>>

Release(S) ==
    /\ S \subseteq kept \cup parked \cup dropped
    /\ outstanding' = outstanding \ S
    /\ UNCHANGED <<accepted, kept, parked, dropped>>

\* Drop events and let go of them at once.
Discard(S) ==
    /\ S \subseteq outstanding
    /\ outstanding' = outstanding \ S
    /\ dropped' = dropped \cup S
    /\ UNCHANGED <<accepted, kept, parked>>

SinkNext ==
    \/ \E S \in SUBSET Events : Accept(S) \/ Release(S) \/ Discard(S)
    \/ \E K, P, D, L \in SUBSET Events : Settle(K, P, D, L)

SinkSpec == SinkInit /\ [][SinkNext]_sinkVars

\* The promise: an event the sink took is still in the queue's hands, kept,
\* parked or dropped.
NothingVanishes == accepted \subseteq outstanding \cup kept \cup parked \cup dropped
=============================================================================
