---------------------------- MODULE RedisStream ----------------------------
(***************************************************************************)
(* The Redis Stream and consumer-group commands the services rely on       *)
(* (XADD with an approximate MAXLEN, XREADGROUP ">", XAUTOCLAIM), as pure  *)
(* operators.  Redis itself is external; the commands are the ones issued  *)
(* by internal/common/redisclient.                                         *)
(*                                                                         *)
(* A stream is described by two numbers: entries have the ids 1..added, in *)
(* the order of their XADD, and those below first have been trimmed away.  *)
(* A group keeps the id it delivered last and the set of delivered entries *)
(* that nobody acknowledged (its pending entries list, PEL).               *)
(***************************************************************************)
EXTENDS Naturals, FiniteSets

\* The members of the finite set S of numbers that have fewer than count
\* smaller members: what a scan in id order returns first.
LowestOf(S, count) ==
    {i \in S : Cardinality({j \in S : j < i}) < count}

\* The ends of the run of entries XREADGROUP ">" returns: the oldest retained
\* entries behind the group's position, at most count of them.  The run is
\* empty when there is nothing new.
FreshFrom(first, delivered) ==
    IF first > delivered + 1 THEN first ELSE delivered + 1

FreshTo(first, added, delivered, count) ==
    LET last == FreshFrom(first, delivered) + count - 1
    IN  IF added < last THEN added ELSE last

Fresh(first, added, delivered, count) ==
    FreshFrom(first, delivered) .. FreshTo(first, added, delivered, count)

\* The messages of a reply, oldest first.
MessagesOf(from, to) == [k \in 1 .. (to - from + 1) |-> from + k - 1]

\* Where the stream may begin after an XADD MAXLEN ~ maxLen made its length
\* added: the trimming is approximate, so it removes any number of the oldest
\* entries, but never one of the newest maxLen.
TrimmedTo(first, added, maxLen) ==
    {first} \cup {f \in first .. added : added - f + 1 >= maxLen}

\* What XAUTOCLAIM looks at, from id 0-0 and at most count entries: the pending
\* entries idle for long enough, and those the stream no longer holds.
Claimable(pending, idle, first, count) ==
    LowestOf({i \in pending : i \in idle \/ i < first}, count)
=============================================================================
