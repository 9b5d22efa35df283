--------------------------- MODULE GiteaCliProofs ---------------------------
(***************************************************************************)
(* What holds of the agents' commands for any number of agents, labels,    *)
(* issues and reviews.  That all pages of labels are read before one is    *)
(* called missing rests on a fact about counting: a page that is followed  *)
(* by another is full, since no rank is left out.                          *)
(***************************************************************************)
EXTENDS GiteaCli, Integers, SequenceTheorems, FiniteSetTheorems, WellFoundedInduction, TLAPS

\* What an agent was told to be its own is assigned to somebody, and another
\* agent that still takes it for free is known to be late.
ClaimInv ==
    \A a \in Agents :
        /\ \A i \in mine[a] : i \in DOMAIN issues /\ issues[i].assignees # {}
        /\ \A b \in Agents \ {a} : mine[a] \cap free[b] \subseteq stale[b]

\* The reviews somebody knew of when told that the pull request is ready.
ApprovedAt(n) ==
    /\ \E i \in 1 .. n : reviews[i].verdict = "APPROVE"
    /\ \A i \in 1 .. n : reviews[i].verdict = "REQUEST_CHANGES" => i > ReviewPage

ReadyInv ==
    /\ reviews \in Seq(Reviews)
    /\ ready \in [Agents -> BOOLEAN]
    /\ basis \in [Agents -> Nat]
    /\ \A a \in Agents :
          /\ basis[a] <= Len(reviews)
          /\ ready[a] => ApprovedAt(basis[a])
    /\ merger \in Nat
    /\ merger <= Len(reviews)
    /\ pr = "merged" => ApprovedAt(merger)

IssueSet == [open : BOOLEAN, assignees : SUBSET Users,
             labels : SUBSET Names, asked : SUBSET Names]

IssueInv == issues \in Seq(IssueSet)

\* A command that looks for its labels, and one that creates its issue.
Resolving == [at : {"read", "compare"}, page : Nat, all : SUBSET Names,
              steady : SUBSET Names, shifted : BOOLEAN]
Creating  == [at : {"create"}, ids : SUBSET Names, names : SUBSET Names]

\* Issues keep the labels they were created with until these are removed.
LabelInv ==
    /\ labels \subseteq Names
    /\ removed \subseteq Names \ labels
    /\ create \in [Agents -> {Idle} \cup Resolving \cup Creating]
    /\ \A a \in Agents :
          /\ create[a].at \in {"read", "compare"} =>
                create[a].all \subseteq labels \cup removed
          /\ create[a].at = "create" =>
                create[a].ids = create[a].names /\ create[a].ids \subseteq labels \cup removed
    /\ \A i \in DOMAIN issues : /\ issues[i].labels = issues[i].asked \ removed
                               /\ issues[i].asked \subseteq labels \cup removed

\* How many of the numbers S come up to n.
Rank(S, n) == Cardinality({l \in S : l <= n})

\* While no label goes, those that were there all the time are found once the
\* pages read reach them, and all of them after the last.
LookupInv ==
    /\ \A a \in Agents : create[a].at \in {"read", "compare"} =>
          /\ create[a].page # 0
          /\ create[a].steady \subseteq labels
          /\ ~create[a].shifted => \A n \in create[a].steady :
                \/ n \in create[a].all
                \/ create[a].at = "read" /\ (create[a].page - 1) * PageSize < Rank(labels, n)
    /\ \A r \in refusals : ~r.steady \/ r.shifted

BoundsInv ==
    /\ pr \in {"none", "open", "merged"}
    /\ author \in Users
    /\ Len(issues) <= MaxIssues
    /\ Len(reviews) <= MaxReviews
    /\ steps \in 0 .. MaxSteps
    /\ faults \in 0 .. MaxFaults
    /\ \A a \in Agents : stale[a] \subseteq free[a] /\ raced[a] \cup lost[a] \subseteq mine[a]

ListInv ==
    /\ free \in [Agents -> SUBSET DOMAIN issues]
    /\ told \in [Agents -> SUBSET DOMAIN issues]
    /\ mine \in [Agents -> SUBSET DOMAIN issues]
    /\ stale \in [Agents -> SUBSET DOMAIN issues]
    /\ raced \in [Agents -> SUBSET DOMAIN issues]
    /\ lost \in [Agents -> SUBSET DOMAIN issues]

\* The two parts of SharedOnlyByRace.
TakenTwice ==
    \A a, b \in Agents : a # b => mine[a] \cap mine[b] \subseteq raced[a] \cup raced[b]
ShownToOthers ==
    \A a, b \in Agents :
        UserOf[a] # UserOf[b] => mine[a] \cap told[b] \subseteq raced[a] \cup lost[a]

\* What an agent took stays its user's until it is assigned to another; what it
\* was shown as free, and nobody took since, is at most its user's, and was not
\* shown to another user's agents as theirs.
OwnerInv ==
    /\ \A a \in Agents :
          /\ \A i \in mine[a] \ lost[a] : issues[i].assignees = {UserOf[a]}
          /\ \A i \in free[a] \ stale[a] : issues[i].assignees \subseteq {UserOf[a]}
          /\ \A i \in told[a] : issues[i].assignees # {}
    /\ \A a, b \in Agents : UserOf[a] # UserOf[b] => free[a] \cap told[b] \subseteq stale[a]

ClaimsInv == IssueInv /\ ListInv /\ ClaimInv /\ TakenTwice

OwnersInv == OwnerInv /\ ShownToOthers

IInv == ClaimsInv /\ OwnersInv /\ ReadyInv /\ LabelInv /\ LookupInv /\ BoundsInv

-----------------------------------------------------------------------------
(* Claims                                                                  *)

\* What a step leaves of the issues when it only edits some.
LEMMA EditedIssues ==
    ASSUME ClaimsInv,
           issues' \in Seq(IssueSet),
           DOMAIN issues \subseteq DOMAIN issues',
           \A i \in DOMAIN issues : issues'[i].assignees = issues[i].assignees,
           UNCHANGED claimVars
    PROVE  ClaimsInv'
<1>. USE DEF ClaimsInv
<1>1. /\ free' = free /\ told' = told /\ mine' = mine
      /\ stale' = stale /\ raced' = raced /\ lost' = lost
  BY DEF claimVars
<1>2. IssueInv'
  BY DEF IssueInv
<1>3. ListInv'
  BY <1>1 DEF ListInv
<1>4. ClaimInv'
  BY <1>1 DEF ClaimInv, ListInv
<1>5. TakenTwice'
  BY <1>1 DEF TakenTwice
<1>. QED
  BY <1>2, <1>3, <1>4, <1>5

\* Nor of who owns them.
LEMMA EditedOwners ==
    ASSUME ClaimsInv, OwnersInv,
           \A i \in DOMAIN issues : issues'[i].assignees = issues[i].assignees,
           UNCHANGED claimVars
    PROVE  OwnersInv'
<1>1. /\ free' = free /\ told' = told /\ mine' = mine
      /\ stale' = stale /\ raced' = raced /\ lost' = lost
  BY DEF claimVars
<1>2. OwnerInv'
  BY <1>1 DEF OwnersInv, OwnerInv, ClaimsInv, ListInv
<1>3. ShownToOthers'
  BY <1>1 DEF OwnersInv, ShownToOthers
<1>. QED
  BY <1>2, <1>3 DEF OwnersInv

\* One issue replaced by another.
LEMMA OneEdited ==
    ASSUME IssueInv, NEW i \in DOMAIN issues, NEW r \in IssueSet,
           issues' = [issues EXCEPT ![i] = r]
    PROVE  /\ issues' \in Seq(IssueSet)
           /\ DOMAIN issues' = DOMAIN issues
           /\ \A j \in DOMAIN issues : issues'[j] = IF j = i THEN r ELSE issues[j]
<1>1. issues \in Seq(IssueSet) /\ DOMAIN issues = 1 .. Len(issues)
  BY DEF IssueInv
<1>2. /\ issues' \in Seq(IssueSet)
      /\ Len(issues') = Len(issues)
      /\ \A j \in 1 .. Len(issues) : issues'[j] = IF j = i THEN r ELSE issues[j]
  BY <1>1, ExceptSeq
<1>. QED
  BY <1>1, <1>2

\* An assignment, whoever is assigned.
LEMMA Assigned ==
    ASSUME ClaimsInv, NEW a \in Agents, NEW i \in DOMAIN issues, NEW user \in Users,
           Assign(a, i, user)
    PROVE  /\ IssueInv'
           /\ DOMAIN issues' = DOMAIN issues
           /\ \A j \in DOMAIN issues :
                 issues'[j].assignees = IF j = i THEN {user} ELSE issues[j].assignees
           /\ free' = free /\ told' = told
           /\ stale' \in [Agents -> SUBSET DOMAIN issues]
           /\ lost' \in [Agents -> SUBSET DOMAIN issues]
           /\ \A b \in Agents :
                 /\ stale[b] \subseteq stale'[b]
                 /\ (b # a \/ user # UserOf[b]) /\ i \in free[b] => i \in stale'[b]
                 /\ lost[b] \subseteq lost'[b]
                 /\ user # UserOf[b] /\ i \in mine[b] => i \in lost'[b]
<1>1. issues' = [issues EXCEPT ![i].assignees = {user}]
  BY DEF Assign
<1>2. IssueInv /\ issues[i] \in IssueSet
  BY DEF ClaimsInv, IssueInv
<1>3. PICK r \in IssueSet : r = [issues[i] EXCEPT !.assignees = {user}] /\ r.assignees = {user}
  <2>1. [issues[i] EXCEPT !.assignees = {user}] \in IssueSet
    BY <1>2 DEF IssueSet
  <2>2. [issues[i] EXCEPT !.assignees = {user}].assignees = {user}
    BY <1>2 DEF IssueSet
  <2>. QED
    BY <2>1, <2>2
<1>4. issues' = [issues EXCEPT ![i] = r]
  BY <1>1, <1>3
<1>6. /\ issues' \in Seq(IssueSet)
      /\ DOMAIN issues' = DOMAIN issues
      /\ \A j \in DOMAIN issues : issues'[j] = IF j = i THEN r ELSE issues[j]
  BY <1>2, <1>4, OneEdited
<1>7. IssueInv' /\ DOMAIN issues' = DOMAIN issues
  BY <1>6 DEF IssueInv
<1>8. \A j \in DOMAIN issues :
         issues'[j].assignees = IF j = i THEN {user} ELSE issues[j].assignees
  BY <1>3, <1>6
<1>9. free' = free /\ told' = told
  BY DEF Assign
<1>10. /\ stale' = [b \in Agents |-> stale[b] \cup
                       {j \in free[b] : j = i /\ (b # a \/ user # UserOf[b])}]
       /\ lost' = [b \in Agents |-> lost[b] \cup {j \in mine[b] : j = i /\ user # UserOf[b]}]
  BY DEF Assign
<1>11. /\ stale' \in [Agents -> SUBSET DOMAIN issues]
       /\ lost' \in [Agents -> SUBSET DOMAIN issues]
  BY <1>10 DEF ClaimsInv, ListInv
<1>12. \A b \in Agents :
          /\ stale[b] \subseteq stale'[b]
          /\ (b # a \/ user # UserOf[b]) /\ i \in free[b] => i \in stale'[b]
          /\ lost[b] \subseteq lost'[b]
          /\ user # UserOf[b] /\ i \in mine[b] => i \in lost'[b]
  BY <1>10
<1>. QED
  BY <1>7, <1>8, <1>9, <1>11, <1>12

LEMMA ClaimsStep ==
    ASSUME ClaimsInv, labels \subseteq Names,
           \A a \in Agents : create[a].at = "create" => create[a].names \subseteq Names,
           [Next]_vars
    PROVE  ClaimsInv'
<1>1. CASE UNCHANGED <<issues, claimVars>>
  BY <1>1, EditedIssues DEF ClaimsInv, IssueInv
<1>2. ASSUME NEW n \in Names, RemoveLabel(n) PROVE ClaimsInv'
  <2>1. /\ issues' = [i \in DOMAIN issues |-> [issues[i] EXCEPT !.labels = @ \ {n}]]
        /\ UNCHANGED claimVars
    BY <1>2 DEF RemoveLabel
  <2>2. \A i \in DOMAIN issues :
           /\ issues'[i] \in IssueSet
           /\ issues'[i].assignees = issues[i].assignees
    <3>1. \A i \in DOMAIN issues : issues[i] \in IssueSet
      BY DEF ClaimsInv, IssueInv
    <3>2. \A r \in IssueSet : /\ [r EXCEPT !.labels = @ \ {n}] \in IssueSet
                             /\ [r EXCEPT !.labels = @ \ {n}].assignees = r.assignees
      BY DEF IssueSet
    <3>. QED
      BY <2>1, <3>1, <3>2
  <2>3. /\ Len(issues) \in Nat
        /\ DOMAIN issues = 1 .. Len(issues)
    BY DEF ClaimsInv, IssueInv
  <2>4. issues' \in [1 .. Len(issues) -> IssueSet]
    BY <2>1, <2>2, <2>3
  <2>5. issues' \in Seq(IssueSet) /\ DOMAIN issues' = DOMAIN issues
    BY <2>3, <2>4, SeqDef
  <2>. QED
    BY <2>1, <2>2, <2>5, EditedIssues
<1>3. ASSUME NEW a \in Agents, NEW assignees \in SUBSET Users, CreateIssue(a, assignees)
      PROVE  ClaimsInv'
  <2>. DEFINE new == [open |-> TRUE, assignees |-> assignees,
                      labels |-> create[a].ids \cap labels, asked |-> create[a].names]
  <2>1. issues' = Append(issues, new) /\ UNCHANGED claimVars /\ create[a].at = "create"
    BY <1>3 DEF CreateIssue
  <2>2. new \in IssueSet
    BY <2>1 DEF IssueSet
  <2>. HIDE DEF new
  <2>3. /\ issues' \in Seq(IssueSet)
        /\ DOMAIN issues \subseteq DOMAIN issues'
        /\ \A i \in DOMAIN issues : issues'[i] = issues[i]
    BY <2>1, <2>2 DEF ClaimsInv, IssueInv
  <2>. QED
    BY <2>1, <2>3, EditedIssues
<1>4. ASSUME NEW a \in Agents, IssueList(a) PROVE ClaimsInv'
  <2>. USE DEF ClaimsInv
  <2>1. /\ issues' = issues /\ mine' = mine /\ raced' = raced /\ lost' = lost
        /\ free' = [free EXCEPT ![a] = {i \in Listed : Unassigned(i)}]
        /\ told' = [told EXCEPT ![a] = {i \in Listed : UserOf[a] \in issues[i].assignees}]
        /\ stale' = [stale EXCEPT ![a] = {}]
    BY <1>4 DEF IssueList, giteaVars
  <2>2. Listed \subseteq DOMAIN issues
    BY DEF Listed
  <2>3. \A b \in Agents : mine[b] \cap {i \in Listed : Unassigned(i)} = {}
    BY DEF ClaimInv, Unassigned
  <2>4. IssueInv' /\ ListInv' /\ TakenTwice'
    BY <2>1, <2>2 DEF IssueInv, ListInv, TakenTwice
  <2>5. ClaimInv'
    BY <2>1, <2>3 DEF ClaimInv, ListInv
  <2>. QED
    BY <2>4, <2>5
<1>5. ASSUME NEW a \in Agents, NEW i \in DOMAIN issues, AssignMyself(a, i) PROVE ClaimsInv'
  <2>1. PICK user \in Users : i \in free[a] /\ Assign(a, i, user)
    BY <1>5, GiteaCliAssumption DEF AssignMyself
  <2>2. /\ IssueInv' /\ DOMAIN issues' = DOMAIN issues
        /\ free' = free /\ told' = told
        /\ stale' \in [Agents -> SUBSET DOMAIN issues]
        /\ lost' \in [Agents -> SUBSET DOMAIN issues]
        /\ \A b \in Agents : /\ stale[b] \subseteq stale'[b]
                             /\ b # a /\ i \in free[b] => i \in stale'[b]
        /\ \A j \in DOMAIN issues : issues[j].assignees # {} => issues'[j].assignees # {}
        /\ issues'[i].assignees # {}
    <3>1. \A j \in DOMAIN issues :
             issues'[j].assignees = IF j = i THEN {user} ELSE issues[j].assignees
      BY <2>1, Assigned
    <3>2. \A b \in Agents : /\ stale[b] \subseteq stale'[b]
                            /\ b # a /\ i \in free[b] => i \in stale'[b]
      BY <2>1, Assigned
    <3>3. IssueInv' /\ DOMAIN issues' = DOMAIN issues /\ free' = free /\ told' = told
          /\ stale' \in [Agents -> SUBSET DOMAIN issues]
          /\ lost' \in [Agents -> SUBSET DOMAIN issues]
      BY <2>1, Assigned
    <3>. QED
      BY <3>1, <3>2, <3>3
  <2>. USE DEF ClaimsInv
  <2>3. CASE /\ mine' = [mine EXCEPT ![a] = @ \cup {i}]
             /\ raced' = [raced EXCEPT ![a] = IF i \in stale[a] THEN @ \cup {i} ELSE @]
    <3>1. /\ \A b \in Agents : mine'[b] = IF b = a THEN mine[b] \cup {i} ELSE mine[b]
          /\ \A b \in Agents : raced[b] \subseteq raced'[b]
          /\ i \in stale[a] => i \in raced'[a]
      BY <2>3 DEF ListInv
    <3>2. ListInv'
      BY <2>2, <2>3 DEF ListInv
    <3>3. ClaimInv'
      <4>1. ASSUME NEW b \in Agents, NEW j \in mine'[b]
            PROVE  j \in DOMAIN issues' /\ issues'[j].assignees # {}
        <5>1. CASE j = i
          BY <2>2, <5>1
        <5>2. CASE j # i
          <6>1. j \in mine[b]
            BY <3>1, <5>2
          <6>. QED
            BY <2>2, <6>1 DEF ClaimInv
        <5>. QED
          BY <5>1, <5>2
      <4>2. ASSUME NEW b \in Agents, NEW c \in Agents \ {b}, NEW j \in mine'[b] \cap free'[c]
            PROVE  j \in stale'[c]
        <5>1. CASE j \in mine[b]
          BY <2>2, <5>1 DEF ClaimInv
        <5>2. CASE j \notin mine[b]
          <6>1. b = a /\ j = i
            BY <3>1, <5>2
          <6>. QED
            BY <2>2, <6>1
        <5>. QED
          BY <5>1, <5>2
      <4>. QED
        BY <4>1, <4>2 DEF ClaimInv
    <3>4. ASSUME NEW b \in Agents, NEW c \in Agents, b # c, NEW j \in mine'[b] \cap mine'[c]
          PROVE  j \in raced'[b] \cup raced'[c]
      <4>1. CASE j \in mine[b] /\ j \in mine[c]
        BY <3>1, <3>4, <4>1 DEF TakenTwice
      <4>2. CASE j \notin mine[b]
        <5>1. b = a /\ j = i /\ j \in mine[c]
          BY <3>1, <3>4, <4>2
        <5>. QED
          BY <2>1, <3>1, <3>4, <5>1 DEF ClaimInv
      <4>3. CASE j \notin mine[c]
        <5>1. c = a /\ j = i /\ j \in mine[b]
          BY <3>1, <3>4, <4>3
        <5>. QED
          BY <2>1, <3>1, <3>4, <5>1 DEF ClaimInv
      <4>. QED
        BY <4>1, <4>2, <4>3
    <3>. QED
      BY <2>2, <3>2, <3>3, <3>4 DEF TakenTwice
  <2>4. CASE mine' = mine /\ raced' = raced
    BY <2>2, <2>4 DEF ClaimInv, ListInv, TakenTwice
  <2>. QED
    BY <1>5, <2>3, <2>4 DEF AssignMyself
<1>6. ASSUME NEW a \in Agents, NEW i \in DOMAIN issues, NEW user \in Users,
             AssignOther(a, i, user)
      PROVE  ClaimsInv'
  <2>. USE DEF ClaimsInv
  <2>1. Assign(a, i, user) /\ mine' = mine /\ raced' = raced
    BY <1>6 DEF AssignOther
  <2>2. IssueInv' /\ ListInv' /\ TakenTwice'
    BY <2>1, Assigned DEF ListInv, TakenTwice
  <2>3. /\ DOMAIN issues' = DOMAIN issues
        /\ free' = free
        /\ \A b \in Agents : stale[b] \subseteq stale'[b]
        /\ \A j \in DOMAIN issues : issues[j].assignees # {} => issues'[j].assignees # {}
    BY <2>1, Assigned
  <2>4. ClaimInv'
    BY <2>1, <2>3 DEF ClaimInv
  <2>. QED
    BY <2>2, <2>4
<1>7. ASSUME NEW i \in DOMAIN issues, IssueClose(i) PROVE ClaimsInv'
  <2>1. issues' = [issues EXCEPT ![i].open = FALSE] /\ UNCHANGED claimVars
    BY <1>7 DEF IssueClose
  <2>2. IssueInv /\ issues[i] \in IssueSet
    BY DEF ClaimsInv, IssueInv
  <2>3. PICK r \in IssueSet :
            r = [issues[i] EXCEPT !.open = FALSE] /\ r.assignees = issues[i].assignees
    <3>1. [issues[i] EXCEPT !.open = FALSE] \in IssueSet
      BY <2>2 DEF IssueSet
    <3>2. [issues[i] EXCEPT !.open = FALSE].assignees = issues[i].assignees
      BY <2>2 DEF IssueSet
    <3>. QED
      BY <3>1, <3>2
  <2>4. issues' = [issues EXCEPT ![i] = r]
    BY <2>1, <2>3
  <2>5. /\ issues' \in Seq(IssueSet)
        /\ DOMAIN issues' = DOMAIN issues
        /\ \A j \in DOMAIN issues : issues'[j] = IF j = i THEN r ELSE issues[j]
    BY <2>2, <2>4, OneEdited
  <2>6. \A j \in DOMAIN issues : issues'[j].assignees = issues[j].assignees
    BY <2>3, <2>5
  <2>. QED
    BY <2>1, <2>5, <2>6, EditedIssues
<1>8. CASE \/ \E n \in Names : AddLabel(n)
           \/ PrCreate
           \/ \E a \in Agents :
                 \/ IssueCreate(a) \/ ReadLabels(a) \/ CreateFails(a)
                 \/ \E names \in SUBSET Names \ {{}} : CompareLabels(a, names)
                 \/ \E verdict \in Verdicts : PrReview(a, verdict)
                 \/ PrReviews(a) \/ PrMerge(a)
  <2>1. UNCHANGED <<issues, claimVars>>
    BY <1>8 DEF AddLabel, PrCreate, IssueCreate, ReadLabels, CreateFails, CompareLabels,
                PrReview, PrReviews, PrMerge, giteaVars
  <2>. QED
    BY <2>1, <1>1
<1>9. CASE UNCHANGED vars
  BY <1>9, <1>1 DEF vars, giteaVars
<1>. QED
  BY <1>2, <1>3, <1>4, <1>5, <1>6, <1>7, <1>8, <1>9 DEF Next

\* Whom an issue is shown to as theirs.
LEMMA OwnersStep ==
    ASSUME ClaimsInv, OwnersInv, [Next]_vars
    PROVE  OwnersInv'
<1>0. /\ OwnerInv /\ ShownToOthers /\ ListInv /\ ClaimInv /\ issues \in Seq(IssueSet)
      /\ \A a \in Agents : UserOf[a] \in Users
  BY GiteaCliAssumption DEF OwnersInv, ClaimsInv, IssueInv
<1>1. CASE UNCHANGED <<issues, claimVars>>
  BY <1>1, EditedOwners
<1>2. ASSUME NEW n \in Names, RemoveLabel(n) PROVE OwnersInv'
  <2>1. /\ issues' = [i \in DOMAIN issues |-> [issues[i] EXCEPT !.labels = @ \ {n}]]
        /\ UNCHANGED claimVars
    BY <1>2 DEF RemoveLabel
  <2>2. \A r \in IssueSet : [r EXCEPT !.labels = @ \ {n}].assignees = r.assignees
    BY DEF IssueSet
  <2>3. ASSUME NEW i \in DOMAIN issues
        PROVE  issues'[i].assignees = issues[i].assignees
    <3>1. issues[i] \in IssueSet /\ issues'[i] = [issues[i] EXCEPT !.labels = @ \ {n}]
      BY <1>0, <2>1
    <3>. QED
      BY <2>2, <3>1
  <2>. QED
    BY <2>1, <2>3, EditedOwners
<1>3. ASSUME NEW a \in Agents, NEW assignees \in SUBSET Users, CreateIssue(a, assignees)
      PROVE  OwnersInv'
  <2>. DEFINE new == [open |-> TRUE, assignees |-> assignees,
                      labels |-> create[a].ids \cap labels, asked |-> create[a].names]
  <2>1. issues' = Append(issues, new) /\ UNCHANGED claimVars
    BY <1>3 DEF CreateIssue
  <2>. HIDE DEF new
  <2>2. \A i \in DOMAIN issues : issues'[i] = issues[i]
    BY <1>0, <2>1
  <2>. QED
    BY <2>1, <2>2, EditedOwners
<1>4. ASSUME NEW a \in Agents, IssueList(a) PROVE OwnersInv'
  <2>1. /\ issues' = issues /\ mine' = mine /\ raced' = raced /\ lost' = lost
        /\ free' = [free EXCEPT ![a] = {i \in Listed : Unassigned(i)}]
        /\ told' = [told EXCEPT ![a] = {i \in Listed : UserOf[a] \in issues[i].assignees}]
        /\ stale' = [stale EXCEPT ![a] = {}]
    BY <1>4 DEF IssueList, giteaVars
  <2>2. /\ \A b \in Agents \ {a} : /\ free'[b] = free[b] /\ told'[b] = told[b]
                                   /\ stale'[b] = stale[b]
        /\ \A i \in free'[a] : issues[i].assignees = {}
        /\ \A i \in told'[a] : UserOf[a] \in issues[i].assignees
        /\ stale'[a] = {}
    BY <1>0, <2>1 DEF ListInv, Unassigned
  <2>3. \A b \in Agents : /\ \A i \in free'[b] \ stale'[b] : issues[i].assignees \subseteq {UserOf[b]}
                          /\ \A i \in told'[b] : issues[i].assignees # {}
    BY <1>0, <2>2 DEF OwnerInv
  <2>4. ASSUME NEW b \in Agents, NEW c \in Agents, UserOf[b] # UserOf[c]
        PROVE  /\ free'[b] \cap told'[c] \subseteq stale'[b]
               /\ mine[b] \cap told'[c] \subseteq raced[b] \cup lost[b]
    <3>1. CASE c = a
      <4>1. \A i \in told'[c] : ~(issues[i].assignees \subseteq {UserOf[b]})
        BY <2>2, <2>4, <3>1
      <4>2. \A i \in mine[b] \ lost[b] : issues[i].assignees \subseteq {UserOf[b]}
        BY <1>0 DEF OwnerInv
      <4>. QED
        BY <2>3, <4>1, <4>2
    <3>2. CASE c # a /\ b = a
      <4>1. told'[c] = told[c] /\ \A i \in told'[c] : issues[i].assignees # {}
        BY <2>2, <2>3, <3>2
      <4>2. free'[b] \cap told'[c] = {}
        BY <2>2, <3>2, <4>1
      <4>. QED
        BY <1>0, <2>4, <4>1, <4>2 DEF ShownToOthers
    <3>3. CASE c # a /\ b # a
      BY <1>0, <2>2, <2>4, <3>3 DEF OwnerInv, ShownToOthers
    <3>. QED
      BY <3>1, <3>2, <3>3
  <2>5. OwnerInv'
    <3>1. \A b \in Agents : \A i \in mine[b] \ lost[b] : issues[i].assignees = {UserOf[b]}
      BY <1>0 DEF OwnerInv
    <3>. QED
      BY <2>1, <2>3, <2>4, <3>1 DEF OwnerInv
  <2>6. ShownToOthers'
    BY <2>1, <2>4 DEF ShownToOthers
  <2>. QED
    BY <2>5, <2>6 DEF OwnersInv
<1>5. ASSUME NEW a \in Agents, NEW i \in DOMAIN issues, NEW user \in Users,
             Assign(a, i, user),
             \/ mine' = mine /\ raced' = raced
             \/ /\ i \in free[a] /\ user = UserOf[a]
                /\ mine' = [mine EXCEPT ![a] = @ \cup {i}]
                /\ raced' = [raced EXCEPT ![a] = IF i \in stale[a] THEN @ \cup {i} ELSE @]
      PROVE  OwnersInv'
  <2>1. /\ free' = free /\ told' = told
        /\ \A j \in DOMAIN issues :
              issues'[j].assignees = IF j = i THEN {user} ELSE issues[j].assignees
        /\ \A b \in Agents :
              /\ stale[b] \subseteq stale'[b]
              /\ (b # a \/ user # UserOf[b]) /\ i \in free[b] => i \in stale'[b]
              /\ lost[b] \subseteq lost'[b]
              /\ user # UserOf[b] /\ i \in mine[b] => i \in lost'[b]
    BY <1>5, Assigned
  <2>2. \A b \in Agents :
           /\ raced[b] \subseteq raced'[b]
           /\ \A j \in mine'[b] : \/ j \in mine[b]
                                  \/ /\ b = a /\ j = i /\ i \in free[a] /\ user = UserOf[a]
                                     /\ i \in stale[a] => i \in raced'[a]
    BY <1>0, <1>5 DEF ListInv
  <2>3. \A b \in Agents : /\ mine[b] \subseteq DOMAIN issues /\ free[b] \subseteq DOMAIN issues
                          /\ told[b] \subseteq DOMAIN issues
    BY <1>0 DEF ListInv
  <2>4. ASSUME NEW b \in Agents, NEW j \in mine'[b] \ lost'[b]
        PROVE  issues'[j].assignees = {UserOf[b]}
    <3>1. CASE j = i
      BY <2>1, <2>2, <2>4, <3>1
    <3>2. CASE j # i
      BY <1>0, <2>1, <2>2, <2>3, <2>4, <3>2 DEF OwnerInv
    <3>. QED
      BY <3>1, <3>2
  <2>5. ASSUME NEW b \in Agents, NEW j \in free'[b] \ stale'[b]
        PROVE  issues'[j].assignees \subseteq {UserOf[b]}
    <3>1. CASE j = i
      BY <2>1, <2>5, <3>1
    <3>2. CASE j # i
      BY <1>0, <2>1, <2>3, <2>5, <3>2 DEF OwnerInv
    <3>. QED
      BY <3>1, <3>2
  <2>6. \A b \in Agents : \A j \in told'[b] : issues'[j].assignees # {}
    BY <1>0, <2>1, <2>3 DEF OwnerInv
  <2>7. ASSUME NEW b \in Agents, NEW c \in Agents, UserOf[b] # UserOf[c]
        PROVE  /\ free'[b] \cap told'[c] \subseteq stale'[b]
               /\ mine'[b] \cap told'[c] \subseteq raced'[b] \cup lost'[b]
    <3>1. free[b] \cap told[c] \subseteq stale[b] /\ mine[b] \cap told[c] \subseteq raced[b] \cup lost[b]
      BY <1>0, <2>7 DEF OwnerInv, ShownToOthers
    <3>. QED
      BY <2>1, <2>2, <3>1
  <2>. QED
    BY <2>4, <2>5, <2>6, <2>7 DEF OwnersInv, OwnerInv, ShownToOthers
<1>6. ASSUME NEW a \in Agents, NEW i \in DOMAIN issues, AssignMyself(a, i) PROVE OwnersInv'
  <2>1. Assign(a, i, UserOf[a]) /\ i \in free[a] /\ UserOf[a] \in Users
    BY <1>0, <1>6 DEF AssignMyself
  <2>2. \/ mine' = mine /\ raced' = raced
        \/ /\ mine' = [mine EXCEPT ![a] = @ \cup {i}]
           /\ raced' = [raced EXCEPT ![a] = IF i \in stale[a] THEN @ \cup {i} ELSE @]
    BY <1>6 DEF AssignMyself
  <2>. QED
    BY <1>5, <2>1, <2>2
<1>7. ASSUME NEW a \in Agents, NEW i \in DOMAIN issues, NEW user \in Users,
             AssignOther(a, i, user)
      PROVE  OwnersInv'
  <2>1. Assign(a, i, user) /\ mine' = mine /\ raced' = raced
    BY <1>7 DEF AssignOther
  <2>. QED
    BY <1>5, <2>1
<1>8. ASSUME NEW i \in DOMAIN issues, IssueClose(i) PROVE OwnersInv'
  <2>1. issues' = [issues EXCEPT ![i].open = FALSE] /\ UNCHANGED claimVars
    BY <1>8 DEF IssueClose
  <2>2. \A r \in IssueSet : [r EXCEPT !.open = FALSE].assignees = r.assignees
    BY DEF IssueSet
  <2>3. \A j \in DOMAIN issues : issues'[j].assignees = issues[j].assignees
    BY <1>0, <2>1, <2>2
  <2>. QED
    BY <2>1, <2>3, EditedOwners
<1>9. CASE \/ \E n \in Names : AddLabel(n)
           \/ PrCreate
           \/ \E a \in Agents :
                 \/ IssueCreate(a) \/ ReadLabels(a) \/ CreateFails(a)
                 \/ \E names \in SUBSET Names \ {{}} : CompareLabels(a, names)
                 \/ \E verdict \in Verdicts : PrReview(a, verdict)
                 \/ PrReviews(a) \/ PrMerge(a)
  <2>1. UNCHANGED <<issues, claimVars>>
    BY <1>9 DEF AddLabel, PrCreate, IssueCreate, ReadLabels, CreateFails, CompareLabels,
                PrReview, PrReviews, PrMerge, giteaVars
  <2>. QED
    BY <2>1, <1>1
<1>10. CASE UNCHANGED vars
  BY <1>10, <1>1 DEF vars, giteaVars
<1>. QED
  BY <1>2, <1>3, <1>4, <1>6, <1>7, <1>8, <1>9, <1>10 DEF Next

-----------------------------------------------------------------------------
(* Reviews                                                                 *)

LEMMA ReadyStep ==
    ASSUME ReadyInv, ReviewPage \in Nat, [Next]_vars
    PROVE  ReadyInv'
<1>. USE DEF ReadyInv
<1>0. ASSUME UNCHANGED <<pr, reviews, mergeVars>> PROVE ReadyInv'
  BY <1>0 DEF mergeVars, ApprovedAt
<1>1. ASSUME PrCreate PROVE ReadyInv'
  <2>1. UNCHANGED <<reviews, ready, basis, merger>> /\ pr' = "open"
    BY <1>1 DEF PrCreate, mergeVars
  <2>. QED
    BY <2>1 DEF ApprovedAt
<1>2. ASSUME NEW a \in Agents, NEW verdict \in Verdicts, PrReview(a, verdict) PROVE ReadyInv'
  <2>1. /\ UNCHANGED <<pr, ready, basis, merger>> /\ pr = "open"
        /\ reviews' = Append(reviews, [by |-> UserOf[a], verdict |-> verdict])
    BY <1>2 DEF PrReview, mergeVars
  <2>2. [by |-> UserOf[a], verdict |-> verdict] \in Reviews
    BY GiteaCliAssumption DEF Reviews
  <2>3. /\ reviews' \in Seq(Reviews)
        /\ Len(reviews') = Len(reviews) + 1
        /\ \A i \in 1 .. Len(reviews) : reviews'[i] = reviews[i]
    BY <2>1, <2>2, AppendProperties
  <2>4. ASSUME NEW n \in 0 .. Len(reviews), ApprovedAt(n) PROVE ApprovedAt(n)'
    <3>1. Len(reviews) \in Nat
      OBVIOUS
    <3>2. \A i \in 1 .. n : reviews'[i] = reviews[i]
      BY <2>3, <3>1
    <3>. QED
      BY <2>4, <3>2 DEF ApprovedAt
  <2>. QED
    BY <2>1, <2>3, <2>4
<1>3. ASSUME NEW a \in Agents, PrReviews(a) PROVE ReadyInv'
  <2>1. /\ UNCHANGED <<pr, reviews, merger>>
        /\ ready' = [ready EXCEPT ![a] = Ready]
        /\ basis' = [basis EXCEPT ![a] = Len(reviews)]
    BY <1>3 DEF PrReviews, giteaVars
  <2>2. Ready => ApprovedAt(Len(reviews))
    BY DEF Ready, Says, Shown, ApprovedAt
  <2>3. Ready \in BOOLEAN
    BY DEF Ready, Says
  <2>. QED
    BY <2>1, <2>2, <2>3 DEF ApprovedAt
<1>4. ASSUME NEW a \in Agents, PrMerge(a) PROVE ReadyInv'
  <2>1. UNCHANGED <<reviews, ready, basis>> /\ merger' = basis[a] /\ ready[a]
    BY <1>4 DEF PrMerge
  <2>. QED
    BY <2>1 DEF ApprovedAt
<1>5. CASE \/ \E n \in Names : AddLabel(n) \/ RemoveLabel(n)
           \/ \E i \in DOMAIN issues : IssueClose(i)
           \/ \E a \in Agents :
                 \/ IssueCreate(a) \/ ReadLabels(a) \/ CreateFails(a)
                 \/ \E names \in SUBSET Names \ {{}} : CompareLabels(a, names)
                 \/ \E assignees \in SUBSET Users : CreateIssue(a, assignees)
                 \/ IssueList(a)
  <2>1. UNCHANGED <<pr, reviews, mergeVars>>
    BY <1>5 DEF AddLabel, RemoveLabel, IssueClose, IssueCreate, ReadLabels, CreateFails,
                CompareLabels, CreateIssue, IssueList, giteaVars
  <2>. QED
    BY <1>0, <2>1
<1>7. CASE \E a \in Agents : \E i \in DOMAIN issues :
              \/ AssignMyself(a, i)
              \/ \E user \in Users : AssignOther(a, i, user)
  <2>1. UNCHANGED <<pr, reviews, mergeVars>>
    BY <1>7 DEF AssignMyself, AssignOther, Assign
  <2>. QED
    BY <1>0, <2>1
<1>6. CASE UNCHANGED vars
  BY <1>6, <1>0 DEF vars, giteaVars
<1>. QED
  BY <1>1, <1>2, <1>3, <1>4, <1>5, <1>6, <1>7 DEF Next

-----------------------------------------------------------------------------
(* Labels                                                                  *)

LEMMA PageRead ==
    ASSUME NEW c \in Resolving, NEW page \in SUBSET Names, NEW at \in {"read", "compare"}
    PROVE  [c EXCEPT !.all = @ \cup page, !.page = @ + 1, !.at = at] \in Resolving
<1>1. c.page + 1 \in Nat /\ c.all \cup page \in SUBSET Names
  BY DEF Resolving
<1>. QED
  BY <1>1 DEF Resolving

LEMMA LabelStep ==
    ASSUME IssueInv, LabelInv, [Next]_vars
    PROVE  LabelInv'
<1>. USE DEF LabelInv
<1>0. ASSUME UNCHANGED <<labels, removed>>,
             UNCHANGED create,
             DOMAIN issues' = DOMAIN issues,
             \A i \in DOMAIN issues : /\ issues'[i].labels = issues[i].labels
                                      /\ issues'[i].asked = issues[i].asked
      PROVE  LabelInv'
  BY <1>0
<1>1. ASSUME NEW n \in Names, AddLabel(n) PROVE LabelInv'
  BY <1>1 DEF AddLabel, labelVars
<1>2. ASSUME NEW n \in Names, RemoveLabel(n) PROVE LabelInv'
  <2>1. /\ n \in labels /\ labels' = labels \ {n} /\ removed' = removed \cup {n}
        /\ issues' = [i \in DOMAIN issues |-> [issues[i] EXCEPT !.labels = @ \ {n}]]
        /\ create' = [a \in Agents |->
                         IF create[a].at \in {"read", "compare"}
                         THEN [create[a] EXCEPT !.steady = @ \ {n}, !.shifted = TRUE]
                         ELSE create[a]]
    BY <1>2 DEF RemoveLabel
  <2>2. \A i \in DOMAIN issues : issues[i] \in IssueSet
    BY DEF IssueInv
  <2>3. \A i \in DOMAIN issues' :
           /\ issues'[i].labels = issues'[i].asked \ removed'
           /\ issues'[i].asked \subseteq labels' \cup removed'
    <3>1. \A r \in IssueSet : /\ [r EXCEPT !.labels = @ \ {n}].labels = r.labels \ {n}
                             /\ [r EXCEPT !.labels = @ \ {n}].asked = r.asked
      BY DEF IssueSet
    <3>. QED
      BY <2>1, <2>2, <3>1
  <2>4. \A a \in Agents :
           /\ create'[a] \in {Idle} \cup Resolving \cup Creating
           /\ create'[a].at = create[a].at
           /\ create[a].at \in {"read", "compare"} => create'[a].all = create[a].all
           /\ create[a].at = "create" => create'[a] = create[a]
    <3>1. ASSUME NEW a \in Agents, create[a].at \in {"read", "compare"}
          PROVE  /\ create'[a] \in Resolving
                 /\ create'[a].at = create[a].at
                 /\ create'[a].all = create[a].all
      <4>1. create[a] \in Resolving
        BY <3>1 DEF Idle, Creating
      <4>2. create'[a] = [create[a] EXCEPT !.steady = @ \ {n}, !.shifted = TRUE]
        BY <2>1, <3>1
      <4>. QED
        BY <4>1, <4>2 DEF Resolving
    <3>2. ASSUME NEW a \in Agents, create[a].at \notin {"read", "compare"}
          PROVE  create'[a] = create[a]
      BY <2>1, <3>2
    <3>. QED
      BY <3>1, <3>2
  <2>5. create' \in [Agents -> {Idle} \cup Resolving \cup Creating]
    BY <2>1, <2>4
  <2>. QED
    BY <2>1, <2>3, <2>4, <2>5
<1>3. ASSUME NEW a \in Agents, NEW c \in {Idle} \cup Resolving \cup Creating,
             create' = [create EXCEPT ![a] = c],
             UNCHANGED <<labels, removed, issues>>,
             c.at \in {"read", "compare"} => c.all \subseteq labels \cup removed,
             c.at = "create" => c.ids = c.names /\ c.ids \subseteq labels \cup removed
      PROVE  LabelInv'
  BY <1>3
<1>4. ASSUME NEW a \in Agents, IssueCreate(a) PROVE LabelInv'
  <2>1. PICK c \in {[at |-> "create", ids |-> {}, names |-> {}],
                    [at |-> "read", page |-> 1, all |-> {}, steady |-> labels, shifted |-> FALSE]} :
            create' = [create EXCEPT ![a] = c]
    BY <1>4 DEF IssueCreate
  <2>2. /\ c \in Resolving \cup Creating
        /\ c.at \in {"read", "compare"} => c.all = {}
        /\ c.at = "create" => c.ids = c.names /\ c.ids = {}
    <3>1. CASE c = [at |-> "create", ids |-> {}, names |-> {}]
      BY <3>1 DEF Creating
    <3>2. CASE c = [at |-> "read", page |-> 1, all |-> {}, steady |-> labels, shifted |-> FALSE]
      BY <3>2 DEF Resolving
    <3>. QED
      BY <3>1, <3>2
  <2>3. UNCHANGED <<labels, removed, issues>>
    BY <1>4 DEF IssueCreate, giteaVars
  <2>. QED
    BY <1>3, <2>1, <2>2, <2>3
<1>5. ASSUME NEW a \in Agents, ReadLabels(a) PROVE LabelInv'
  <2>. DEFINE page == LabelPage(create[a].page)
              at   == IF IsLast(page) THEN "compare" ELSE "read"
  <2>1. /\ create[a].at = "read"
        /\ create' = [create EXCEPT ![a].all = @ \cup page, ![a].page = @ + 1, ![a].at = at]
        /\ UNCHANGED <<labels, removed, issues>>
    BY <1>5 DEF ReadLabels, giteaVars
  <2>2. page \subseteq labels /\ at \in {"read", "compare"}
    BY DEF LabelPage
  <2>. HIDE DEF page, at
  <2>3. create[a] \in Resolving
    BY <2>1 DEF Idle, Creating
  <2>. DEFINE c == [create[a] EXCEPT !.all = @ \cup page, !.page = @ + 1, !.at = at]
  <2>4. c \in Resolving /\ c.all = create[a].all \cup page /\ c.at = at
    <3>1. c \in Resolving
      BY <2>2, <2>3, PageRead
    <3>2. c.all = create[a].all \cup page
      BY <2>3 DEF Resolving
    <3>3. c.at = at
      BY <2>3 DEF Resolving
    <3>. QED
      BY <3>1, <3>2, <3>3
  <2>5. create' = [create EXCEPT ![a] = c]
    BY <2>1
  <2>. HIDE DEF c
  <2>. QED
    BY <1>3, <2>1, <2>2, <2>4, <2>5
<1>6. ASSUME NEW a \in Agents, NEW names \in SUBSET Names \ {{}}, CompareLabels(a, names)
      PROVE  LabelInv'
  <2>1. create[a].at = "compare" /\ UNCHANGED <<labels, removed, issues>>
    BY <1>6 DEF CompareLabels, giteaVars
  <2>2. CASE AllFound(names, create[a].all)
    <3>. DEFINE c == [at |-> "create", ids |-> names \cap create[a].all, names |-> names]
    <3>1. create' = [create EXCEPT ![a] = c]
      BY <1>6, <2>2 DEF CompareLabels
    <3>2. c \in Creating /\ c.at = "create" /\ c.ids = c.names
      BY <2>2 DEF AllFound, Creating
    <3>3. c.ids \subseteq labels \cup removed
      BY <2>1
    <3>. HIDE DEF c
    <3>. QED
      BY <1>3, <2>1, <3>1, <3>2, <3>3
  <2>3. CASE ~AllFound(names, create[a].all)
    <3>1. create' = [create EXCEPT ![a] = Idle]
      BY <1>6, <2>3 DEF CompareLabels
    <3>. QED
      BY <1>3, <2>1, <3>1 DEF Idle
  <2>. QED
    BY <2>2, <2>3
<1>7. ASSUME NEW a \in Agents, CreateFails(a) PROVE LabelInv'
  <2>1. create' = [create EXCEPT ![a] = Idle] /\ UNCHANGED <<labels, removed, issues>>
    BY <1>7 DEF CreateFails, giteaVars
  <2>. QED
    BY <1>3, <2>1 DEF Idle
<1>8. ASSUME NEW a \in Agents, NEW assignees \in SUBSET Users, CreateIssue(a, assignees)
      PROVE  LabelInv'
  <2>. DEFINE new == [open |-> TRUE, assignees |-> assignees,
                      labels |-> create[a].ids \cap labels, asked |-> create[a].names]
  <2>1. /\ create[a].at = "create"
        /\ issues' = Append(issues, new)
        /\ create' = [create EXCEPT ![a] = Idle]
        /\ UNCHANGED <<labels, removed>>
    BY <1>8 DEF CreateIssue
  <2>2. create[a] \in Creating
    BY <2>1 DEF Idle, Resolving
  <2>3. new \in IssueSet
    BY <2>2 DEF Creating, IssueSet
  <2>4. new.labels = new.asked \ removed /\ new.asked \subseteq labels \cup removed
    BY <2>1
  <2>. HIDE DEF new
  <2>5. \A i \in DOMAIN issues' :
           \/ issues'[i] = new
           \/ i \in DOMAIN issues /\ issues'[i] = issues[i]
    <3>1. issues \in Seq(IssueSet) /\ Len(issues) \in Nat /\ DOMAIN issues = 1 .. Len(issues)
      BY DEF IssueInv
    <3>2. /\ issues' \in Seq(IssueSet)
          /\ Len(issues') = Len(issues) + 1
          /\ \A i \in 1 .. Len(issues) : issues'[i] = issues[i]
          /\ issues'[Len(issues) + 1] = new
      BY <2>1, <2>3, <3>1, AppendProperties
    <3>3. DOMAIN issues' = 1 .. Len(issues) + 1
      BY <3>2
    <3>4. ASSUME NEW i \in DOMAIN issues', i # Len(issues) + 1
          PROVE  i \in DOMAIN issues /\ issues'[i] = issues[i]
      <4>1. i \in 1 .. Len(issues)
        BY <3>1, <3>3, <3>4
      <4>. QED
        BY <3>1, <3>2, <4>1
    <3>. QED
      BY <3>2, <3>4
  <2>6. \A i \in DOMAIN issues' :
           /\ issues'[i].labels = issues'[i].asked \ removed'
           /\ issues'[i].asked \subseteq labels' \cup removed'
    BY <2>1, <2>4, <2>5
  <2>7. create' \in [Agents -> {Idle} \cup Resolving \cup Creating]
    BY <2>1
  <2>8. \A b \in Agents : create'[b] = IF b = a THEN Idle ELSE create[b]
    BY <2>1
  <2>. QED
    BY <2>1, <2>6, <2>7, <2>8 DEF Idle
<1>9. ASSUME NEW i \in DOMAIN issues, NEW r,
             r = [issues[i] EXCEPT !.open = FALSE]
               \/ \E user \in Users : r = [issues[i] EXCEPT !.assignees = {user}],
             issues' = [issues EXCEPT ![i] = r],
             UNCHANGED <<labels, removed, create>>
      PROVE  LabelInv'
  <2>1. IssueInv /\ issues[i] \in IssueSet
    BY DEF IssueInv
  <2>2. r \in IssueSet /\ r.labels = issues[i].labels /\ r.asked = issues[i].asked
    <3>1. CASE r = [issues[i] EXCEPT !.open = FALSE]
      BY <2>1, <3>1 DEF IssueSet
    <3>2. ASSUME NEW user \in Users, r = [issues[i] EXCEPT !.assignees = {user}]
          PROVE  r \in IssueSet /\ r.labels = issues[i].labels /\ r.asked = issues[i].asked
      BY <2>1, <3>2 DEF IssueSet
    <3>. QED
      BY <1>9, <3>1, <3>2
  <2>3. /\ DOMAIN issues' = DOMAIN issues
        /\ \A j \in DOMAIN issues : issues'[j] = IF j = i THEN r ELSE issues[j]
    BY <1>9, <2>1, <2>2, OneEdited
  <2>4. \A j \in DOMAIN issues : /\ issues'[j].labels = issues[j].labels
                                 /\ issues'[j].asked = issues[j].asked
    BY <2>2, <2>3
  <2>. QED
    BY <1>0, <1>9, <2>3, <2>4
<1>10. ASSUME NEW i \in DOMAIN issues, IssueClose(i) PROVE LabelInv'
  <2>1. /\ issues' = [issues EXCEPT ![i] = [issues[i] EXCEPT !.open = FALSE]]
        /\ UNCHANGED <<labels, removed, create>>
    BY <1>10 DEF IssueClose, labelVars
  <2>. QED
    BY <1>9, <2>1
<1>11. ASSUME NEW a \in Agents, NEW i \in DOMAIN issues, NEW user \in Users,
              Assign(a, i, user)
       PROVE  LabelInv'
  <2>1. /\ issues' = [issues EXCEPT ![i] = [issues[i] EXCEPT !.assignees = {user}]]
        /\ UNCHANGED <<labels, removed, create>>
    BY <1>11 DEF Assign, labelVars
  <2>. QED
    BY <1>9, <2>1
<1>12. CASE \/ PrCreate
            \/ \E a \in Agents :
                  \/ IssueList(a)
                  \/ \E verdict \in Verdicts : PrReview(a, verdict)
                  \/ PrReviews(a) \/ PrMerge(a)
  <2>1. UNCHANGED <<labels, removed, create, issues>>
    BY <1>12 DEF PrCreate, IssueList, PrReview, PrReviews, PrMerge, giteaVars, labelVars
  <2>. QED
    BY <1>0, <2>1
<1>13. CASE UNCHANGED vars
  BY <1>13, <1>0 DEF vars, giteaVars, labelVars
<1>. QED
  BY <1>1, <1>2, <1>4, <1>5, <1>6, <1>7, <1>8, <1>10, <1>11, <1>12, <1>13, GiteaCliAssumption
     DEF Next, AssignMyself, AssignOther

-----------------------------------------------------------------------------
(* Pages                                                                   *)

\* The least number of a set.
LEMMA LeastOf ==
    ASSUME NEW T \in SUBSET Nat, T # {}
    PROVE  \E x \in T : \A y \in T : x <= y
<1>. DEFINE R == OpToRel(<, Nat)
<1>1. IsWellFoundedOn(R, Nat)
  BY NatLessThanWellFounded
<1>2. \A x, y \in Nat : x < y => <<x, y>> \in R
  BY DEF OpToRel
<1>. HIDE DEF R
<1>3. PICK x \in T : \A y \in T : ~(<<y, x>> \in R)
  BY <1>1, WFMin
<1>4. x \in Nat /\ \A y \in T : y \in Nat /\ ~(y < x)
  BY <1>2, <1>3
<1>5. \A y \in T : x <= y
  BY <1>4
<1>. QED
  BY <1>5

\* The greatest of those below y.
LEMMA GreatestBelow ==
    ASSUME NEW T \in SUBSET Nat, T # {}, NEW y \in Nat, \A l \in T : l < y
    PROVE  \E z \in T : \A l \in T : l <= z
<1>. DEFINE Over == {m \in Nat : \A l \in T : l <= m}
<1>1. y \in Over
  OBVIOUS
<1>2. PICK z \in Over : \A m \in Over : z <= m
  BY <1>1, LeastOf
<1>3. z \in T
  <2>1. SUFFICES ASSUME z \notin T PROVE FALSE
    OBVIOUS
  <2>2. \A l \in T : l <= z - 1 /\ z - 1 \in Nat
    BY <1>2, <2>1
  <2>3. z - 1 \in Over
    BY <2>2
  <2>. QED
    BY <1>2, <2>3
<1>. QED
  BY <1>2, <1>3

LEMMA RankType ==
    ASSUME NEW S \in SUBSET Nat, NEW n \in Nat
    PROVE  IsFiniteSet({l \in S : l <= n}) /\ Rank(S, n) \in Nat
<1>1. IsFiniteSet({l \in S : l <= n})
  BY FS_BoundedSetOfNaturals
<1>. QED
  BY <1>1, FS_CardinalityType DEF Rank

LEMMA RankOfMore ==
    ASSUME NEW T \in SUBSET Nat, NEW S \in SUBSET T, NEW n \in Nat
    PROVE  Rank(S, n) <= Rank(T, n)
<1>. DEFINE M == {l \in S : l <= n}
            N == {l \in T : l <= n}
<1>1. M \subseteq N
  <2>1. S \subseteq T
    OBVIOUS
  <2>. QED
    BY <2>1, Zenon
<1>2. IsFiniteSet(N)
  BY RankType
<1>. HIDE DEF M, N
<1>3. Cardinality(M) <= Cardinality(N)
  BY <1>1, <1>2, FS_Subset
<1>. QED
  BY <1>3 DEF Rank, M, N

LEMMA RankGrows ==
    ASSUME NEW S \in SUBSET Nat, NEW m \in Nat, NEW n \in S, m < n
    PROVE  Rank(S, m) < Rank(S, n)
<1>. DEFINE M == {l \in S : l <= m}
            N == {l \in S : l <= n}
<1>1. M \subseteq N /\ n \in N /\ n \notin M
  <2>1. m \in Nat /\ n \in Nat /\ \A l \in S : l \in Nat
    OBVIOUS
  <2>2. \A l \in S : l <= m => l <= n
    BY <2>1
  <2>3. n <= n /\ ~(n <= m)
    BY <2>1
  <2>. QED
    BY <2>2, <2>3, Zenon
<1>2. IsFiniteSet(N) /\ Cardinality(N) \in Nat /\ Cardinality(M) \in Nat
  BY RankType DEF Rank
<1>3. Cardinality(M) <= Cardinality(N) /\ (Cardinality(M) = Cardinality(N) => M = N)
  BY <1>1, <1>2, FS_Subset
<1>. QED
  BY <1>1, <1>2, <1>3 DEF Rank

\* No rank is left out.
LEMMA EveryRank ==
    ASSUME NEW S \in SUBSET Nat, NEW x \in S, NEW k \in Nat, 1 <= k, k <= Rank(S, x)
    PROVE  \E y \in S : Rank(S, y) = k
<1>1. PICK y \in {z \in S : k <= Rank(S, z)} : \A z \in S : k <= Rank(S, z) => y <= z
  <2>1. {z \in S : k <= Rank(S, z)} # {}
    OBVIOUS
  <2>2. PICK y \in {z \in S : k <= Rank(S, z)} :
            \A z \in {w \in S : k <= Rank(S, w)} : y <= z
    BY <2>1, LeastOf
  <2>. QED
    BY <2>2
<1>2. SUFFICES ASSUME Rank(S, y) # k PROVE FALSE
  BY <1>1
<1>. DEFINE Upto  == {l \in S : l <= y}
            Below == {l \in S : l < y}
<1>3. IsFiniteSet(Upto) /\ Cardinality(Upto) \in Nat /\ Cardinality(Upto) > k
  BY <1>1, <1>2, RankType DEF Rank
<1>4. IsFiniteSet(Below) /\ Cardinality(Below) = Cardinality(Upto) - 1
  <2>1. y \in Nat /\ y \in Upto
    BY <1>1
  <2>2. Below = Upto \ {y}
    <3>1. \A l \in Nat : l < y <=> l <= y /\ l # y
      BY <2>1
    <3>. QED
      BY <3>1
  <2>. HIDE DEF Below, Upto
  <2>. QED
    BY <1>3, <2>1, <2>2, FS_RemoveElement
<1>5. Below # {}
  BY <1>3, <1>4, FS_EmptySet
<1>6. PICK z \in Below : \A l \in Below : l <= z
  <2>1. Below \in SUBSET Nat /\ \A l \in Below : l < y
    OBVIOUS
  <2>. QED
    BY <1>5, <2>1, GreatestBelow
<1>7. {l \in S : l <= z} = Below
  <2>1. z \in Nat /\ z < y /\ y \in Nat
    BY <1>6
  <2>2. \A l \in S : l <= z <=> l < y
    BY <1>6, <2>1
  <2>. QED
    BY <2>2
<1>8. k <= Rank(S, z)
  BY <1>3, <1>4, <1>7 DEF Rank
<1>. QED
  BY <1>1, <1>6, <1>8

\* A page that is followed by another is full.
LEMMA FullPage ==
    ASSUME NEW S \in SUBSET Nat, NEW a \in Nat, NEW n \in Nat,
           NEW x \in S, Rank(S, x) > a + n
    PROVE  Cardinality({y \in S : a < Rank(S, y) /\ Rank(S, y) <= a + n}) >= n
<1>. DEFINE page == {y \in S : a < Rank(S, y) /\ Rank(S, y) <= a + n}
            at(k) == CHOOSE y \in S : Rank(S, y) = a + k
            f == [k \in 1 .. n |-> at(k)]
<1>1. \A k \in 1 .. n : at(k) \in S /\ Rank(S, at(k)) = a + k
  <2>1. SUFFICES ASSUME NEW k \in 1 .. n PROVE \E y \in S : Rank(S, y) = a + k
    OBVIOUS
  <2>2. a + k \in Nat /\ 1 <= a + k /\ a + k <= Rank(S, x)
    <3>1. Rank(S, x) \in Nat
      BY RankType
    <3>. QED
      BY <3>1
  <2>. QED
    BY <2>2, EveryRank
<1>2. f \in [1 .. n -> page]
  BY <1>1
<1>3. \A j, k \in 1 .. n : f[j] = f[k] => j = k
  BY <1>1
<1>4. f \in Injection(1 .. n, page)
  BY <1>2, <1>3 DEF Injection, IsInjective
<1>5. IsFiniteSet(page)
  <2>1. \A y \in page : y <= x
    <3>1. SUFFICES ASSUME NEW y \in page, x < y PROVE FALSE
      OBVIOUS
    <3>2. Rank(S, x) < Rank(S, y)
      BY <3>1, RankGrows
    <3>3. Rank(S, x) \in Nat /\ Rank(S, y) \in Nat
      BY RankType
    <3>. QED
      BY <3>1, <3>2, <3>3
  <2>. QED
    BY <2>1, FS_BoundedSetOfNaturals
<1>6. Cardinality(1 .. n) = n
  BY FS_Interval
<1>. HIDE DEF f
<1>. QED
  BY <1>4, <1>5, <1>6, FS_Injection

\* What one agent's step in a creation must leave of its own lookup.
FoundUpTo(c) ==
    c.at \in {"read", "compare"} =>
        /\ c.page # 0
        /\ c.steady \subseteq labels
        /\ ~c.shifted => \A n \in c.steady :
              \/ n \in c.all
              \/ c.at = "read" /\ (c.page - 1) * PageSize < Rank(labels, n)

LEMMA LookupStep ==
    ASSUME LabelInv, LookupInv, PageSize \in Nat \ {0}, Names \subseteq Nat, [Next]_vars
    PROVE  LookupInv'
<1>. USE DEF LookupInv
<1>0. labels \in SUBSET Nat
  BY DEF LabelInv
<1>1. \A a \in Agents : create[a].at \in {"read", "compare"} => create[a] \in Resolving
  BY DEF LabelInv, Idle, Creating
<1>2. ASSUME NEW n \in Names, AddLabel(n) PROVE LookupInv'
  <2>1. /\ labels' = labels \cup {n}
        /\ UNCHANGED <<create, refusals>>
    BY <1>2 DEF AddLabel, labelVars
  <2>2. \A m \in labels : Rank(labels, m) <= Rank(labels', m)
    <3>1. labels' \in SUBSET Nat /\ labels \in SUBSET labels'
      BY <1>0, <2>1
    <3>. QED
      BY <1>0, <3>1, RankOfMore
  <2>3. \A m \in labels : Rank(labels, m) \in Nat /\ Rank(labels', m) \in Nat
    <3>1. labels' \in SUBSET Nat
      BY <1>0, <2>1
    <3>. QED
      BY <1>0, <3>1, RankType
  <2>4. ASSUME NEW a \in Agents, create[a].at \in {"read", "compare"},
               ~create[a].shifted, NEW m \in create[a].steady, m \notin create[a].all
        PROVE  create[a].at = "read" /\ (create[a].page - 1) * PageSize < Rank(labels', m)
    <3>1. m \in labels /\ create[a].at = "read" /\ (create[a].page - 1) * PageSize < Rank(labels, m)
      BY <2>4
    <3>2. create[a].page \in Nat
      BY <1>1, <2>4 DEF Resolving
    <3>3. (create[a].page - 1) * PageSize \in Int
      BY <3>2
    <3>. QED
      BY <2>2, <2>3, <3>1, <3>3
  <2>5. \A a \in Agents : create[a].at \in {"read", "compare"} => create[a].steady \subseteq labels'
    BY <2>1
  <2>. QED
    BY <2>1, <2>4, <2>5
<1>3. ASSUME NEW n \in Names, RemoveLabel(n) PROVE LookupInv'
  <2>1. /\ labels' = labels \ {n} /\ refusals' = refusals
        /\ create' = [a \in Agents |->
                         IF create[a].at \in {"read", "compare"}
                         THEN [create[a] EXCEPT !.steady = @ \ {n}, !.shifted = TRUE]
                         ELSE create[a]]
    BY <1>3 DEF RemoveLabel
  <2>2. ASSUME NEW a \in Agents, create'[a].at \in {"read", "compare"}
        PROVE  create'[a].page # 0 /\ create'[a].steady \subseteq labels' /\ create'[a].shifted
    <3>1. CASE create[a].at \in {"read", "compare"}
      <4>1. create'[a] = [create[a] EXCEPT !.steady = @ \ {n}, !.shifted = TRUE]
        BY <2>1, <3>1
      <4>2. create[a] \in Resolving
        BY <1>1, <3>1
      <4>3. /\ create'[a].page = create[a].page
            /\ create'[a].steady = create[a].steady \ {n}
            /\ create'[a].shifted = TRUE
        BY <4>1, <4>2 DEF Resolving
      <4>. QED
        BY <2>1, <3>1, <4>3
    <3>2. CASE create[a].at \notin {"read", "compare"}
      BY <2>1, <2>2, <3>2
    <3>. QED
      BY <3>1, <3>2
  <2>. QED
    BY <2>1, <2>2
<1>4. ASSUME NEW a \in Agents, NEW c, create' = [create EXCEPT ![a] = c], FoundUpTo(c),
             UNCHANGED <<labels, refusals>>
      PROVE  LookupInv'
  <2>1. \A b \in Agents : create'[b] = IF b = a THEN c ELSE create[b]
    BY <1>4 DEF LabelInv
  <2>. QED
    BY <1>4, <2>1 DEF FoundUpTo
<1>5. ASSUME NEW a \in Agents, IssueCreate(a) PROVE LookupInv'
  <2>1. PICK c \in {[at |-> "create", ids |-> {}, names |-> {}],
                    [at |-> "read", page |-> 1, all |-> {}, steady |-> labels, shifted |-> FALSE]} :
            create' = [create EXCEPT ![a] = c]
    BY <1>5 DEF IssueCreate
  <2>2. FoundUpTo(c)
    <3>1. CASE c.at = "create"
      BY <3>1 DEF FoundUpTo
    <3>2. CASE c = [at |-> "read", page |-> 1, all |-> {}, steady |-> labels, shifted |-> FALSE]
      <4>1. \A n \in labels : Rank(labels, n) \in Nat /\ Rank(labels, n) # 0
        <5>1. SUFFICES ASSUME NEW n \in labels
                       PROVE  Rank(labels, n) \in Nat /\ Rank(labels, n) # 0
          OBVIOUS
        <5>2. n \in Nat /\ n \in {l \in labels : l <= n}
          BY <1>0
        <5>3. IsFiniteSet({l \in labels : l <= n}) /\ Rank(labels, n) \in Nat
          BY <1>0, <5>2, RankType
        <5>4. Cardinality({l \in labels : l <= n}) # 0
          BY <5>2, <5>3, FS_EmptySet
        <5>. QED
          BY <5>3, <5>4 DEF Rank
      <4>2. (1 - 1) * PageSize = 0
        OBVIOUS
      <4>3. \A n \in labels : (1 - 1) * PageSize < Rank(labels, n)
        BY <4>1, <4>2
      <4>. QED
        BY <3>2, <4>3 DEF FoundUpTo
    <3>. QED
      BY <3>1, <3>2
  <2>3. UNCHANGED <<labels, refusals>>
    BY <1>5 DEF IssueCreate, giteaVars
  <2>. QED
    BY <1>4, <2>1, <2>2, <2>3
<1>6. ASSUME NEW a \in Agents, ReadLabels(a) PROVE LookupInv'
  <2>1. create[a].at = "read" /\ create[a] \in Resolving /\ UNCHANGED <<labels, refusals>>
    BY <1>1, <1>6 DEF ReadLabels, giteaVars
  <2>2. PICK k \in Nat, p \in Nat, page \in SUBSET labels, at \in {"read", "compare"} :
           /\ k = create[a].page
           /\ p = (k - 1) * PageSize /\ p + PageSize = ((k + 1) - 1) * PageSize
           /\ page = {n \in labels : p < Rank(labels, n) /\ Rank(labels, n) <= p + PageSize}
           /\ create' = [create EXCEPT ![a].all = @ \cup page, ![a].page = @ + 1, ![a].at = at]
           /\ at = "compare" => Cardinality(page) < PageSize
    <3>1. create[a].page \in Nat /\ create[a].page # 0
      BY <2>1 DEF Resolving
    <3>. DEFINE k == create[a].page
                p == (k - 1) * PageSize
                page == LabelPage(k)
                at == IF IsLast(page) THEN "compare" ELSE "read"
    <3>2. p \in Nat /\ p + PageSize = k * PageSize /\ k = (k + 1) - 1
      BY <3>1
    <3>3. page \in SUBSET labels
      BY DEF LabelPage
    <3>4. page = {n \in labels : p < Rank(labels, n) /\ Rank(labels, n) <= k * PageSize}
      BY DEF LabelPage, Rank
    <3>5. create' = [create EXCEPT ![a].all = @ \cup page, ![a].page = @ + 1, ![a].at = at]
      BY <1>6 DEF ReadLabels
    <3>6. at \in {"read", "compare"} /\ (at = "compare" => Cardinality(page) < PageSize)
      BY DEF IsLast
    <3>. HIDE DEF page, at, p
    <3>7. page = {n \in labels : p < Rank(labels, n) /\ Rank(labels, n) <= p + PageSize}
      BY <3>2, <3>4
    <3>. QED
      BY <3>1, <3>2, <3>3, <3>5, <3>6, <3>7 DEF p
  <2>. DEFINE c == [create[a] EXCEPT !.all = @ \cup page, !.page = @ + 1, !.at = at]
  <2>3. create' = [create EXCEPT ![a] = c]
    BY <2>2
  <2>4. /\ c.all = create[a].all \cup page
        /\ c.page = k + 1
        /\ c.at = at
        /\ c.steady = create[a].steady
        /\ c.shifted = create[a].shifted
    BY <2>1, <2>2 DEF Resolving
  <2>. HIDE DEF c
  <2>5. k + 1 # 0 /\ p \in Nat /\ p + PageSize \in Nat
    OBVIOUS
  <2>6. /\ page = {n \in labels : p < Rank(labels, n) /\ Rank(labels, n) <= p + PageSize}
        /\ at = "compare" => Cardinality(page) < PageSize
    BY <2>2
  <2>7. \A n \in labels : Rank(labels, n) \in Nat
    BY <1>0, RankType
  <2>8. at = "compare" => \A n \in labels : Rank(labels, n) <= p + PageSize
    <3>1. SUFFICES ASSUME at = "compare", NEW n \in labels, Rank(labels, n) > p + PageSize
                   PROVE  FALSE
      BY <2>5, <2>7
    <3>2. Cardinality(page) >= PageSize
      BY <1>0, <2>6, <3>1, FullPage
    <3>3. Cardinality(page) < PageSize
      BY <2>6, <3>1
    <3>4. page \in SUBSET {l \in labels : l <= n}
      <4>1. \A l \in page : l \in Nat /\ l <= n
        <5>1. SUFFICES ASSUME NEW l \in page, n < l PROVE FALSE
          BY <1>0, <2>6
        <5>2. Rank(labels, n) < Rank(labels, l)
          BY <1>0, <2>6, <5>1, RankGrows
        <5>3. Rank(labels, l) <= p + PageSize
          BY <2>6
        <5>. QED
          BY <2>5, <2>7, <2>6, <3>1, <5>2, <5>3
      <4>. QED
        BY <2>6, <4>1
    <3>5. Cardinality(page) \in Nat
      BY <1>0, <3>4, RankType, FS_Subset, FS_CardinalityType
    <3>. QED
      BY <3>2, <3>3, <3>5
  <2>9. ASSUME ~c.shifted, NEW n \in c.steady, n \notin c.all
        PROVE  at = "read" /\ (c.page - 1) * PageSize < Rank(labels, n)
    <3>1. n \in labels /\ n \notin page /\ p < Rank(labels, n)
      BY <2>1, <2>2, <2>4, <2>9
    <3>2. p + PageSize < Rank(labels, n)
      BY <2>5, <2>7, <2>6, <3>1
    <3>3. at = "read"
      BY <2>5, <2>7, <2>8, <3>1, <3>2
    <3>4. (c.page - 1) * PageSize = p + PageSize
      BY <2>2, <2>4, Zenon
    <3>. QED
      BY <3>2, <3>3, <3>4
  <2>10. c.page # 0 /\ c.steady \subseteq labels
    BY <2>1, <2>4, <2>5
  <2>11. FoundUpTo(c)
    BY <2>4, <2>9, <2>10 DEF FoundUpTo
  <2>. QED
    BY <1>4, <2>1, <2>3, <2>11
<1>7. ASSUME NEW a \in Agents, NEW names \in SUBSET Names \ {{}}, CompareLabels(a, names)
      PROVE  LookupInv'
  <2>1. create[a].at = "compare" /\ labels' = labels
    BY <1>7 DEF CompareLabels, giteaVars
  <2>2. CASE AllFound(names, create[a].all)
    <3>. DEFINE c == [at |-> "create", ids |-> names \cap create[a].all, names |-> names]
    <3>1. create' = [create EXCEPT ![a] = c] /\ refusals' = refusals
      BY <1>7, <2>2 DEF CompareLabels
    <3>2. FoundUpTo(c)
      BY DEF FoundUpTo
    <3>. HIDE DEF c
    <3>. QED
      BY <1>4, <2>1, <3>1, <3>2
  <2>3. CASE ~AllFound(names, create[a].all)
    <3>1. /\ create' = [create EXCEPT ![a] = Idle]
          /\ refusals' = refusals \cup
                {[steady |-> n \in create[a].steady, shifted |-> create[a].shifted] :
                    n \in names \ create[a].all}
      BY <1>7, <2>3 DEF CompareLabels
    <3>2. \A b \in Agents : create'[b] = IF b = a THEN Idle ELSE create[b]
      BY <3>1 DEF LabelInv
    <3>3. create[a].shifted \/ create[a].steady \subseteq create[a].all
      BY <2>1
    <3>4. ASSUME NEW r \in refusals' PROVE ~r.steady \/ r.shifted
      <4>1. CASE r \in refusals
        BY <4>1
      <4>2. CASE r \notin refusals
        <5>1. PICK n \in names \ create[a].all :
                 r = [steady |-> n \in create[a].steady, shifted |-> create[a].shifted]
          BY <3>1, <4>2
        <5>2. r.shifted = create[a].shifted /\ r.steady = (n \in create[a].steady)
          BY <5>1
        <5>. QED
          BY <3>3, <5>2
      <4>. QED
        BY <4>1, <4>2
    <3>. QED
      BY <2>1, <3>2, <3>4 DEF Idle
  <2>. QED
    BY <2>2, <2>3
<1>8. ASSUME NEW a \in Agents,
             \/ CreateFails(a)
             \/ \E assignees \in SUBSET Users : CreateIssue(a, assignees)
      PROVE  LookupInv'
  <2>1. create' = [create EXCEPT ![a] = Idle] /\ UNCHANGED <<labels, refusals>>
    BY <1>8 DEF CreateFails, CreateIssue, giteaVars
  <2>. QED
    BY <1>4, <2>1 DEF FoundUpTo, Idle
<1>9. CASE UNCHANGED <<labels, create, refusals>>
  BY <1>9
<1>10. CASE \/ PrCreate
            \/ \E i \in DOMAIN issues : IssueClose(i)
            \/ \E a \in Agents :
                  \/ IssueList(a)
                  \/ \E i \in DOMAIN issues :
                        \/ AssignMyself(a, i)
                        \/ \E user \in Users : AssignOther(a, i, user)
                  \/ \E verdict \in Verdicts : PrReview(a, verdict)
                  \/ PrReviews(a) \/ PrMerge(a)
  <2>1. UNCHANGED <<labels, create, refusals>>
    BY <1>10 DEF PrCreate, IssueClose, IssueList, AssignMyself, AssignOther, Assign,
                 PrReview, PrReviews, PrMerge, giteaVars, labelVars
  <2>. QED
    BY <1>9, <2>1
<1>11. CASE UNCHANGED vars
  BY <1>9, <1>11 DEF vars, giteaVars, labelVars
<1>. QED
  BY <1>2, <1>3, <1>5, <1>6, <1>7, <1>8, <1>10, <1>11 DEF Next

-----------------------------------------------------------------------------
(* Bounds                                                                  *)

LEMMA BoundsStep ==
    ASSUME ClaimsInv, ReadyInv, BoundsInv, [Next]_vars
    PROVE  BoundsInv'
<1>. USE DEF BoundsInv
<1>1. MaxSteps \in Nat /\ MaxFaults \in Nat /\ MaxIssues \in Nat /\ MaxReviews \in Nat
  BY GiteaCliAssumption
<1>2. /\ Step => steps' \in 0 .. MaxSteps
      /\ Fault => faults' \in 0 .. MaxFaults
  BY <1>1 DEF Step, Fault
<1>3. ASSUME pr' \in {"none", "open", "merged"}, author' = author, Len(issues') <= MaxIssues,
             Len(reviews') <= MaxReviews,
             steps' \in 0 .. MaxSteps, faults' \in 0 .. MaxFaults, UNCHANGED claimVars
      PROVE  BoundsInv'
  BY <1>3 DEF claimVars
<1>4. ASSUME NEW n \in Names, RemoveLabel(n) PROVE BoundsInv'
  <2>1. /\ UNCHANGED <<pr, author, reviews, claimVars, faults>> /\ Step
        /\ issues' = [i \in DOMAIN issues |-> [issues[i] EXCEPT !.labels = @ \ {n}]]
    BY <1>4 DEF RemoveLabel
  <2>2. Len(issues') = Len(issues)
    <3>1. Len(issues) \in Nat /\ DOMAIN issues = 1 .. Len(issues)
      BY DEF ClaimsInv, IssueInv
    <3>. QED
      BY <2>1, <3>1
  <2>. QED
    BY <1>2, <1>3, <2>1, <2>2
<1>5. ASSUME NEW i \in DOMAIN issues, IssueClose(i) PROVE BoundsInv'
  <2>1. /\ UNCHANGED <<pr, author, reviews, claimVars, faults>> /\ Step
        /\ issues' = [issues EXCEPT ![i] = [issues[i] EXCEPT !.open = FALSE]]
    BY <1>5 DEF IssueClose
  <2>2. Len(issues') = Len(issues)
    BY <2>1 DEF ClaimsInv, IssueInv
  <2>. QED
    BY <1>2, <1>3, <2>1, <2>2
<1>6. ASSUME NEW a \in Agents, NEW i \in DOMAIN issues, NEW user \in Users, Assign(a, i, user)
      PROVE  /\ UNCHANGED <<pr, author, reviews, free>> /\ steps' \in 0 .. MaxSteps
             /\ Len(issues') = Len(issues)
             /\ \A b \in Agents : stale'[b] \subseteq free'[b] /\ lost'[b] \subseteq mine[b]
  <2>1. /\ UNCHANGED <<pr, author, reviews, free>> /\ Step
        /\ issues' = [issues EXCEPT ![i] = [issues[i] EXCEPT !.assignees = {user}]]
        /\ stale' = [b \in Agents |-> stale[b] \cup
                        {j \in free[b] : j = i /\ (b # a \/ user # UserOf[b])}]
        /\ lost' = [b \in Agents |-> lost[b] \cup {j \in mine[b] : j = i /\ user # UserOf[b]}]
    BY <1>6 DEF Assign
  <2>2. Len(issues') = Len(issues)
    BY <2>1 DEF ClaimsInv, IssueInv
  <2>3. \A b \in Agents : stale'[b] \subseteq free'[b] /\ lost'[b] \subseteq mine[b]
    BY <2>1
  <2>. QED
    BY <1>2, <2>1, <2>2, <2>3
<1>7. ASSUME NEW a \in Agents, NEW i \in DOMAIN issues, AssignMyself(a, i) PROVE BoundsInv'
  <2>1. /\ UNCHANGED <<pr, author, reviews, free>> /\ steps' \in 0 .. MaxSteps
        /\ Len(issues') = Len(issues)
        /\ \A b \in Agents : stale'[b] \subseteq free'[b] /\ lost'[b] \subseteq mine[b]
    BY <1>6, <1>7, GiteaCliAssumption DEF AssignMyself
  <2>2. \/ /\ mine' = [mine EXCEPT ![a] = @ \cup {i}]
           /\ raced' = [raced EXCEPT ![a] = IF i \in stale[a] THEN @ \cup {i} ELSE @]
           /\ faults' = faults
        \/ Fault /\ mine' = mine /\ raced' = raced
    BY <1>7 DEF AssignMyself
  <2>3. faults' \in 0 .. MaxFaults
    BY <1>2, <2>2
  <2>4. \A b \in Agents : raced'[b] \subseteq mine'[b] /\ mine[b] \subseteq mine'[b]
    BY <2>2 DEF ClaimsInv, ListInv
  <2>. QED
    BY <2>1, <2>3, <2>4
<1>8. ASSUME NEW a \in Agents, NEW i \in DOMAIN issues, NEW user \in Users,
             AssignOther(a, i, user)
      PROVE  BoundsInv'
  <2>1. /\ UNCHANGED <<pr, author, reviews, free>> /\ steps' \in 0 .. MaxSteps
        /\ Len(issues') = Len(issues)
        /\ \A b \in Agents : stale'[b] \subseteq free'[b] /\ lost'[b] \subseteq mine[b]
    BY <1>6, <1>8 DEF AssignOther
  <2>2. UNCHANGED <<mine, raced, faults>>
    BY <1>8 DEF AssignOther
  <2>. QED
    BY <2>1, <2>2
<1>9. ASSUME NEW a \in Agents, IssueList(a) PROVE BoundsInv'
  <2>1. /\ UNCHANGED <<pr, author, reviews, issues, mine, raced, lost, faults>> /\ Step
        /\ free' = [free EXCEPT ![a] = {i \in Listed : Unassigned(i)}]
        /\ stale' = [stale EXCEPT ![a] = {}]
    BY <1>9 DEF IssueList, giteaVars
  <2>2. \A b \in Agents : stale'[b] \subseteq free'[b]
    BY <2>1 DEF ClaimsInv, ListInv
  <2>. QED
    BY <1>2, <2>1, <2>2
<1>10. ASSUME NEW a \in Agents, NEW assignees \in SUBSET Users, CreateIssue(a, assignees)
       PROVE  BoundsInv'
  <2>1. /\ UNCHANGED <<pr, author, reviews, claimVars, steps>> /\ (faults' = faults \/ Fault)
        /\ Len(issues) < MaxIssues
        /\ \E r : issues' = Append(issues, r)
    BY <1>10 DEF CreateIssue
  <2>2. Len(issues') = Len(issues) + 1 /\ Len(issues) \in Nat
    BY <2>1, AppendProperties DEF ClaimsInv, IssueInv
  <2>. QED
    BY <1>1, <1>2, <1>3, <2>1, <2>2
<1>11. ASSUME NEW a \in Agents, NEW verdict \in Verdicts, PrReview(a, verdict)
       PROVE  BoundsInv'
  <2>1. /\ UNCHANGED <<pr, author, issues, claimVars, faults>> /\ Step
        /\ Len(reviews) < MaxReviews
        /\ \E r : reviews' = Append(reviews, r)
    BY <1>11 DEF PrReview
  <2>2. Len(reviews') = Len(reviews) + 1 /\ Len(reviews) \in Nat
    BY <2>1, AppendProperties DEF ReadyInv
  <2>. QED
    BY <1>1, <1>2, <1>3, <2>1, <2>2
<1>12. CASE \/ PrCreate
            \/ \E n \in Names : AddLabel(n)
            \/ \E a \in Agents :
                  \/ IssueCreate(a) \/ ReadLabels(a) \/ CreateFails(a)
                  \/ \E names \in SUBSET Names \ {{}} : CompareLabels(a, names)
                  \/ PrReviews(a) \/ PrMerge(a)
  <2>1. UNCHANGED <<author, issues, reviews, claimVars>> /\ pr' \in {"none", "open", "merged"}
    BY <1>12 DEF PrCreate, AddLabel, IssueCreate, ReadLabels, CreateFails, CompareLabels,
                 PrReviews, PrMerge, giteaVars
  <2>2. (steps' = steps \/ Step) /\ (faults' = faults \/ Fault)
    BY <1>12 DEF PrCreate, AddLabel, IssueCreate, ReadLabels, CreateFails, CompareLabels,
                 PrReviews, PrMerge
  <2>. QED
    BY <1>2, <1>3, <2>1, <2>2
<1>13. CASE UNCHANGED vars
  BY <1>3, <1>13 DEF vars, giteaVars
<1>. QED
  BY <1>4, <1>5, <1>7, <1>8, <1>9, <1>10, <1>11, <1>12, <1>13 DEF Next

-----------------------------------------------------------------------------
(* The theorems                                                            *)

LEMMA Invariance == Spec => []IInv
<1>1. /\ ReviewPage \in Nat /\ PageSize \in Nat \ {0}
      /\ FirstLabels \subseteq Names /\ Names \subseteq Nat
      /\ {MaxIssues, MaxReviews, MaxFaults, MaxSteps} \subseteq Nat
  BY GiteaCliAssumption
<1>2. Init => IInv
  <2>1. SUFFICES ASSUME Init PROVE IInv
    OBVIOUS
  <2>2. ClaimsInv
    BY <2>1 DEF Init, ClaimsInv, IssueInv, ListInv, ClaimInv, TakenTwice
  <2>7. OwnersInv
    BY <2>1 DEF Init, OwnersInv, OwnerInv, ShownToOthers
  <2>3. ReadyInv
    BY <2>1 DEF Init, ReadyInv
  <2>4. LabelInv
    BY <1>1, <2>1 DEF Init, LabelInv, Idle
  <2>5. LookupInv
    BY <2>1 DEF Init, LookupInv, Idle
  <2>6. BoundsInv
    BY <1>1, <2>1 DEF Init, BoundsInv
  <2>. QED
    BY <2>2, <2>3, <2>4, <2>5, <2>6, <2>7 DEF IInv
<1>3. IInv /\ [Next]_vars => IInv'
  <2>1. SUFFICES ASSUME IInv, [Next]_vars PROVE IInv'
    OBVIOUS
  <2>2. \A a \in Agents : create[a].at = "create" => create[a] \in Creating
    BY <2>1 DEF IInv, LabelInv, Idle, Resolving
  <2>3. \A a \in Agents : create[a].at = "create" => create[a].names \subseteq Names
    BY <2>2 DEF Creating
  <2>4. labels \subseteq Names
    BY <2>1 DEF IInv, LabelInv
  <2>5. ClaimsInv'
    BY <2>1, <2>3, <2>4, ClaimsStep DEF IInv
  <2>6. ReadyInv'
    BY <1>1, <2>1, ReadyStep DEF IInv
  <2>7. LabelInv'
    BY <2>1, LabelStep DEF IInv, ClaimsInv
  <2>8. LookupInv'
    BY <1>1, <2>1, LookupStep DEF IInv
  <2>9. BoundsInv'
    BY <2>1, BoundsStep DEF IInv
  <2>10. OwnersInv'
    BY <2>1, OwnersStep DEF IInv
  <2>. QED
    BY <2>5, <2>6, <2>7, <2>8, <2>9, <2>10 DEF IInv
<1>. QED
  BY <1>2, <1>3, PTL DEF Spec

\* Two agents took one issue only if one of them had looked before the other,
\* or somebody else, assigned it: the assignment replaces whoever is there.
\* Agents of another user are shown it as theirs only after it was taken late
\* or assigned again; those of the same user are shown it in any case.
THEOREM ClaimsRace == Spec => []SharedOnlyByRace
<1>1. IInv => SharedOnlyByRace
  BY DEF IInv, ClaimsInv, OwnersInv, TakenTwice, ShownToOthers, SharedOnlyByRace
<1>. QED
  BY <1>1, Invariance, PTL

\* A merge follows an approval, and no change requested that whoever merged
\* could have seen.
THEOREM MergesApproved == Spec => []MergedUnlessOvertaken
<1>1. IInv => MergedUnlessOvertaken
  BY DEF IInv, ReadyInv, MergedUnlessOvertaken, ApprovedAt
<1>. QED
  BY <1>1, Invariance, PTL

LEMMA TypedByInv == IInv => TypeOK
<1>1. SUFFICES ASSUME IInv PROVE TypeOK
  OBVIOUS
<1>. USE <1>1 DEF IInv
<1>2. issues \in Seq([open : BOOLEAN, assignees : SUBSET Users,
                     labels : SUBSET labels, asked : SUBSET Names])
  <2>. DEFINE Typed == [open : BOOLEAN, assignees : SUBSET Users,
                        labels : SUBSET labels, asked : SUBSET Names]
              n == Len(issues)
  <2>1. /\ issues \in Seq(IssueSet) /\ n \in Nat /\ DOMAIN issues = 1 .. n
        /\ issues = [i \in 1 .. n |-> issues[i]]
    BY DEF ClaimsInv, IssueInv
  <2>2. ASSUME NEW i \in 1 .. n PROVE issues[i] \in Typed
    <3>1. issues[i] \in IssueSet
      BY <2>1
    <3>2. issues[i].labels \subseteq labels
      BY <2>1 DEF LabelInv
    <3>. QED
      BY <3>1, <3>2 DEF IssueSet
  <2>. HIDE DEF Typed, n
  <2>3. issues \in [1 .. n -> Typed]
    BY <2>1, <2>2
  <2>4. issues \in Seq(Typed)
    BY <2>1, <2>3, SeqDef
  <2>. QED
    BY <2>4 DEF Typed
<1>3. ASSUME NEW a \in Agents PROVE create[a] = Idle \/ create[a] \in Creations
  <2>1. create[a] \in {Idle} \cup Resolving \cup Creating
    BY DEF LabelInv
  <2>2. CASE create[a] \in Resolving
    <3>1. create[a].page # 0 /\ create[a].steady \subseteq labels
      BY <2>2 DEF LookupInv, Resolving
    <3>. QED
      BY <2>2, <3>1 DEF Resolving, Creations
  <2>3. CASE create[a] \in Creating
    BY <2>3 DEF Creating, Creations
  <2>. QED
    BY <2>1, <2>2, <2>3
<1>4. /\ labels \subseteq Names /\ removed \subseteq Names \ labels
      /\ \A a \in Agents : create[a].at = "create" => create[a].ids = create[a].names
  BY DEF LabelInv
<1>5. /\ reviews \in Seq(Reviews) /\ Len(reviews) \in Nat
      /\ ready \in [Agents -> BOOLEAN]
      /\ basis \in [Agents -> 0 .. Len(reviews)]
      /\ merger \in 0 .. Len(reviews)
  BY DEF ReadyInv
<1>6. pr \in {"none", "open", "merged"}
  BY DEF BoundsInv
<1>7. /\ free \in [Agents -> SUBSET DOMAIN issues]
      /\ told \in [Agents -> SUBSET DOMAIN issues]
      /\ mine \in [Agents -> SUBSET DOMAIN issues]
  BY DEF ClaimsInv, ListInv
<1>. QED
  BY <1>2, <1>3, <1>4, <1>5, <1>6, <1>7 DEF TypeOK, BoundsInv

\* An issue is created with the labels it was asked for and keeps them until they
\* are removed; a label is called missing only if it was not there all the time
\* or if the pages shifted under the command.
THEOREM CreationsConsistent == Spec => []Consistent
<1>1. IInv => LabelsAsAsked
  BY DEF IInv, LabelInv, LookupInv, LabelsAsAsked
<1>. QED
  BY <1>1, TypedByInv, Invariance, PTL DEF Consistent
=============================================================================
