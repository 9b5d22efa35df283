------------------------------ MODULE GiteaCli ------------------------------
(***************************************************************************)
(* The agents' gitea command (internal/gitea-cli/commands/issue.go, pr.go) *)
(* and the backend's copy of its issue creation                            *)
(* (internal/common/giteaclient), used by several agents on one repository *)
(* and one pull request.  A command keeps nothing: what an agent knows is  *)
(* what an earlier command printed, and Gitea may have moved on since.     *)
(* Gitea's users and their tokens belong to the roles: the agents of a     *)
(* role are one user and cannot be told apart.                             *)
(*                                                                         *)
(* Gitea and the agents are external.  An agent takes the issues it was    *)
(* shown as unassigned and merges what it was told is ready, as the        *)
(* built-in prompts say; commands fail before or after Gitea acted, and    *)
(* may then be given again.  Comments, notifications, files and pushes     *)
(* are left out, and so are the filters that Gitea applies.                *)
(***************************************************************************)
EXTENDS Naturals, Sequences, FiniteSets

CONSTANTS
    Agents,
    Users,       \* of Gitea, one for each role
    UserOf,      \* the user of each agent's role, whose token it has
    Names,       \* of labels, numbers in the order they are listed in
    FirstLabels, \* the labels there are at first
    PageSize,    \* of a list of labels
    ListLimit,   \* of a list of issues
    ReviewPage,  \* of a list of reviews
    MaxIssues, MaxReviews, MaxFaults,
    MaxSteps     \* bound on commands and on changes of the labels

ASSUME GiteaCliAssumption ==
    /\ UserOf \in [Agents -> Users]
    /\ Names \subseteq Nat /\ FirstLabels \subseteq Names
    /\ {PageSize, ListLimit, ReviewPage} \subseteq Nat \ {0}
    /\ {MaxIssues, MaxReviews, MaxFaults, MaxSteps} \subseteq Nat

Verdicts == {"APPROVE", "REQUEST_CHANGES", "COMMENT"}
Reviews  == [by : Users, verdict : Verdicts]
Idle     == [at |-> "idle"]

VARIABLES
    \* Gitea
    labels,   \* of the repository
    issues,   \* each with its labels and assignees, and whether it is open
    pr,       \* the pull request: "none", "open" or "merged"
    author,   \* of it, a user
    reviews,  \* of it, oldest first
    \* the agents
    create,   \* the issue each is creating, or Idle
    free,     \* the issues each was last shown as unassigned
    told,     \* the issues each was last shown as its user's
    mine,     \* the issues each was told it has taken
    ready,    \* whether each was last told that the pull request is ready
    \* observability only
    removed,  \* the labels that are gone
    refusals, \* the labels a creation was refused for, with their histories
    stale,    \* of free, what another agent assigned since, or it to another user
    raced,    \* of mine, what was stale when it was taken
    lost,     \* of mine, what was assigned to another user since
    basis,    \* how many reviews there were when each was last told
    merger,   \* that number for whoever merged
    \* bounds
    steps, faults

giteaVars == <<labels, issues, pr, author, reviews>>
claimVars == <<free, told, mine, stale, raced, lost>>
mergeVars == <<ready, basis, merger>>
labelVars == <<create, removed, refusals>>
vars == <<giteaVars, claimVars, mergeVars, labelVars, steps, faults>>

Init ==
    /\ labels = FirstLabels
    /\ issues = <<>>
    /\ pr = "none"
    /\ author \in Users
    /\ reviews = <<>>
    /\ create = [a \in Agents |-> Idle]
    /\ free = [a \in Agents |-> {}]
    /\ told = [a \in Agents |-> {}]
    /\ mine = [a \in Agents |-> {}]
    /\ ready = [a \in Agents |-> FALSE]
    /\ removed = {}
    /\ refusals = {}
    /\ stale = [a \in Agents |-> {}]
    /\ raced = [a \in Agents |-> {}]
    /\ lost = [a \in Agents |-> {}]
    /\ basis = [a \in Agents |-> 0]
    /\ merger = 0
    /\ steps = 0
    /\ faults = 0

Step ==
    /\ steps < MaxSteps
    /\ steps' = steps + 1

Fault ==
    /\ faults < MaxFaults
    /\ faults' = faults + 1

-----------------------------------------------------------------------------
(* The repository's labels                                                 *)

\* No name is used again.
AddLabel(n) ==
    /\ Step
    /\ n \in Names \ (labels \cup removed)
    /\ labels' = labels \cup {n}
    /\ UNCHANGED <<issues, pr, author, reviews, claimVars, mergeVars, labelVars, faults>>

\* The issues lose it as well.
RemoveLabel(n) ==
    /\ Step
    /\ n \in labels
    /\ labels' = labels \ {n}
    /\ issues' = [i \in DOMAIN issues |-> [issues[i] EXCEPT !.labels = @ \ {n}]]
    /\ removed' = removed \cup {n}
    /\ create' = [a \in Agents |->
                     IF create[a].at \in {"read", "compare"}
                     THEN [create[a] EXCEPT !.steady = @ \ {n}, !.shifted = TRUE]
                     ELSE create[a]]
    /\ UNCHANGED <<pr, author, reviews, claimVars, mergeVars, refusals, faults>>

-----------------------------------------------------------------------------
(* issue create                                                            *)

\* The k-th page of the labels.
LabelPage(k) ==
    {n \in labels :
        LET rank == Cardinality({l \in labels : l <= n})
        IN  (k - 1) * PageSize < rank /\ rank <= k * PageSize}

\* Mutant of IsLast: a full page is taken for the last.
FullIsLast(page) == Cardinality(page) <= PageSize

IsLast(page) == Cardinality(page) < PageSize

AllFound(names, all) == names \subseteq all

\* With labels or without.  "steady" and "shifted" are for observation: the
\* labels there all the time, and whether one went.
IssueCreate(a) ==
    /\ Step
    /\ create[a] = Idle
    /\ create' \in {[create EXCEPT ![a] = c] : c \in
          {[at |-> "create", ids |-> {}, names |-> {}],
           [at |-> "read", page |-> 1, all |-> {}, steady |-> labels, shifted |-> FALSE]}}
    /\ UNCHANGED <<giteaVars, claimVars, mergeVars, removed, refusals, faults>>

\* resolveLabelIDs reads the next page;
ReadLabels(a) ==
    LET page == LabelPage(create[a].page)
    IN  /\ create[a].at = "read"
        /\ create' = [create EXCEPT
                         ![a].all  = @ \cup page,
                         ![a].page = @ + 1,
                         ![a].at   = IF IsLast(page) THEN "compare" ELSE "read"]
        /\ UNCHANGED <<giteaVars, claimVars, mergeVars, removed, refusals, steps, faults>>

\* after the last, the names are looked for.
CompareLabels(a, names) ==
    /\ create[a].at = "compare"
    /\ IF AllFound(names, create[a].all)
       THEN /\ create' = [create EXCEPT ![a] =
                             [at |-> "create", ids |-> names \cap create[a].all, names |-> names]]
            /\ UNCHANGED refusals
       ELSE /\ create' = [create EXCEPT ![a] = Idle]
            /\ refusals' = refusals \cup
                  {[steady |-> n \in create[a].steady, shifted |-> create[a].shifted] :
                      n \in names \ create[a].all}
    /\ UNCHANGED <<giteaVars, claimVars, mergeVars, removed, steps, faults>>

\* Gitea takes the labels that are still there; the agent may not hear of it.
CreateIssue(a, assignees) ==
    /\ create[a].at = "create"
    /\ Len(issues) < MaxIssues
    /\ issues' = Append(issues, [open |-> TRUE, assignees |-> assignees,
                                 labels |-> create[a].ids \cap labels,
                                 asked |-> create[a].names])
    /\ create' = [create EXCEPT ![a] = Idle]
    /\ UNCHANGED faults \/ Fault
    /\ UNCHANGED <<labels, pr, author, reviews, claimVars, mergeVars, removed, refusals, steps>>

\* A call of the command is not heard or refused, which ends the command.
CreateFails(a) ==
    /\ create[a] # Idle
    /\ Fault
    /\ create' = [create EXCEPT ![a] = Idle]
    /\ UNCHANGED <<giteaVars, claimVars, mergeVars, removed, refusals, steps>>

-----------------------------------------------------------------------------
(* issue list, assign, close                                               *)

\* Mutant of Unassigned: of one assignee nothing is printed.
NotShared(i) == Cardinality(issues[i].assignees) <= 1

\* How it is printed.
Unassigned(i) == issues[i].assignees = {}

\* The newest open issues.
Listed ==
    {i \in DOMAIN issues :
        /\ issues[i].open
        /\ Cardinality({j \in DOMAIN issues : j > i /\ issues[j].open}) < ListLimit}

IssueList(a) ==
    /\ Step
    /\ free' = [free EXCEPT ![a] = {i \in Listed : Unassigned(i)}]
    /\ told' = [told EXCEPT ![a] = {i \in Listed : UserOf[a] \in issues[i].assignees}]
    /\ stale' = [stale EXCEPT ![a] = {}]
    /\ UNCHANGED <<giteaVars, mine, raced, lost, mergeVars, labelVars, faults>>

\* EditIssue replaces the assignees, whoever they are by now.
Assign(a, i, user) ==
    /\ Step
    /\ issues' = [issues EXCEPT ![i].assignees = {user}]
    /\ stale' = [b \in Agents |-> stale[b] \cup
                    {j \in free[b] : j = i /\ (b # a \/ user # UserOf[b])}]
    /\ lost' = [b \in Agents |-> lost[b] \cup {j \in mine[b] : j = i /\ user # UserOf[b]}]
    /\ UNCHANGED <<labels, pr, author, reviews, free, told, mergeVars, labelVars>>

\* Without --assignee: what was shown as unassigned, for the user whose token
\* it is; the agent is told, unless the answer is not heard.
AssignMyself(a, i) ==
    /\ i \in free[a]
    /\ Assign(a, i, UserOf[a])
    /\ \/ /\ mine' = [mine EXCEPT ![a] = @ \cup {i}]
          /\ raced' = [raced EXCEPT ![a] = IF i \in stale[a] THEN @ \cup {i} ELSE @]
          /\ UNCHANGED faults
       \/ Fault /\ UNCHANGED <<mine, raced>>

AssignOther(a, i, user) ==
    /\ Assign(a, i, user)
    /\ UNCHANGED <<mine, raced, faults>>

IssueClose(i) ==
    /\ Step
    /\ issues[i].open
    /\ issues' = [issues EXCEPT ![i].open = FALSE]
    /\ UNCHANGED <<labels, pr, author, reviews, claimVars, mergeVars, labelVars, faults>>

-----------------------------------------------------------------------------
(* pr create, review, reviews, merge                                       *)

PrCreate ==
    /\ Step
    /\ pr = "none"
    /\ pr' = "open"
    /\ UNCHANGED <<labels, issues, author, reviews, claimVars, mergeVars, labelVars, faults>>

\* Gitea takes only comments from the author, whichever agent of its role.
PrReview(a, verdict) ==
    /\ Step
    /\ pr = "open"
    /\ UserOf[a] # author \/ verdict = "COMMENT"
    /\ Len(reviews) < MaxReviews
    /\ reviews' = Append(reviews, [by |-> UserOf[a], verdict |-> verdict])
    /\ UNCHANGED <<labels, issues, pr, author, claimVars, mergeVars, labelVars, faults>>

\* The page of reviews Gitea gives when none is asked for.
Shown == {reviews[i] : i \in {j \in DOMAIN reviews : j <= ReviewPage}}

Says(verdict) == \E r \in Shown : r.verdict = verdict

\* Mutant of Ready: nobody need have approved.
ReadyUnlessRefused == ~Says("REQUEST_CHANGES")

Ready == Says("APPROVE") /\ ~Says("REQUEST_CHANGES")

PrReviews(a) ==
    /\ Step
    /\ pr # "none"
    /\ ready' = [ready EXCEPT ![a] = Ready]
    /\ basis' = [basis EXCEPT ![a] = Len(reviews)]
    /\ UNCHANGED <<giteaVars, claimVars, merger, labelVars, faults>>

\* The reviews are not looked at again.
PrMerge(a) ==
    /\ Step
    /\ pr = "open"
    /\ ready[a]
    /\ pr' = "merged"
    /\ merger' = basis[a]
    /\ UNCHANGED <<labels, issues, author, reviews, claimVars, ready, basis, labelVars, faults>>

-----------------------------------------------------------------------------
Next ==
    \/ \E n \in Names : AddLabel(n) \/ RemoveLabel(n)
    \/ PrCreate
    \/ \E i \in DOMAIN issues : IssueClose(i)
    \/ \E a \in Agents :
          \/ IssueCreate(a) \/ ReadLabels(a) \/ CreateFails(a)
          \/ \E names \in SUBSET Names \ {{}} : CompareLabels(a, names)
          \/ \E assignees \in SUBSET Users : CreateIssue(a, assignees)
          \/ IssueList(a)
          \/ \E i \in DOMAIN issues :
                \/ AssignMyself(a, i)
                \/ \E user \in Users : AssignOther(a, i, user)
          \/ \E verdict \in Verdicts : PrReview(a, verdict)
          \/ PrReviews(a) \/ PrMerge(a)

Spec == Init /\ [][Next]_vars

-----------------------------------------------------------------------------
Creations ==
    [at : {"read", "compare"}, page : Nat \ {0}, all : SUBSET Names,
     steady : SUBSET labels, shifted : BOOLEAN]
      \cup [at : {"create"}, ids : SUBSET Names, names : SUBSET Names]

\* Nothing is created before every label asked for was found, and what was found
\* was asked for (issue.go:354-375).
TypeOK ==
    /\ labels \subseteq Names /\ removed \subseteq Names \ labels
    /\ issues \in Seq([open : BOOLEAN, assignees : SUBSET Users,
                       labels : SUBSET labels, asked : SUBSET Names])
    /\ Len(issues) <= MaxIssues
    /\ pr \in {"none", "open", "merged"}
    /\ author \in Users
    /\ reviews \in Seq(Reviews) /\ Len(reviews) <= MaxReviews
    /\ \A a \in Agents :
          /\ create[a] = Idle \/ create[a] \in Creations
          /\ create[a].at = "create" => create[a].ids = create[a].names
    /\ {free, told, mine} \subseteq [Agents -> SUBSET DOMAIN issues]
    /\ \A a \in Agents : stale[a] \subseteq free[a] /\ raced[a] \cup lost[a] \subseteq mine[a]
    /\ ready \in [Agents -> BOOLEAN]
    /\ basis \in [Agents -> 0 .. Len(reviews)]
    /\ merger \in 0 .. Len(reviews)
    /\ steps \in 0 .. MaxSteps
    /\ faults \in 0 .. MaxFaults

\* An issue has the labels asked for, less those removed since, however many
\* pages they were looked up in; and "not found" is said of a label only if it
\* was not there all the time, or if a label was removed in between, which moves
\* the later ones to an earlier page (issue.go:337-375, client.go:156-187).
LabelsAsAsked ==
    /\ \A i \in DOMAIN issues : issues[i].labels = issues[i].asked \ removed
    /\ \A r \in refusals : ~r.steady \/ r.shifted

\* An issue is created with exactly what its labels were resolved to.
Consistent == TypeOK /\ LabelsAsAsked

\* Two agents, of one role or of two, were both told that they took an issue: one
\* of them had looked for free issues before the other, or somebody else,
\* assigned it (issue.go:203-214).  What an agent took another user's agents are
\* not shown as theirs, unless it took it late or it was assigned again.  The
\* agents of its own role are shown it at once, race or not (gitea_user.go:90-92).
SharedOnlyByRace ==
    \A a, b \in Agents : a # b =>
        /\ mine[a] \cap mine[b] \subseteq raced[a] \cup raced[b]
        /\ UserOf[a] # UserOf[b] => mine[a] \cap told[b] \subseteq raced[a] \cup lost[a]

\* What was merged had been approved, and changes were requested only after
\* whoever merged it looked, or in a review beyond the page it was shown
\* (pr.go:295, pr.go:304-323).
MergedUnlessOvertaken ==
    pr = "merged" =>
        /\ \E i \in 1 .. merger : reviews[i].verdict = "APPROVE"
        /\ \A i \in DOMAIN reviews :
              reviews[i].verdict = "REQUEST_CHANGES" => i > merger \/ i > ReviewPage
=============================================================================
