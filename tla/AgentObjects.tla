---------------------------- MODULE AgentObjects ----------------------------
(***************************************************************************)
(* What the operator makes for an agent besides its prompt: the token      *)
(* secret, the ConfigMaps with the role's skills and extra files, the      *)
(* claim for the workspace, the bindings in other namespaces, the access   *)
(* to Gitea repositories and the Deployment that mounts them               *)
(* (internal/operator/reconciler), for the specs the API writes            *)
(* (internal/backend/handler/agents.go).                                   *)
(*                                                                         *)
(* Some are made once and never touched again, some follow the role's      *)
(* files, some belong to nobody; the objects of a deleted agent are        *)
(* collected while a new agent of the same name may find and keep them.    *)
(*                                                                         *)
(* What is made once keeps what the spec said on that day: the token the   *)
(* role, the claim its size and class (spec.memory), the bindings the RBAC *)
(* role (spec.kubernetes.rbacRole).  A later spec with another setup does  *)
(* not reach them, although the reconcile of it ends well.                 *)
(*                                                                         *)
(* One object, the claim, stands also for the service and the service      *)
(* account, made beside it from the agent's name alone.  The operator's    *)
(* caches, the conflicts of its writes and the Gitea user are the matter   *)
(* of AgentReconcile; here a change is queued when it happens, which is    *)
(* when its informer tells.                                                *)
(***************************************************************************)
EXTENDS Naturals, FiniteSets

CONSTANTS
    Roles,
    Repos,       \* Gitea repositories
    Spaces,      \* namespaces other than the agents'
    Setups,      \* a spec's RBAC role and the size and class of its storage
    Specs,       \* the specs the API's callers send
    None,        \* no agent, no object
    MaxFaults,   \* bound on restarts and failing calls
    MaxEvents    \* bound on those, on API calls, role edits and new namespaces

Uids     == 1 .. MaxEvents
Versions == 0 .. MaxEvents
Agents   == [uid : Uids, spec : Specs, finalizer : BOOLEAN, deleting : BOOLEAN]

\* A role's directory: which edit of it, and whether it has extra files.
Contents == [version : Versions, extra : BOOLEAN]
RoleData == [role : Roles, version : Versions, extra : BOOLEAN]

Kinds   == {"jwt", "skills", "files", "claim", "home", "deployment"}
Objects == [owner : Uids, from : Roles \cup Setups \cup {None},
            text : RoleData \cup {None}]

\* A binding in another namespace belongs to nobody; its maker is told apart
\* for observability only.
Extras == [maker : Uids, from : Setups]

ASSUME AgentObjectsAssumption ==
    /\ Specs \subseteq [role : Roles, repos : SUBSET Repos, spaces : SUBSET Spaces,
                       setup : Setups]
    /\ None \notin Agents \cup Objects \cup Extras \cup RoleData \cup Roles
    /\ MaxFaults \in Nat
    /\ MaxEvents \in Nat

\* The steps of ReconcileAll, in their order, between "idle" and "done".
Steps == {"access", "jwt", "role", "skills", "files", "claim", "binding",
          "deployment"}
PCs == Steps \cup {"idle", "done"}

VARIABLES
    \* Kubernetes, Gitea and the roles' directories
    agent,    \* the Agent resource, or None
    objects,  \* the objects named after the agent, or None
    collab,   \* role users that are collaborators of a repository
    bound,    \* for each other namespace the binding of the agent's account, or None
    there,    \* other namespaces that exist
    content,  \* the roles' files
    \* the operator
    queued,   \* the agent is in the work queue
    pc,
    mine,     \* the copy Reconcile works on
    read,     \* roleData
    \* observability only
    had,      \* the specs the agent has had since it was created
    unseen,   \* namespaces made since a reconcile last looked
    \* bounds
    events, faults

clusterVars  == <<agent, objects, collab, bound, there>>
operatorVars == <<queued, pc, mine, read>>
ghostVars    == <<had, unseen>>
boundVars    == <<events, faults>>
vars == <<clusterVars, content, operatorVars, ghostVars, boundVars>>

Init ==
    /\ agent = None
    /\ objects = [k \in Kinds |-> None]
    /\ collab = {}
    /\ bound = [n \in Spaces |-> None]
    /\ there = {}
    /\ content = [r \in Roles |-> [version |-> 0, extra |-> FALSE]]
    /\ queued = FALSE
    /\ pc = "idle"
    /\ mine = None
    /\ read = None
    /\ had = {}
    /\ unseen = {}
    /\ events = 0
    /\ faults = 0

Event ==
    /\ events < MaxEvents
    /\ events' = events + 1

Change == Event /\ UNCHANGED faults

Fault ==
    /\ Event
    /\ faults < MaxFaults
    /\ faults' = faults + 1

-----------------------------------------------------------------------------
(* The API (AgentHandler), with whatever spec unmarshalAgentSpec makes     *)

Create(spec) ==
    /\ agent = None
    /\ Change
    /\ agent' = [uid |-> events', spec |-> spec, finalizer |-> FALSE,
                 deleting |-> FALSE]
    /\ had' = {spec}
    /\ queued' = TRUE
    /\ UNCHANGED <<objects, collab, bound, there, content, pc, mine, read, unseen>>

\* The whole spec is replaced.
Update(spec) ==
    /\ agent # None
    /\ Change
    /\ agent' = [agent EXCEPT !.spec = spec]
    /\ had' = had \cup {spec}
    /\ queued' = (queued \/ spec # agent.spec)
    /\ UNCHANGED <<objects, collab, bound, there, content, pc, mine, read, unseen>>

Delete ==
    /\ agent # None
    /\ Change
    /\ agent' = IF agent.finalizer THEN [agent EXCEPT !.deleting = TRUE] ELSE None
    /\ queued' = TRUE
    /\ UNCHANGED <<objects, collab, bound, there, content, pc, mine, read, ghostVars>>

-----------------------------------------------------------------------------
(* The cluster and the roles                                               *)

Orphan(object) ==
    IF object = None THEN FALSE
    ELSE IF agent = None THEN TRUE ELSE object.owner # agent.uid

\* Mutant of Noticed: SetupWithManager does not watch secrets.
NoticedButSecrets(k) == queued' = (queued \/ k # "jwt")

\* The agent that bears the owner's name is queued.
Noticed(k) == queued' = (queued \/ k \in Kinds)

\* Kubernetes removes an orphan.
Collect(k) ==
    /\ Orphan(objects[k])
    /\ objects' = [objects EXCEPT ![k] = None]
    /\ Noticed(k)
    /\ UNCHANGED <<agent, collab, bound, there, content, pc, mine, read,
                   ghostVars, boundVars>>

\* A role's files change, and the role watcher queues the role's agents.
EditRole(r, extra) ==
    /\ Change
    /\ content' = [content EXCEPT ![r] = [version |-> @.version + 1,
                                          extra |-> extra]]
    /\ queued' = IF agent = None THEN queued ELSE queued \/ agent.spec.role = r
    /\ UNCHANGED <<clusterVars, pc, mine, read, ghostVars>>

\* A namespace is made, or removed with all it holds; the operator is not told.
MakeSpace(n) ==
    /\ n \notin there
    /\ Change
    /\ there' = there \cup {n}
    /\ unseen' = unseen \cup {n}
    /\ UNCHANGED <<agent, objects, collab, bound, content, operatorVars, had>>

RemoveSpace(n) ==
    /\ n \in there
    /\ Change
    /\ there' = there \ {n}
    /\ bound' = [bound EXCEPT ![n] = None]
    /\ unseen' = unseen \ {n}
    /\ UNCHANGED <<agent, objects, collab, content, operatorVars, had>>

-----------------------------------------------------------------------------
(* AgentReconciler.Reconcile and ResourceReconciler.ReconcileAll           *)

\* Mutant of Return: roleData is kept for the next reconcile.
ReturnKeeping(again) ==
    /\ pc' = "idle"
    /\ mine' = None
    /\ queued' = (queued \/ again)
    /\ UNCHANGED read

\* The end of a reconcile; after an error the agent is queued again.
Return(again) ==
    /\ pc' = "idle"
    /\ mine' = None
    /\ read' = None
    /\ queued' = (queued \/ again)

\* Up to EnsureGiteaToken.  The first write of the finalizer queues the agent;
\* of an agent being deleted nothing is cleaned up but the finalizer.
Begin ==
    /\ pc = "idle"
    /\ queued
    /\ \/ /\ IF agent = None THEN TRUE ELSE agent.deleting
          /\ agent' = None
          /\ queued' = FALSE
          /\ UNCHANGED <<pc, mine>>
       \/ /\ IF agent = None THEN FALSE ELSE ~agent.deleting
          /\ agent' = [agent EXCEPT !.finalizer = TRUE]
          /\ queued' = ~agent.finalizer
          /\ mine' = agent'
          /\ pc' = "access"
    /\ UNCHANGED <<objects, collab, bound, there, content, read, ghostVars, boundVars>>

Goto(p) == pc' = p /\ UNCHANGED <<queued, mine>>

\* What the copy asks for.
Access   == {<<mine.spec.role, repo>> : repo \in mine.spec.repos}
Bindings == mine.spec.spaces \cap there

\* Collaborators are added, never removed.
EnsureGiteaRepoAccess ==
    /\ pc = "access"
    /\ collab' = collab \cup Access
    /\ Goto("jwt")
    /\ UNCHANGED <<agent, objects, bound, there, content, read, ghostVars, boundVars>>

Object(from, text) == [owner |-> mine.uid, from |-> from, text |-> text]

\* An object that exists is left alone, whoever it belongs to.
Keep(k, object) ==
    objects' = [objects EXCEPT ![k] = IF @ = None THEN object ELSE @]

\* An object that exists is updated, and keeps its owner.
Put(k, object) ==
    objects' = [objects EXCEPT ![k] =
                   IF @ = None THEN object
                   ELSE [object EXCEPT !.owner = objects[k].owner]]

objectOnly == <<agent, collab, bound, there, content, ghostVars, boundVars>>

\* The token names the role of the day it is made.
EnsureJWTSecret ==
    /\ pc = "jwt"
    /\ Keep("jwt", Object(mine.spec.role, None))
    /\ Goto("role")
    /\ UNCHANGED <<read, objectOnly>>

EnsureRoleData ==
    /\ pc = "role"
    /\ LET c == content[mine.spec.role]
       IN  read' = [role |-> mine.spec.role, version |-> c.version, extra |-> c.extra]
    /\ Goto("skills")
    /\ UNCHANGED <<objects, objectOnly>>

EnsureSkillsConfigMap ==
    /\ pc = "skills"
    /\ Put("skills", Object(None, read))
    /\ Goto("files")
    /\ UNCHANGED <<read, objectOnly>>

\* A role without extra files leaves the ConfigMap of earlier ones as it is.
EnsureRoleFilesConfigMap ==
    /\ pc = "files"
    /\ IF read.extra THEN Put("files", Object(None, read)) ELSE UNCHANGED objects
    /\ Goto("claim")
    /\ UNCHANGED <<read, objectOnly>>

\* EnsurePVC, EnsureService and EnsureServiceAccount.
EnsureClaim ==
    /\ pc = "claim"
    /\ Keep("claim", Object(mine.spec.setup, None))
    /\ Goto("binding")
    /\ UNCHANGED <<read, objectOnly>>

\* A binding that exists is left as it is, whatever role it names.
Bind(spaces) ==
    bound' = [n \in Spaces |->
                 IF n \in spaces /\ bound[n] = None
                 THEN [maker |-> mine.uid, from |-> mine.spec.setup] ELSE bound[n]]

\* The home binding, then the others; a namespace that does not exist is skipped.
EnsureRoleBinding ==
    /\ pc = "binding"
    /\ Keep("home", Object(mine.spec.setup, None))
    /\ Bind(Bindings)
    /\ unseen' = {}
    /\ Goto("deployment")
    /\ UNCHANGED <<agent, collab, there, content, read, had, boundVars>>

EnsureDeployment ==
    /\ pc = "deployment"
    /\ Put("deployment", Object(mine.spec.role, read))
    /\ Goto("done")
    /\ UNCHANGED <<read, objectOnly>>

\* The status is written; the time in its condition may make that a change, and
\* a change queues the agent.
Done ==
    /\ pc = "done"
    /\ \E again \in BOOLEAN : Return(again)
    /\ UNCHANGED <<clusterVars, content, ghostVars, boundVars>>

\* Mutant of Fails: the error is not returned.
FailsQuietly ==
    /\ pc \in Steps
    /\ Fault
    /\ Return(FALSE)
    /\ UNCHANGED <<clusterVars, content, ghostVars>>

\* A step fails, in the middle where it makes more than one thing.
Fails ==
    /\ pc \in Steps
    /\ Fault
    /\ Return(TRUE)
    /\ \/ pc = "access" /\ \E s \in SUBSET Access : collab' = collab \cup s
       \/ pc # "access" /\ UNCHANGED collab
    /\ \/ pc = "claim" /\ Keep("claim", Object(mine.spec.setup, None)) /\ UNCHANGED bound
       \/ /\ pc = "binding"
          /\ Keep("home", Object(mine.spec.setup, None))
          /\ \E s \in SUBSET Bindings : Bind(s)
       \/ UNCHANGED <<objects, bound>>
    /\ UNCHANGED <<agent, there, content, ghostVars>>

\* The operator's process is killed and started: every agent is queued.
Restart ==
    /\ Fault
    /\ pc' = "idle"
    /\ mine' = None
    /\ read' = None
    /\ queued' = TRUE
    /\ UNCHANGED <<clusterVars, content, ghostVars>>

OperatorStep ==
    \/ Begin
    \/ EnsureGiteaRepoAccess \/ EnsureJWTSecret \/ EnsureRoleData
    \/ EnsureSkillsConfigMap \/ EnsureRoleFilesConfigMap \/ EnsureClaim
    \/ EnsureRoleBinding \/ EnsureDeployment
    \/ Done \/ Fails

Next ==
    \/ \E spec \in Specs : Create(spec) \/ Update(spec)
    \/ Delete
    \/ \E k \in Kinds : Collect(k)
    \/ \E r \in Roles, extra \in BOOLEAN : EditRole(r, extra)
    \/ \E n \in Spaces : MakeSpace(n) \/ RemoveSpace(n)
    \/ OperatorStep
    \/ Restart

Spec == Init /\ [][Next]_vars

\* The operator works off its queue and Kubernetes collects.
Fairness ==
    /\ WF_vars(OperatorStep)
    /\ \A k \in Kinds : WF_vars(Collect(k))

FairSpec == Spec /\ Fairness

-----------------------------------------------------------------------------
TypeOK ==
    /\ agent \in Agents \cup {None}
    /\ objects \in [Kinds -> Objects \cup {None}]
    /\ collab \subseteq Roles \X Repos
    /\ there \subseteq Spaces
    /\ bound \in [Spaces -> Extras \cup {None}]
    /\ \A n \in Spaces \ there : bound[n] = None
    /\ content \in [Roles -> Contents]
    /\ queued \in BOOLEAN
    /\ pc \in PCs
    /\ mine \in IF pc = "idle" THEN {None} ELSE Agents
    /\ read \in IF pc \in {"idle", "access", "jwt", "role"} THEN {None} ELSE RoleData
    /\ had \subseteq Specs
    /\ unseen \subseteq there
    /\ events \in 0 .. MaxEvents
    /\ faults \in 0 .. MaxFaults

\* What the role's directory holds now, for the agent.
Current ==
    LET c == content[agent.spec.role]
    IN  [role |-> agent.spec.role, version |-> c.version, extra |-> c.extra]

\* What the pod mounts: the extra files only if there are any.
Mounted == Kinds \ {"deployment", IF Current.extra THEN "deployment" ELSE "files"}

Exist(kinds) == \A k \in kinds : objects[k] # None

AccessGiven ==
    /\ \A repo \in agent.spec.repos : <<agent.spec.role, repo>> \in collab
    /\ \A n \in (agent.spec.spaces \cap there) \ unseen : bound[n] # None

\* Everything is there.  What follows the spec and the role's files is made from
\* them as they are; of token, claim and bindings this only says that they exist.
Complete ==
    IF agent = None THEN TRUE
    ELSE /\ ~agent.deleting
         /\ Exist(Mounted \cup {"deployment"})
         /\ objects["deployment"].from = agent.spec.role
         /\ objects["deployment"].text = Current
         /\ objects["skills"].text = Current
         /\ Current.extra => objects["files"].text = Current
         /\ AccessGiven

RolesHad  == {spec.role : spec \in had}
SetupsHad == {spec.setup : spec \in had}

\* What was made once for this agent names a role, an RBAC role and a storage it
\* has been given; not more can be said, since none of them follows a change.
\* A namespace's binding may also be that of an earlier agent of the name.
MadeAsAsked ==
    /\ \A k \in {"jwt", "claim", "home"} :
          objects[k] # None /\ objects[k].owner = agent.uid =>
              objects[k].from \in IF k = "jwt" THEN RolesHad ELSE SetupsHad
    /\ \A n \in Spaces :
          bound[n] # None /\ bound[n].maker = agent.uid => bound[n].from \in SetupsHad

\* Nothing is forgotten: when the operator has nothing to do, the agent has all
\* it should have, whichever object was collected behind a reconcile, whatever
\* changed or failed in the middle of one (resource_reconciler.go:45-72,
\* agent_controller.go:199-206).  "Should have" is what the code ensures: an
\* RBAC role or a storage that the API changes later (agents.go:135-148) reaches
\* neither the bindings nor the claim (k8s_resources.go:273-282, 377-436).
QuietIsComplete ==
    (pc = "idle" /\ ~queued) => Complete /\ (agent # None => MadeAsAsked)

\* No object outlives its agent but the bindings elsewhere: once the collector
\* has passed, token, claim and home binding were made for this agent, of a
\* role and a setup it has been given.
OwnIsTrue ==
    IF agent = None THEN \A k \in Kinds : objects[k] = None
    ELSE MadeAsAsked /\ \A k \in Kinds : ~Orphan(objects[k])

\* When the changes and the faults end, the agent has all it should have, and
\* nothing of another agent of its name that could be collected.
Completes == <>[](Complete /\ OwnIsTrue)
=============================================================================
