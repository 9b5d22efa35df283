--------------------------- MODULE AgentReconcile ---------------------------
(***************************************************************************)
(* One agent between the console's API, the heartbeat detector and the     *)
(* operator (internal/operator/controller, internal/operator/reconciler).  *)
(*                                                                         *)
(* All three write the Agent resource in Kubernetes; the operator reads it *)
(* and the objects it owns from caches that lag behind.  A write succeeds  *)
(* only if the writer's copy is the current version (the resource          *)
(* version), so the read-modify-write of an API call or of the detector is *)
(* one step when it succeeds; the operator keeps a copy through a whole    *)
(* reconcile.                                                              *)
(*                                                                         *)
(* Of the objects made for an agent two are here, the prompt ConfigMap,    *)
(* which follows the role's files, and the Deployment, which follows the   *)
(* spec and the ConfigMap.  The others are created once, or like these.    *)
(***************************************************************************)
EXTENDS Naturals, FiniteSets

CONSTANTS
    Roles,
    Provided,    \* the roles whose Gitea token secret exists from the start
    None,        \* no object, no user
    MaxFaults,   \* bound on restarts and failing calls
    MaxEvents    \* bound on those, on API calls, role edits and alerts

Uids     == 1 .. MaxEvents
Contents == 0 .. MaxEvents
Phases   == {"", "Initializing", "Running", "Paused", "Error"}
Agents   == [uid : Uids, role : Roles, paused : BOOLEAN, deleting : BOOLEAN,
             finalizer : BOOLEAN, phase : Phases, user : Roles \cup {None}]

ASSUME AgentReconcileAssumption ==
    /\ None \notin Roles \cup Agents
    /\ Provided \subseteq Roles
    /\ MaxFaults \in Nat
    /\ MaxEvents \in Nat

\* What the operator makes of an agent.
Kinds == {"prompt", "deployment"}
Texts == [role : Roles, version : Contents]
Owned == [owner : Uids, role : Roles, paused : BOOLEAN,
          text : Texts \cup {None}]

\* Where a reconcile stands.
PCs == {"idle", "cleanup", "finalize", "refetch", "initialize", "reinitialized",
        "user", "reuser", "token", "role", "prompt", "deployment",
        "failed", "latest", "status"}

VARIABLES
    \* Kubernetes
    agent,    \* the Agent resource, or None
    owned,    \* the objects made for it
    \* the roles
    password, \* what the role's Gitea user was created with: the last password
              \* drawn ("new"), an earlier one ("old"), or None: no user
    secrets,  \* roles whose Gitea token secret exists
    content,  \* version of a role's files
    dirty,    \* roles with a change the role watcher has yet to see
    scanned,  \* the role watcher has scanned since the operator started
    \* the operator
    cache,    \* the informer's copy of the agent
    current,  \* which of the copies "cache" and "mine" have the current version
    seen,     \* the informers' copies of the objects
    queued,   \* the agent is in the work queue
    pc,
    mine,     \* the copy Reconcile works on
    read,     \* roleData: the files read by EnsureRoleData
    \* observability only
    asked,    \* the spec an API call last succeeded with
    lost,     \* the last reconcile's status write was lost
    missed,   \* roles whose last change the role watcher did not report
    \* bounds
    events, faults

kubeVars     == <<agent, owned>>
giteaVars    == <<password, secrets>>
watchVars    == <<dirty, scanned>>
roleVars     == <<giteaVars, content, watchVars>>
cacheVars    == <<cache, seen>>
operatorVars == <<queued, pc, mine, read>>
ghostVars    == <<asked, lost, missed>>
boundVars    == <<events, faults>>
vars == <<kubeVars, roleVars, cacheVars, current, operatorVars, ghostVars,
          boundVars>>

\* The operator is running and has scanned the roles; there is no agent.
Init ==
    /\ agent = None
    /\ owned = [k \in Kinds |-> None]
    /\ secrets = Provided
    /\ password = [r \in Roles |-> IF r \in Provided THEN "old" ELSE None]
    /\ content = [r \in Roles |-> 0]
    /\ dirty = {}
    /\ scanned = TRUE
    /\ cache = None
    /\ current = {"cache"}
    /\ seen = [k \in Kinds |-> None]
    /\ queued = FALSE
    /\ pc = "idle"
    /\ mine = None
    /\ read = None
    /\ asked = None
    /\ lost = FALSE
    /\ missed = {}
    /\ events = 0
    /\ faults = 0

Event ==
    /\ events < MaxEvents
    /\ events' = events + 1

Change == Event /\ UNCHANGED faults

Fault ==
    /\ Event
    /\ faults < MaxFaults
    /\ faults' = faults + 1

\* Somebody but the operator writes the agent; a write that changes nothing
\* makes no new version.
Write(a) ==
    /\ agent' = a
    /\ current' = IF a = agent THEN current ELSE {}

-----------------------------------------------------------------------------
(* The API and the detector (internal/backend)                             *)

Asked(role, paused) == asked' = [role |-> role, paused |-> paused]

\* AgentClient.Create.
Create(role, paused) ==
    /\ agent = None
    /\ Change
    /\ Write([uid |-> events', role |-> role, paused |-> paused,
              deleting |-> FALSE, finalizer |-> FALSE, phase |-> "",
              user |-> None])
    /\ Asked(role, paused)
    /\ UNCHANGED <<owned, roleVars, cacheVars, operatorVars, lost, missed>>

\* AgentClient.Update and SetPaused.
Update(role, paused) ==
    /\ agent # None
    /\ Change
    /\ Write([agent EXCEPT !.role = role, !.paused = paused])
    /\ Asked(role, paused)
    /\ UNCHANGED <<owned, roleVars, cacheVars, operatorVars, lost, missed>>

\* AgentClient.Delete: with a finalizer the agent is only marked.
Delete ==
    /\ agent # None
    /\ Change
    /\ Write(IF agent.finalizer THEN [agent EXCEPT !.deleting = TRUE] ELSE None)
    /\ UNCHANGED <<owned, roleVars, cacheVars, operatorVars, ghostVars>>

\* Detector.detect through SetStatusPhase.
Alert ==
    /\ agent # None
    /\ Change
    /\ Write([agent EXCEPT !.phase = "Error"])
    /\ UNCHANGED <<owned, roleVars, cacheVars, operatorVars, ghostVars>>

\* Whether the agent an object belongs to is gone.
Orphan(object) ==
    IF object = None THEN FALSE
    ELSE IF agent = None THEN TRUE ELSE object.owner # agent.uid

\* Kubernetes removes an orphan.
Collect(k) ==
    /\ Orphan(owned[k])
    /\ owned' = [owned EXCEPT ![k] = None]
    /\ UNCHANGED <<agent, roleVars, cacheVars, current, operatorVars, ghostVars,
                   boundVars>>

-----------------------------------------------------------------------------
(* What brings the agent into the operator's queue                         *)

\* The agent's informer catches up.
SyncAgent ==
    /\ "cache" \notin current
    /\ cache' = agent
    /\ current' = current \cup {"cache"}
    /\ queued' = TRUE
    /\ UNCHANGED <<kubeVars, roleVars, seen, pc, mine, read, ghostVars,
                   boundVars>>

\* So does that of an object: its owner is queued.
SyncOwned(k) ==
    /\ seen[k] # owned[k]
    /\ seen' = [seen EXCEPT ![k] = owned[k]]
    /\ queued' = TRUE
    /\ UNCHANGED <<kubeVars, roleVars, cache, current, pc, mine, read, ghostVars,
                   boundVars>>

\* A role's files are changed.
EditRole(r) ==
    /\ Change
    /\ content' = [content EXCEPT ![r] = @ + 1]
    /\ dirty' = dirty \cup {r}
    /\ UNCHANGED <<kubeVars, giteaVars, scanned, cacheVars, current, operatorVars,
                   ghostVars>>

\* The role watcher queues the agents that, in its cache, have a role that
\* changed; its first scan only notes the roles.
ScanRoles ==
    /\ dirty # {} \/ ~scanned
    /\ dirty' = {}
    /\ scanned' = TRUE
    /\ \/ /\ scanned
          /\ queued' = IF cache = None THEN queued
                       ELSE queued \/ cache.role \in dirty
          /\ missed' = missed \ dirty
       \/ /\ ~scanned
          /\ missed' = missed \cup dirty
          /\ UNCHANGED queued
    /\ UNCHANGED <<kubeVars, giteaVars, content, cacheVars, current, pc, mine,
                   read, asked, lost, boundVars>>

\* The operator is restarted: it lists everything and queues every agent.
Restart ==
    /\ Fault
    /\ cache' = agent
    /\ current' = {"cache"}
    /\ seen' = owned
    /\ queued' = TRUE
    /\ pc' = "idle"
    /\ mine' = None
    /\ read' = None
    /\ scanned' = FALSE
    /\ UNCHANGED <<kubeVars, giteaVars, content, dirty, ghostVars>>

-----------------------------------------------------------------------------
(* AgentReconciler.Reconcile                                               *)

\* The end of a reconcile; after an error the agent is queued again.
Return(again) ==
    /\ pc' = "idle"
    /\ mine' = None
    /\ read' = None
    /\ queued' = (queued \/ again)

\* The reconcile goes on, with the same copy or another.
Goto(p) == pc' = p /\ UNCHANGED <<queued, mine, read>>

GotoWith(p, copy) ==
    /\ pc' = p
    /\ mine' = copy
    /\ UNCHANGED <<queued, read>>

\* Mutant of Copied: what Get returns passes for the latest version.
CopiedLatest == current' = current \cup {"mine"}

\* The copy of Reconcile is taken from the cache, or is given up.
Copied == current' = IF "cache" \in current THEN {"cache", "mine"} ELSE {}
Dropped == current' = current \ {"mine"}

\* Mutant of WriteMine: the write does not carry the resource version.
WriteMineAnyway(a) ==
    /\ agent # None
    /\ agent' = a
    /\ current' = {"mine"}

\* The operator writes the agent and its copy is current again.
WriteMine(a) ==
    /\ "mine" \in current
    /\ agent' = a
    /\ current' = {"mine"}

\* Where a reconcile goes when the finalizer is there.
Prepared(a) == IF a.phase = "" THEN "initialize" ELSE "user"

Begin ==
    /\ pc = "idle"
    /\ queued
    /\ queued' = FALSE
    /\ \/ /\ IF cache = None THEN TRUE ELSE cache.deleting /\ ~cache.finalizer
          /\ UNCHANGED <<pc, mine, current>>
       \/ /\ cache # None
          /\ cache.deleting => cache.finalizer
          /\ mine' = cache
          /\ Copied
          /\ pc' = IF cache.deleting THEN "cleanup"
                   ELSE IF cache.finalizer THEN Prepared(cache) ELSE "finalize"
    /\ UNCHANGED <<kubeVars, roleVars, cacheVars, read, ghostVars, boundVars>>

\* DeleteAll does nothing; without its finalizer the agent is gone.
Cleanup ==
    /\ pc = "cleanup"
    /\ "mine" \in current
    /\ agent' = None
    /\ current' = {}
    /\ Return(FALSE)
    /\ UNCHANGED <<owned, roleVars, cacheVars, ghostVars, boundVars>>

Finalize ==
    /\ pc = "finalize"
    /\ WriteMine([mine EXCEPT !.finalizer = TRUE])
    /\ GotoWith("refetch", agent')
    /\ UNCHANGED <<owned, roleVars, cacheVars, ghostVars, boundVars>>

\* Get reads from the cache, which may not have the write yet; the finalizer
\* keeps the agent from being gone.
Refetch ==
    /\ cache # None
    /\ \/ pc = "refetch" /\ GotoWith(Prepared(cache), cache)
       \/ pc = "reinitialized" /\ GotoWith("user", cache)
       \/ pc = "reuser" /\ GotoWith("token", cache)
       \/ pc = "latest" /\ GotoWith("status", cache)
    /\ Copied
    /\ UNCHANGED <<kubeVars, roleVars, cacheVars, ghostVars, boundVars>>

\* A failing status write is ignored here.
Initialize ==
    /\ pc = "initialize"
    /\ \/ /\ WriteMine([mine EXCEPT !.phase = "Initializing"])
          /\ GotoWith("reinitialized", agent')
       \/ /\ "mine" \notin current
          /\ GotoWith("user", [mine EXCEPT !.phase = "Initializing"])
          /\ UNCHANGED <<agent, current>>
    /\ UNCHANGED <<owned, roleVars, cacheVars, ghostVars, boundVars>>

-----------------------------------------------------------------------------
(* ResourceReconciler.ReconcileAll                                         *)

\* generatePassword never draws a password twice.
Drawn == [r \in Roles |-> IF password[r] = "new" THEN "old" ELSE password[r]]

\* A user that exists keeps its password.
CreateUser ==
    password' = [Drawn EXCEPT ![mine.role] = IF @ = None THEN "new" ELSE @]

EnsureGiteaUser ==
    /\ pc = "user"
    /\ CreateUser
    /\ \/ /\ mine.user # mine.role
          /\ WriteMine([mine EXCEPT !.user = mine.role])
          /\ GotoWith("reuser", agent')
       \/ /\ mine.user = mine.role
          /\ Goto("token")
          /\ UNCHANGED <<agent, current>>
       \/ /\ mine.user # mine.role
          /\ "mine" \notin current
          /\ Goto("failed")
          /\ UNCHANGED <<agent, current>>
    /\ UNCHANGED <<owned, secrets, content, watchVars, cacheVars, ghostVars,
                   boundVars>>

\* EnsureGiteaToken: Gitea gives a token for the user's password only.
EnsureGiteaToken ==
    /\ pc = "token"
    /\ \/ /\ mine.role \in secrets
          /\ Goto("role")
          /\ UNCHANGED giteaVars
       \/ /\ mine.role \notin secrets
          /\ password' = Drawn
          /\ IF password'[mine.role] = "new"
             THEN Goto("role") /\ secrets' = secrets \cup {mine.role}
             ELSE Goto("failed") /\ UNCHANGED secrets
    /\ UNCHANGED <<kubeVars, content, watchVars, cacheVars, current, ghostVars,
                   boundVars>>

\* An object made for the copy.
Object(text) == [owner |-> mine.uid, role |-> mine.role, paused |-> mine.paused,
                 text |-> text]

\* An object not in the cache is created; that fails if it exists.
CreateOwned(k, object, next) ==
    /\ seen[k] = None
    /\ IF owned[k] = None
       THEN owned' = [owned EXCEPT ![k] = object] /\ Goto(next)
       ELSE Goto("failed") /\ UNCHANGED owned

\* One in the cache is updated, and keeps its owner; that fails if the cache
\* is behind.
UpdateOwned(k, object, next) ==
    /\ seen[k] # None
    /\ IF seen[k] = owned[k]
       THEN /\ owned' = [owned EXCEPT ![k] = [object EXCEPT !.owner = seen[k].owner]]
            /\ Goto(next)
       ELSE Goto("failed") /\ UNCHANGED owned

ownedOnly == <<agent, roleVars, cacheVars, current, ghostVars, boundVars>>

EnsureRoleData ==
    /\ pc = "role"
    /\ read' = [role |-> mine.role, version |-> content[mine.role]]
    /\ pc' = "prompt"
    /\ UNCHANGED <<owned, queued, mine, ownedOnly>>

\* EnsureConfigMap, and the skills and the role's files.
EnsureConfigMap ==
    /\ pc = "prompt"
    /\ \/ CreateOwned("prompt", Object(read), "deployment")
       \/ UpdateOwned("prompt", Object(read), "deployment")
    /\ UNCHANGED ownedOnly

\* The hash in the pod template is that of the cached ConfigMap.
Hashed == IF seen["prompt"] = None THEN None ELSE seen["prompt"].text

EnsureDeployment ==
    /\ pc = "deployment"
    /\ \/ CreateOwned("deployment", Object(Hashed), "latest")
       \/ UpdateOwned("deployment", Object(Hashed), "latest")
    /\ UNCHANGED ownedOnly

\* A write of the agent fails; the copy keeps what was to be written.
WriteFails ==
    /\ Fault
    /\ \/ /\ pc \in {"cleanup", "finalize"}
          /\ Return(TRUE)
          /\ Dropped
          /\ UNCHANGED password
       \/ /\ pc = "initialize"
          /\ GotoWith("user", [mine EXCEPT !.phase = "Initializing"])
          /\ UNCHANGED <<current, password>>
       \/ /\ pc = "user"
          /\ mine.user # mine.role
          /\ CreateUser
          /\ GotoWith("failed", [mine EXCEPT !.user = mine.role])
          /\ UNCHANGED current
    /\ UNCHANGED <<kubeVars, secrets, content, watchVars, cacheVars, ghostVars>>

\* A call to Gitea, Kubernetes or the file system fails.
EnsureFails ==
    /\ pc \in {"user", "token", "role", "prompt", "deployment"}
    /\ Fault
    /\ Goto("failed")
    /\ UNCHANGED <<kubeVars, roleVars, cacheVars, current, ghostVars>>

-----------------------------------------------------------------------------
(* The end of Reconcile                                                    *)

\* Mutant of WriteStatus: only the phase is sent, without a version.
PatchStatus(phase) ==
    /\ agent' = IF agent = None THEN None ELSE [agent EXCEPT !.phase = phase]
    /\ current' = IF agent' = agent THEN current \ {"mine"} ELSE {}

\* The status of the copy is written, if the copy is current: a condition's
\* time may make a new version of a status that is otherwise the same.
WriteStatus(phase) ==
    \/ /\ "mine" \in current
       /\ agent' = [mine EXCEPT !.phase = phase]
       /\ current' \in {{}, IF agent' = agent THEN current \ {"mine"} ELSE {}}
    \/ /\ "mine" \notin current
       /\ UNCHANGED <<agent, current>>

\* Mutant of Failed: the error is not returned.
FailedQuietly ==
    /\ pc = "failed"
    /\ WriteStatus(mine.phase)
    /\ Return(FALSE)
    /\ UNCHANGED <<owned, roleVars, cacheVars, ghostVars, boundVars>>

\* The Ready condition becomes False; the phase stays.
Failed ==
    /\ pc = "failed"
    /\ WriteStatus(mine.phase)
    /\ Return(TRUE)
    /\ UNCHANGED <<owned, roleVars, cacheVars, ghostVars, boundVars>>

\* A conflict before ReconcileAll.
Conflict ==
    /\ pc \in {"cleanup", "finalize"}
    /\ "mine" \notin current
    /\ Return(TRUE)
    /\ Dropped
    /\ UNCHANGED <<kubeVars, roleVars, cacheVars, ghostVars, boundVars>>

PhaseOf(a) == IF a.paused THEN "Paused" ELSE "Running"

\* The result of the last write is ignored.
Status ==
    /\ pc = "status"
    /\ WriteStatus(PhaseOf(mine))
    /\ Return(FALSE)
    /\ lost' = FALSE
    /\ UNCHANGED <<owned, roleVars, cacheVars, asked, missed, boundVars>>

StatusLost ==
    /\ pc = "status"
    /\ Fault
    /\ Return(FALSE)
    /\ Dropped
    /\ lost' = TRUE
    /\ UNCHANGED <<kubeVars, roleVars, cacheVars, asked, missed>>

-----------------------------------------------------------------------------
OperatorStep ==
    \/ Begin \/ Cleanup \/ Finalize \/ Refetch \/ Initialize
    \/ EnsureGiteaUser \/ EnsureGiteaToken
    \/ EnsureRoleData \/ EnsureConfigMap \/ EnsureDeployment
    \/ WriteFails \/ EnsureFails \/ Failed \/ Conflict \/ Status \/ StatusLost

Next ==
    \/ \E r \in Roles, paused \in BOOLEAN : Create(r, paused) \/ Update(r, paused)
    \/ Delete \/ Alert
    \/ \E k \in Kinds : Collect(k) \/ SyncOwned(k)
    \/ SyncAgent
    \/ ScanRoles \/ \E r \in Roles : EditRole(r)
    \/ Restart
    \/ OperatorStep

Spec == Init /\ [][Next]_vars

\* Kubernetes collects orphans and informs; the operator works off its queue;
\* the role watcher scans every ten seconds.  Restarts and faults are bounded.
Fairness ==
    /\ WF_vars(SyncAgent)
    /\ WF_vars(\E k \in Kinds : SyncOwned(k))
    /\ WF_vars(\E k \in Kinds : Collect(k))
    /\ WF_vars(ScanRoles)
    /\ WF_vars(OperatorStep)

FairSpec == Spec /\ Fairness

-----------------------------------------------------------------------------
KubeTypes ==
    /\ agent \in Agents \cup {None}
    /\ owned \in [Kinds -> Owned \cup {None}]
    /\ asked \in [role : Roles, paused : BOOLEAN] \cup {None}

RoleTypes ==
    /\ password \in [Roles -> {None, "old", "new"}]
    /\ secrets \subseteq Roles
    /\ content \in [Roles -> Contents]
    /\ dirty \subseteq Roles
    /\ missed \subseteq Roles
    /\ scanned \in BOOLEAN

CopyTypes ==
    /\ cache \in Agents \cup {None}
    /\ seen \in [Kinds -> Owned \cup {None}]
    /\ current \subseteq {"cache", "mine"}

OperatorTypes ==
    /\ queued \in BOOLEAN
    /\ lost \in BOOLEAN
    /\ pc \in PCs
    /\ mine \in IF pc = "idle" THEN {None} ELSE Agents
    /\ read \in Texts \cup {None}
    /\ read # None => pc \in {"prompt", "deployment", "latest", "status", "failed"}

BoundTypes == events \in 0 .. MaxEvents /\ faults \in 0 .. MaxFaults

\* The types, and what a reconcile holds at each step: no copy of the agent and
\* no role's files outlive the reconcile that read them.
TypeOK == KubeTypes /\ RoleTypes /\ CopyTypes /\ OperatorTypes /\ BoundTypes

\* A copy whose resource version is the current one has the agent's spec and
\* finalizer; its status may be one that Reconcile has yet to write, or failed to
\* (agent_controller.go:101, :125, gitea_user.go:36).
CurrentIsCurrent ==
    /\ "cache" \in current => cache = agent
    /\ "mine" \in current =>
          /\ mine # None /\ agent # None
          /\ agent = [mine EXCEPT !.phase = agent.phase, !.user = agent.user]
          /\ mine.phase \in {agent.phase, "Initializing"}

\* The types, and what the resource version stands for: whoever writes from a
\* copy that the API server accepts has seen everything the agent is.
Consistent == TypeOK /\ CurrentIsCurrent

\* The agent's spec is what the last successful call of the API asked for: the
\* finalizer, the phases and the Gitea user, written from a copy that may be
\* old (agent_controller.go:90, :102, :115, :130, gitea_user.go:38), and the
\* detector's phase never undo an update.
SpecIsAsked ==
    IF agent = None THEN TRUE
    ELSE [role |-> agent.role, paused |-> agent.paused] = asked

\* A phase set to Running or Paused is that of the spec at that moment, although
\* the reconcile that sets it began before (agent_controller.go:120-130).
PhaseIsCurrent ==
    [][IF agent = None \/ agent' = None THEN TRUE
       ELSE agent'.phase # agent.phase /\ agent'.phase \in {"Running", "Paused"}
            => agent'.phase = PhaseOf(agent')]_vars

\* What the role's files are, and what was made of them.
Wanted == [role |-> agent.role, version |-> content[agent.role]]

\* The objects and the phase are those the spec and the role's files ask for.
Settled ==
    IF agent = None THEN \A k \in Kinds : owned[k] = None
    ELSE /\ ~agent.deleting
         /\ agent.role \in secrets =>
               /\ \A k \in Kinds :
                     IF owned[k] = None THEN FALSE ELSE owned[k].owner = agent.uid
               /\ owned["deployment"].role = agent.role
               /\ owned["deployment"].paused = agent.paused
               /\ agent.role \notin missed =>
                     /\ owned["prompt"].text = Wanted
                     /\ owned["deployment"].text = Wanted
               /\ agent.phase = PhaseOf(agent) \/ lost

\* When the changes and the faults end, every agent settles: one whose role has
\* its Gitea token runs, or is paused, with the files of its role, and a deleted
\* one leaves nothing, whatever conflicts, stale caches and restarts happened.
\* Two changes get lost: one the role watcher counts as known already and a
\* status whose write fails.
Converges == <>[]Settled

=============================================================================
