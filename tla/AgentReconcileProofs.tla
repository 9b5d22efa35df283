------------------------ MODULE AgentReconcileProofs ------------------------
(***************************************************************************)
(* Neither the operator nor the detector undoes what the API asked for,    *)
(* and no stale phase is set, for any number of roles, events and faults.  *)
(***************************************************************************)
EXTENDS AgentReconcile, TLAPS

\* The versions of the roles' files are counted by the events.
ContentBound == \A r \in Roles : content[r] <= events

IInv ==
    /\ TypeOK
    /\ ContentBound
    /\ CurrentIsCurrent
    /\ SpecIsAsked

\* No agent, nothing made: the invariant holds at the start.
LEMMA InitInv == Init => IInv
<1>1. SUFFICES ASSUME Init PROVE IInv
  OBVIOUS
<1>. USE AgentReconcileAssumption
<1>2. KubeTypes
  BY <1>1 DEF Init, KubeTypes
<1>3. RoleTypes
  <2>1. password \in [Roles -> {None, "old", "new"}]
    BY <1>1 DEF Init
  <2>2. content \in [Roles -> Contents]
    BY <1>1 DEF Init, Contents
  <2>3. secrets \subseteq Roles /\ dirty \subseteq Roles /\ missed \subseteq Roles
    BY <1>1 DEF Init
  <2>. QED
    BY <1>1, <2>1, <2>2, <2>3 DEF Init, RoleTypes
<1>4. CopyTypes
  BY <1>1 DEF Init, CopyTypes
<1>5. OperatorTypes
  BY <1>1 DEF Init, OperatorTypes, PCs
<1>6. BoundTypes
  BY <1>1 DEF Init, BoundTypes
<1>. QED
  BY <1>1, <1>2, <1>3, <1>4, <1>5, <1>6
  DEF Init, IInv, TypeOK, ContentBound, CurrentIsCurrent, SpecIsAsked

-----------------------------------------------------------------------------
(* Types                                                                   *)

\* An event is counted.
LEMMA EventCounted ==
  ASSUME BoundTypes, Event
  PROVE  events' = events + 1 /\ events' \in 1 .. MaxEvents /\ events \in Nat
BY AgentReconcileAssumption DEF BoundTypes, Event

\* The steps outside the operator.
LEMMA ApiTyped ==
  ASSUME TypeOK, ContentBound,
         NEW r \in Roles, NEW p \in BOOLEAN,
         Create(r, p) \/ Update(r, p) \/ Delete \/ Alert
  PROVE  TypeOK' /\ ContentBound'
<1>. USE AgentReconcileAssumption
<1>1. Event /\ faults' = faults
  BY DEF Create, Update, Delete, Alert, Change
<1>2. events' = events + 1 /\ events' \in 1 .. MaxEvents /\ events \in Nat
  BY <1>1, EventCounted DEF TypeOK
<1>3. UNCHANGED <<owned, roleVars, cacheVars, operatorVars, lost, missed>>
  BY DEF Create, Update, Delete, Alert, ghostVars
<1>4. UNCHANGED <<owned, password, secrets, content, dirty, scanned, cache, seen,
                  queued, pc, mine, read, lost, missed>>
  BY <1>3 DEF roleVars, giteaVars, watchVars, cacheVars, operatorVars
<1>5. asked' \in [role : Roles, paused : BOOLEAN] \cup {None}
  <2>1. CASE Create(r, p) \/ Update(r, p)
    <3>1. asked' = [role |-> r, paused |-> p]
      BY <2>1, Zenon DEF Create, Update, Asked
    <3>. QED
      BY <3>1
  <2>2. CASE Delete \/ Alert
    <3>1. asked' = asked
      BY <2>2 DEF Delete, Alert, ghostVars
    <3>. QED
      BY <3>1 DEF TypeOK, KubeTypes
  <2>. QED
    BY <2>1, <2>2
<1>6. agent' \in Agents \cup {None} /\ current' \in {current, {}}
  <2>1. CASE Create(r, p)
    BY <2>1, <1>2 DEF Create, Write, Agents, Uids, Phases
  <2>2. CASE Update(r, p)
    BY <2>2 DEF Update, Write, TypeOK, KubeTypes, Agents
  <2>3. CASE Delete
    BY <2>3 DEF Delete, Write, TypeOK, KubeTypes, Agents
  <2>4. CASE Alert
    BY <2>4 DEF Alert, Write, TypeOK, KubeTypes, Agents, Phases
  <2>. QED
    BY <2>1, <2>2, <2>3, <2>4
<1>7. KubeTypes' /\ CopyTypes'
  BY <1>4, <1>5, <1>6 DEF TypeOK, KubeTypes, CopyTypes
<1>8. RoleTypes' /\ OperatorTypes'
  BY <1>4 DEF TypeOK, RoleTypes, OperatorTypes
<1>9. BoundTypes' /\ ContentBound'
  BY <1>1, <1>2, <1>4 DEF TypeOK, BoundTypes, RoleTypes, Contents, ContentBound
<1>. QED
  BY <1>7, <1>8, <1>9 DEF TypeOK

\* A role's files are changed: their version grows with the events.
LEMMA EditTyped ==
  ASSUME TypeOK, ContentBound, NEW r \in Roles, EditRole(r)
  PROVE  TypeOK' /\ ContentBound'
<1>. USE AgentReconcileAssumption
<1>1. Event /\ faults' = faults
  BY DEF EditRole, Change
<1>2. events' = events + 1 /\ events' \in 1 .. MaxEvents /\ events \in Nat
  BY <1>1, EventCounted DEF TypeOK
<1>3. UNCHANGED <<agent, owned, password, secrets, scanned, cache, seen, current,
                  queued, pc, mine, read, asked, lost, missed>>
  BY DEF EditRole, kubeVars, giteaVars, cacheVars, operatorVars, ghostVars
<1>4. content' \in [Roles -> Contents] /\ ContentBound'
  BY <1>2 DEF EditRole, TypeOK, RoleTypes, ContentBound, Contents
<1>5. RoleTypes'
  BY <1>3, <1>4 DEF EditRole, TypeOK, RoleTypes
<1>6. KubeTypes' /\ CopyTypes' /\ OperatorTypes'
  BY <1>3 DEF TypeOK, KubeTypes, CopyTypes, OperatorTypes
<1>7. BoundTypes'
  BY <1>1, <1>2 DEF TypeOK, BoundTypes
<1>. QED
  BY <1>4, <1>5, <1>6, <1>7 DEF TypeOK

\* Informers, the role watcher and Kubernetes keep the types.
LEMMA SyncTyped ==
  ASSUME TypeOK, ContentBound,
         SyncAgent \/ ScanRoles \/ \E k \in Kinds : Collect(k) \/ SyncOwned(k)
  PROVE  TypeOK' /\ ContentBound'
<1>1. UNCHANGED <<password, secrets, content, pc, mine, read, asked, lost,
                  events, faults>>
  BY DEF SyncAgent, ScanRoles, Collect, SyncOwned, roleVars, giteaVars, operatorVars,
         ghostVars, boundVars
<1>2. KubeTypes'
  <2>1. agent' = agent
    BY DEF SyncAgent, ScanRoles, Collect, SyncOwned, kubeVars
  <2>2. owned' \in [Kinds -> Owned \cup {None}]
    BY DEF TypeOK, KubeTypes, SyncAgent, ScanRoles, Collect, SyncOwned, kubeVars
  <2>. QED
    BY <1>1, <2>1, <2>2 DEF TypeOK, KubeTypes
<1>3. RoleTypes'
  <2>1. scanned' \in BOOLEAN
    BY DEF TypeOK, RoleTypes, SyncAgent, ScanRoles, Collect, SyncOwned, roleVars, watchVars
  <2>2. dirty' \subseteq Roles /\ missed' \subseteq Roles
    BY DEF TypeOK, RoleTypes, SyncAgent, ScanRoles, Collect, SyncOwned, roleVars,
           watchVars, ghostVars
  <2>. QED
    BY <1>1, <2>1, <2>2 DEF TypeOK, RoleTypes
<1>4. CopyTypes'
  <2>1. CASE SyncAgent
    BY <2>1 DEF TypeOK, CopyTypes, KubeTypes, SyncAgent
  <2>2. CASE ScanRoles
    BY <2>2 DEF TypeOK, CopyTypes, ScanRoles, cacheVars
  <2>3. ASSUME NEW k \in Kinds, Collect(k) PROVE CopyTypes'
    BY <2>3 DEF TypeOK, CopyTypes, Collect, cacheVars
  <2>4. ASSUME NEW k \in Kinds, SyncOwned(k) PROVE CopyTypes'
    BY <2>4 DEF TypeOK, CopyTypes, KubeTypes, SyncOwned
  <2>. QED
    BY <2>1, <2>2, <2>3, <2>4
<1>5. OperatorTypes'
  <2>1. queued' \in BOOLEAN
    <3>1. CASE SyncAgent
      BY <3>1 DEF SyncAgent
    <3>2. CASE ScanRoles
      BY <3>2, Zenon DEF ScanRoles, TypeOK, OperatorTypes
    <3>3. ASSUME NEW k \in Kinds, Collect(k) \/ SyncOwned(k) PROVE queued' \in BOOLEAN
      BY <3>3 DEF Collect, SyncOwned, operatorVars, TypeOK, OperatorTypes
    <3>. QED
      BY <3>1, <3>2, <3>3
  <2>. QED
    BY <1>1, <2>1 DEF TypeOK, OperatorTypes
<1>6. BoundTypes' /\ ContentBound'
  BY <1>1 DEF TypeOK, BoundTypes, ContentBound
<1>. QED
  BY <1>2, <1>3, <1>4, <1>5, <1>6 DEF TypeOK

\* A restart forgets what the operator held.
LEMMA RestartTyped ==
  ASSUME TypeOK, ContentBound, Restart
  PROVE  TypeOK' /\ ContentBound'
<1>. USE AgentReconcileAssumption
<1>1. Event /\ faults < MaxFaults /\ faults' = faults + 1
  BY DEF Restart, Fault
<1>2. events' = events + 1 /\ events' \in 1 .. MaxEvents /\ events \in Nat
  BY <1>1, EventCounted DEF TypeOK
<1>3. UNCHANGED <<agent, owned, password, secrets, content, dirty, asked, lost, missed>>
  BY DEF Restart, kubeVars, giteaVars, ghostVars
<1>4. KubeTypes' /\ RoleTypes' /\ CopyTypes'
  BY <1>3 DEF Restart, TypeOK, KubeTypes, RoleTypes, CopyTypes
<1>5. OperatorTypes'
  BY <1>3 DEF Restart, TypeOK, OperatorTypes, PCs
<1>6. BoundTypes' /\ ContentBound'
  BY <1>1, <1>2, <1>3 DEF TypeOK, BoundTypes, RoleTypes, Contents, ContentBound
<1>. QED
  BY <1>4, <1>5, <1>6 DEF TypeOK

-----------------------------------------------------------------------------
(* The operator's steps                                                    *)

\* What an operator's step may change, and the types it gives.
OperatorEffect ==
    /\ agent' \in Agents \cup {None}
    /\ owned' \in [Kinds -> Owned \cup {None}]
    /\ password' \in [Roles -> {None, "old", "new"}]
    /\ secrets' \subseteq Roles
    /\ current' \subseteq {"cache", "mine"}
    /\ OperatorTypes'
    /\ BoundTypes' /\ events' >= events
    /\ UNCHANGED <<content, dirty, scanned, cache, seen, asked, missed>>

\* An operator's step that has this effect keeps the types.
LEMMA EffectTyped ==
  ASSUME TypeOK, ContentBound, OperatorEffect
  PROVE  TypeOK' /\ ContentBound'
<1>1. KubeTypes' /\ RoleTypes' /\ CopyTypes'
  BY DEF OperatorEffect, TypeOK, KubeTypes, RoleTypes, CopyTypes
<1>2. ContentBound'
  BY AgentReconcileAssumption
  DEF OperatorEffect, TypeOK, BoundTypes, RoleTypes, Contents, ContentBound
<1>. QED
  BY <1>1, <1>2 DEF OperatorEffect, TypeOK

\* The variables of the operator after each of its ways to go on.
LEMMA ReturnTyped ==
  ASSUME OperatorTypes, NEW again \in BOOLEAN, Return(again), lost' \in BOOLEAN
  PROVE  OperatorTypes'
<1>1. queued' \in BOOLEAN
  BY Zenon DEF OperatorTypes, Return
<1>. QED
  BY <1>1 DEF OperatorTypes, Return, PCs

\* Going on with the copy.
LEMMA GotoTyped ==
  ASSUME OperatorTypes, pc # "idle", NEW p \in PCs \ {"idle"}, Goto(p), lost' = lost,
         read = None \/ p \in {"prompt", "deployment", "latest", "status", "failed"}
  PROVE  OperatorTypes'
BY DEF OperatorTypes, Goto

\* Going on with another copy.
LEMMA GotoWithTyped ==
  ASSUME OperatorTypes, NEW p \in PCs \ {"idle"}, NEW copy \in Agents,
         GotoWith(p, copy), lost' = lost,
         read = None \/ p \in {"prompt", "deployment", "latest", "status", "failed"}
  PROVE  OperatorTypes'
BY DEF OperatorTypes, GotoWith

\* The types a step of the operator starts from.
LEMMA TypesBefore ==
  ASSUME TypeOK
  PROVE  /\ agent \in Agents \cup {None}
         /\ cache \in Agents \cup {None}
         /\ owned \in [Kinds -> Owned \cup {None}]
         /\ password \in [Roles -> {None, "old", "new"}]
         /\ secrets \subseteq Roles
         /\ current \subseteq {"cache", "mine"}
         /\ OperatorTypes
         /\ BoundTypes
         /\ events >= events
BY AgentReconcileAssumption
DEF TypeOK, KubeTypes, RoleTypes, CopyTypes, OperatorTypes, BoundTypes

\* A fault is counted.
LEMMA FaultCounted ==
  ASSUME BoundTypes, Fault
  PROVE  BoundTypes' /\ events' >= events
BY AgentReconcileAssumption DEF BoundTypes, Fault, Event

\* The users a role may have.
LEMMA DrawnTyped ==
  ASSUME password \in [Roles -> {None, "old", "new"}]
  PROVE  Drawn \in [Roles -> {None, "old", "new"}]
BY DEF Drawn

\* Reconcile's own steps have the operator's effect.
LEMMA ReconcileTyped ==
  ASSUME TypeOK, Begin \/ Cleanup \/ Finalize \/ Refetch \/ Initialize \/ Conflict
  PROVE  OperatorEffect
<1>. USE TypesBefore
<1>1. UNCHANGED <<owned, password, secrets, content, dirty, scanned, cache, seen,
                  asked, lost, missed, events, faults>>
  BY DEF Begin, Cleanup, Finalize, Refetch, Initialize, Conflict, kubeVars, roleVars,
         giteaVars, watchVars, cacheVars, ghostVars, boundVars
<1>2. pc # "idle" => mine \in Agents
  BY DEF OperatorTypes
<1>3. /\ agent' \in Agents \cup {None}
      /\ current' \subseteq {"cache", "mine"}
      /\ OperatorTypes'
  <2>1. CASE Begin
    <3>1. agent' = agent /\ current' \in {current, {"cache", "mine"}, {}}
      BY <2>1 DEF Begin, Copied, kubeVars
    <3>2. OperatorTypes'
      BY <2>1, <1>1 DEF Begin, OperatorTypes, Prepared, PCs
    <3>. QED
      BY <3>1, <3>2
  <2>2. CASE Cleanup
    <3>1. OperatorTypes'
      BY <2>2, <1>1, ReturnTyped DEF Cleanup, OperatorTypes
    <3>. QED
      BY <2>2, <3>1 DEF Cleanup
  <2>3. CASE Finalize
    <3>1. [mine EXCEPT !.finalizer = TRUE] \in Agents
      BY <2>3, <1>2 DEF Finalize, Agents
    <3>2. read = None
      BY <2>3 DEF Finalize, OperatorTypes
    <3>3. OperatorTypes'
      BY <2>3, <1>1, <3>1, <3>2, GotoWithTyped DEF Finalize, WriteMine, PCs
    <3>. QED
      BY <2>3, <3>1, <3>3 DEF Finalize, WriteMine
  <2>4. CASE Refetch
    <3>1. cache \in Agents /\ agent' = agent
      BY <2>4 DEF Refetch, kubeVars
    <3>2. current' \subseteq {"cache", "mine"}
      BY <2>4 DEF Refetch, Copied
    <3>3. OperatorTypes'
      BY <2>4, <3>1, <1>1 DEF Refetch, GotoWith, Prepared, OperatorTypes, PCs
    <3>. QED
      BY <3>1, <3>2, <3>3
  <2>5. CASE Initialize
    <3>1. [mine EXCEPT !.phase = "Initializing"] \in Agents
      BY <2>5, <1>2 DEF Initialize, Agents, Phases
    <3>2. read = None
      BY <2>5 DEF Initialize, OperatorTypes
    <3>3. OperatorTypes'
      BY <2>5, <1>1, <3>1, <3>2, GotoWithTyped DEF Initialize, WriteMine, PCs
    <3>. QED
      BY <2>5, <3>1, <3>3 DEF Initialize, WriteMine
  <2>6. CASE Conflict
    <3>1. OperatorTypes'
      BY <2>6, <1>1, ReturnTyped DEF Conflict, OperatorTypes
    <3>. QED
      BY <2>6, <3>1 DEF Conflict, Dropped, kubeVars
  <2>. QED
    BY <2>1, <2>2, <2>3, <2>4, <2>5, <2>6
<1>4. BoundTypes' /\ events' >= events
  BY <1>1 DEF BoundTypes
<1>. QED
  BY <1>1, <1>3, <1>4 DEF OperatorEffect

\* The objects a reconcile makes.
LEMMA ObjectTyped ==
  ASSUME mine \in Agents, NEW text \in Texts \cup {None}
  PROVE  Object(text) \in Owned
BY DEF Object, Agents, Owned

\* An object is created, or the reconcile fails.
LEMMA CreateOwnedTyped ==
  ASSUME owned \in [Kinds -> Owned \cup {None}], OperatorTypes, pc # "idle",
         lost' = lost, NEW k \in Kinds, NEW object \in Owned,
         NEW next \in {"deployment", "latest"}, CreateOwned(k, object, next)
  PROVE  owned' \in [Kinds -> Owned \cup {None}] /\ OperatorTypes'
<1>1. CASE owned[k] = None
  BY <1>1, GotoTyped DEF CreateOwned, PCs
<1>2. CASE owned[k] # None
  BY <1>2, GotoTyped DEF CreateOwned, PCs
<1>. QED
  BY <1>1, <1>2

\* An object is updated, or the reconcile fails.
LEMMA UpdateOwnedTyped ==
  ASSUME owned \in [Kinds -> Owned \cup {None}], OperatorTypes, pc # "idle",
         lost' = lost, NEW k \in Kinds, NEW object \in Owned,
         NEW next \in {"deployment", "latest"}, UpdateOwned(k, object, next)
  PROVE  owned' \in [Kinds -> Owned \cup {None}] /\ OperatorTypes'
<1>1. CASE seen[k] = owned[k]
  <2>1. owned[k] \in Owned
    BY <1>1 DEF UpdateOwned
  <2>2. [object EXCEPT !.owner = seen[k].owner] \in Owned
    BY <1>1, <2>1 DEF Owned
  <2>3. owned' = [owned EXCEPT ![k] = [object EXCEPT !.owner = seen[k].owner]]
        /\ Goto(next)
    BY <1>1 DEF UpdateOwned
  <2>. QED
    BY <2>2, <2>3, GotoTyped DEF PCs
<1>2. CASE seen[k] # owned[k]
  BY <1>2, GotoTyped DEF UpdateOwned, PCs
<1>. QED
  BY <1>1, <1>2

\* So have the steps of ReconcileAll.
LEMMA EnsureTyped ==
  ASSUME TypeOK,
         \/ EnsureGiteaUser \/ EnsureGiteaToken \/ EnsureRoleData
         \/ EnsureConfigMap \/ EnsureDeployment
  PROVE  OperatorEffect
<1>. USE TypesBefore
<1>1. UNCHANGED <<content, dirty, scanned, cache, seen, asked, lost, missed,
                  events, faults>>
  BY DEF EnsureGiteaUser, EnsureGiteaToken, EnsureRoleData, EnsureConfigMap,
         EnsureDeployment, ownedOnly, kubeVars, roleVars, giteaVars, watchVars,
         cacheVars, ghostVars, boundVars
<1>2. pc # "idle" /\ mine \in Agents
  BY DEF EnsureGiteaUser, EnsureGiteaToken, EnsureRoleData, EnsureConfigMap,
         EnsureDeployment, OperatorTypes
<1>3. BoundTypes' /\ events' >= events
  BY <1>1 DEF BoundTypes
<1>4. CASE EnsureGiteaUser
  <2>1. UNCHANGED <<owned, secrets>>
    BY <1>4 DEF EnsureGiteaUser
  <2>2. password' \in [Roles -> {None, "old", "new"}]
    BY <1>4, DrawnTyped DEF EnsureGiteaUser, CreateUser
  <2>3. [mine EXCEPT !.user = mine.role] \in Agents
    BY <1>2 DEF Agents
  <2>4. read = None
    BY <1>4 DEF EnsureGiteaUser, OperatorTypes
  <2>5. OperatorTypes'
    BY <1>1, <1>2, <1>4, <2>3, <2>4, GotoTyped, GotoWithTyped
    DEF EnsureGiteaUser, WriteMine, PCs
  <2>6. agent' \in Agents \cup {None} /\ current' \subseteq {"cache", "mine"}
    BY <1>4, <2>3 DEF EnsureGiteaUser, WriteMine
  <2>. QED
    BY <1>1, <1>3, <2>1, <2>2, <2>5, <2>6 DEF OperatorEffect
<1>5. CASE EnsureGiteaToken
  <2>1. UNCHANGED <<agent, owned, current>>
    BY <1>5 DEF EnsureGiteaToken, kubeVars
  <2>2. password' \in [Roles -> {None, "old", "new"}]
    BY <1>5, DrawnTyped DEF EnsureGiteaToken, giteaVars
  <2>3. mine.role \in Roles
    BY <1>2 DEF Agents
  <2>4. secrets' \subseteq Roles
    BY <1>5, <2>3 DEF EnsureGiteaToken, giteaVars
  <2>5. read = None
    BY <1>5 DEF EnsureGiteaToken, OperatorTypes
  <2>6. Goto("role") \/ Goto("failed")
    BY <1>5 DEF EnsureGiteaToken
  <2>7. OperatorTypes'
    BY <1>1, <1>2, <2>5, <2>6, GotoTyped DEF PCs
  <2>. QED
    BY <1>1, <1>3, <2>1, <2>2, <2>4, <2>7 DEF OperatorEffect
<1>6. CASE EnsureRoleData
  <2>1. UNCHANGED <<agent, owned, password, secrets, current, queued, mine>>
    BY <1>6 DEF EnsureRoleData, ownedOnly, roleVars, giteaVars
  <2>2. read' \in Texts
    BY <1>2, <1>6 DEF EnsureRoleData, Texts, Agents, TypeOK, RoleTypes
  <2>3. OperatorTypes'
    BY <1>1, <1>2, <1>6, <2>1, <2>2 DEF EnsureRoleData, OperatorTypes, PCs
  <2>. QED
    BY <1>1, <1>3, <2>1, <2>3 DEF OperatorEffect
<1>7. CASE EnsureConfigMap \/ EnsureDeployment
  <2>1. UNCHANGED <<agent, password, secrets, current>>
    BY <1>7 DEF EnsureConfigMap, EnsureDeployment, ownedOnly, roleVars, giteaVars
  <2>2. owned' \in [Kinds -> Owned \cup {None}] /\ OperatorTypes'
    <3>1. CASE EnsureConfigMap
      <4>1. Object(read) \in Owned
        BY <1>2, ObjectTyped DEF OperatorTypes
      <4>. QED
        BY <1>1, <1>2, <3>1, <4>1, CreateOwnedTyped, UpdateOwnedTyped
        DEF EnsureConfigMap, Kinds
    <3>2. CASE EnsureDeployment
      <4>1. Hashed \in Texts \cup {None}
        BY DEF Hashed, TypeOK, CopyTypes, Owned, Kinds
      <4>2. Object(Hashed) \in Owned
        BY <1>2, <4>1, ObjectTyped
      <4>. QED
        BY <1>1, <1>2, <3>2, <4>2, CreateOwnedTyped, UpdateOwnedTyped
        DEF EnsureDeployment, Kinds
    <3>. QED
      BY <1>7, <3>1, <3>2
  <2>. QED
    BY <1>1, <1>3, <2>1, <2>2 DEF OperatorEffect
<1>. QED
  BY <1>4, <1>5, <1>6, <1>7

\* So have the failures and the end of a reconcile.
LEMMA EndTyped ==
  ASSUME TypeOK, WriteFails \/ EnsureFails \/ Failed \/ Status \/ StatusLost
  PROVE  OperatorEffect
<1>. USE TypesBefore
<1>1. UNCHANGED <<owned, secrets, content, dirty, scanned, cache, seen, asked, missed>>
  BY DEF WriteFails, EnsureFails, Failed, Status, StatusLost, kubeVars, roleVars,
         giteaVars, watchVars, cacheVars, ghostVars
<1>2. pc # "idle" /\ mine \in Agents
  BY DEF WriteFails, EnsureFails, Failed, Status, StatusLost, OperatorTypes
<1>3. BoundTypes' /\ events' >= events
  <2>1. CASE Fault
    BY <2>1, FaultCounted
  <2>2. CASE UNCHANGED boundVars
    BY <2>2 DEF boundVars, BoundTypes
  <2>. QED
    BY <2>1, <2>2 DEF WriteFails, EnsureFails, Failed, Status, StatusLost
<1>4. CASE WriteFails
  <2>1. agent' = agent /\ current' \in {current, current \ {"mine"}} /\ lost' = lost
    BY <1>4 DEF WriteFails, kubeVars, Dropped, ghostVars
  <2>2. password' \in [Roles -> {None, "old", "new"}]
    <3>1. password' = password \/ CreateUser
      BY <1>4 DEF WriteFails
    <3>. QED
      BY <3>1, DrawnTyped DEF CreateUser
  <2>3. /\ [mine EXCEPT !.phase = "Initializing"] \in Agents
        /\ [mine EXCEPT !.user = mine.role] \in Agents
    BY <1>2 DEF Agents, Phases
  <2>4. read = None
    BY <1>4 DEF WriteFails, OperatorTypes
  <2>5. lost' \in BOOLEAN
    BY <2>1 DEF OperatorTypes
  <2>6. OperatorTypes'
    BY <1>4, <2>1, <2>3, <2>4, <2>5, ReturnTyped, GotoWithTyped DEF WriteFails, PCs
  <2>. QED
    BY <1>1, <1>3, <2>1, <2>2, <2>6 DEF OperatorEffect
<1>5. CASE EnsureFails
  <2>1. UNCHANGED <<agent, current, password, lost>> /\ Goto("failed")
    BY <1>5 DEF EnsureFails, kubeVars, roleVars, giteaVars, ghostVars
  <2>2. OperatorTypes'
    BY <1>2, <2>1, GotoTyped DEF PCs
  <2>. QED
    BY <1>1, <1>3, <2>1, <2>2 DEF OperatorEffect
<1>6. CASE Failed \/ Status \/ StatusLost
  <2>1. password' = password
    BY <1>6 DEF Failed, Status, StatusLost, roleVars, giteaVars
  <2>2. lost' \in BOOLEAN
    BY <1>6 DEF Failed, Status, StatusLost, ghostVars, OperatorTypes
  <2>3. OperatorTypes'
    BY <1>6, <2>2, ReturnTyped DEF Failed, Status, StatusLost
  <2>4. mine.phase \in Phases /\ PhaseOf(mine) \in Phases
    BY <1>2 DEF Agents, Phases, PhaseOf
  <2>5. \A phase \in Phases : [mine EXCEPT !.phase = phase] \in Agents
    BY <1>2 DEF Agents
  <2>6. agent' \in Agents \cup {None} /\ current' \subseteq {"cache", "mine"}
    BY <1>6, <2>4, <2>5 DEF Failed, Status, StatusLost, WriteStatus, Dropped, kubeVars
  <2>. QED
    BY <1>1, <1>3, <2>1, <2>3, <2>6 DEF OperatorEffect
<1>. QED
  BY <1>4, <1>5, <1>6

-----------------------------------------------------------------------------
(* Versions, specs and phases                                              *)

\* The non-temporal part of PhaseIsCurrent.
PhaseStep ==
    IF agent = None \/ agent' = None THEN TRUE
    ELSE agent'.phase # agent.phase /\ agent'.phase \in {"Running", "Paused"}
         => agent'.phase = PhaseOf(agent')

Claim == CurrentIsCurrent' /\ SpecIsAsked' /\ PhaseStep

\* What is known of the agent and its copies before a step.
Known ==
    /\ agent \in Agents \cup {None}
    /\ cache \in Agents \cup {None}
    /\ mine \in Agents \cup {None}
    /\ pc # "idle" => mine \in Agents
    /\ CurrentIsCurrent
    /\ SpecIsAsked

\* The invariant gives what is known before a step.
LEMMA InvKnown == IInv => Known
BY DEF IInv, Known, TypeOK, KubeTypes, CopyTypes, OperatorTypes

\* A step that leaves the agent alone and drops no version it has not.
LEMMA AgentAlone ==
  ASSUME Known, agent' = agent, asked' = asked, cache' = cache, mine' = mine,
         current' \subseteq current
  PROVE  Claim
BY DEF Claim, Known, CurrentIsCurrent, SpecIsAsked, PhaseStep

\* A step that does so and drops the copy of the reconcile.
LEMMA CopyDropped ==
  ASSUME Known, agent' = agent, asked' = asked, cache' = cache,
         current' \subseteq current, "mine" \notin current'
  PROVE  Claim
BY DEF Claim, Known, CurrentIsCurrent, SpecIsAsked, PhaseStep

\* A copy taken from the cache is as current as the cache.
LEMMA CopyTaken ==
  ASSUME Known, agent' = agent, asked' = asked, cache' = cache, cache # None,
         mine' = cache, Copied
  PROVE  Claim
<1>1. SpecIsAsked' /\ PhaseStep
  BY DEF Known, SpecIsAsked, PhaseStep
<1>2. CurrentIsCurrent'
  <2>1. CASE "cache" \in current
    <3>1. cache = agent /\ agent \in Agents
      BY <2>1 DEF Known, CurrentIsCurrent
    <3>2. agent = [agent EXCEPT !.phase = agent.phase, !.user = agent.user]
      BY <3>1 DEF Agents
    <3>. QED
      BY <3>1, <3>2 DEF CurrentIsCurrent
  <2>2. CASE "cache" \notin current
    BY <2>2 DEF Copied, CurrentIsCurrent
  <2>. QED
    BY <2>1, <2>2
<1>. QED
  BY <1>1, <1>2 DEF Claim

\* A write of the copy that keeps its spec, with the copy current before.
LEMMA CopyWritten ==
  ASSUME Known, "mine" \in current, asked' = asked, agent' \in Agents,
         agent'.role = mine.role, agent'.paused = mine.paused,
         \/ current' = {"mine"} /\ mine' = agent'
         \/ current' \subseteq current \ {"mine"} /\ cache' = cache /\ agent' = agent
         \/ current' = {},
         agent'.phase \in {mine.phase, "Initializing", PhaseOf(mine)}
  PROVE  Claim
<1>1. /\ agent \in Agents /\ mine \in Agents
      /\ agent = [mine EXCEPT !.phase = agent.phase, !.user = agent.user]
      /\ mine.phase \in {agent.phase, "Initializing"}
  BY DEF Known, CurrentIsCurrent
<1>2. agent.role = mine.role /\ agent.paused = mine.paused
  BY <1>1 DEF Agents
<1>3. SpecIsAsked'
  <2>1. agent # None /\ agent'.role = agent.role /\ agent'.paused = agent.paused
    BY <1>1, <1>2, AgentReconcileAssumption
  <2>2. [role |-> agent.role, paused |-> agent.paused] = asked
    BY <2>1 DEF Known, SpecIsAsked
  <2>. QED
    BY <2>1, <2>2 DEF SpecIsAsked
<1>4. PhaseStep
  <2>1. PhaseOf(mine) = PhaseOf(agent')
    BY DEF PhaseOf
  <2>. QED
    BY <1>1, <2>1 DEF PhaseStep
<1>5. agent' = [agent' EXCEPT !.phase = agent'.phase, !.user = agent'.user]
  BY DEF Agents
<1>6. agent' # None
  BY AgentReconcileAssumption
<1>7. CurrentIsCurrent'
  <2>1. CASE current' = {"mine"} /\ mine' = agent'
    BY <2>1, <1>5, <1>6 DEF CurrentIsCurrent
  <2>2. CASE current' \subseteq current \ {"mine"} /\ cache' = cache /\ agent' = agent
    BY <2>2 DEF Known, CurrentIsCurrent
  <2>3. CASE current' = {}
    BY <2>3 DEF CurrentIsCurrent
  <2>. QED
    BY <2>1, <2>2, <2>3
<1>. QED
  BY <1>3, <1>4, <1>7 DEF Claim

\* The API asks for what it writes; the detector and a deletion keep it.
LEMMA ApiClaim ==
  ASSUME Known, NEW r \in Roles, NEW p \in BOOLEAN,
         Create(r, p) \/ Update(r, p) \/ Delete \/ Alert
  PROVE  Claim
<1>. USE AgentReconcileAssumption
<1>1. cache' = cache /\ mine' = mine
  BY DEF Create, Update, Delete, Alert, cacheVars, operatorVars
<1>2. PICK a : Write(a)
  BY DEF Create, Update, Delete, Alert
<1>3. CurrentIsCurrent'
  BY <1>1, <1>2 DEF Write, Known, CurrentIsCurrent
<1>4. CASE Create(r, p)
  <2>1. agent = None /\ agent'.role = r /\ agent'.paused = p
        /\ asked' = [role |-> r, paused |-> p]
    BY <1>4 DEF Create, Write, Asked
  <2>2. SpecIsAsked' /\ PhaseStep
    BY <2>1 DEF SpecIsAsked, PhaseStep
  <2>. QED
    BY <1>3, <2>2 DEF Claim
<1>5. CASE Update(r, p)
  <2>1. agent \in Agents /\ agent' = [agent EXCEPT !.role = r, !.paused = p]
        /\ asked' = [role |-> r, paused |-> p]
    BY <1>5 DEF Update, Write, Asked, Known
  <2>2. agent'.role = r /\ agent'.paused = p /\ agent'.phase = agent.phase
    BY <2>1 DEF Agents
  <2>3. SpecIsAsked' /\ PhaseStep
    BY <2>1, <2>2 DEF SpecIsAsked, PhaseStep
  <2>. QED
    BY <1>3, <2>3 DEF Claim
<1>6. CASE Delete \/ Alert
  <2>1. agent \in Agents /\ agent # None /\ asked' = asked
    BY <1>6 DEF Delete, Alert, Known, ghostVars
  <2>2. agent' = None \/ /\ agent'.role = agent.role
                         /\ agent'.paused = agent.paused
                         /\ agent'.phase \in {agent.phase, "Error"}
    BY <1>6, <2>1 DEF Delete, Alert, Write, Agents
  <2>3. [role |-> agent.role, paused |-> agent.paused] = asked
    BY <2>1 DEF Known, SpecIsAsked
  <2>4. SpecIsAsked'
    BY <2>1, <2>2, <2>3 DEF SpecIsAsked
  <2>5. PhaseStep
    BY <2>2 DEF PhaseStep
  <2>. QED
    BY <1>3, <2>4, <2>5 DEF Claim
<1>. QED
  BY <1>4, <1>5, <1>6

\* The steps that only inform the operator.
LEMMA EnvironmentClaim ==
  ASSUME Known,
         \/ SyncAgent \/ ScanRoles \/ Restart
         \/ \E r \in Roles : EditRole(r)
         \/ \E k \in Kinds : Collect(k) \/ SyncOwned(k)
  PROVE  Claim
<1>1. agent' = agent /\ asked' = asked
  BY DEF SyncAgent, ScanRoles, Restart, EditRole, Collect, SyncOwned, kubeVars, ghostVars
<1>2. CASE SyncAgent
  <2>1. cache' = agent /\ mine' = mine /\ current' = current \cup {"cache"}
    BY <1>2 DEF SyncAgent
  <2>. QED
    BY <1>1, <2>1 DEF Claim, Known, CurrentIsCurrent, SpecIsAsked, PhaseStep
<1>3. CASE Restart
  <2>1. cache' = agent /\ current' = {"cache"}
    BY <1>3 DEF Restart
  <2>. QED
    BY <1>1, <2>1 DEF Claim, Known, CurrentIsCurrent, SpecIsAsked, PhaseStep
<1>4. CASE ~SyncAgent /\ ~Restart
  <2>1. cache' = cache /\ mine' = mine /\ current' = current
    BY <1>4 DEF ScanRoles, EditRole, Collect, SyncOwned, cacheVars, operatorVars
  <2>. QED
    BY <1>1, <2>1, AgentAlone
<1>. QED
  BY <1>2, <1>3, <1>4

\* Reconcile's own steps.
LEMMA ReconcileClaim ==
  ASSUME Known, Begin \/ Cleanup \/ Finalize \/ Refetch \/ Initialize \/ Conflict
  PROVE  Claim
<1>. USE AgentReconcileAssumption
<1>1. cache' = cache /\ asked' = asked
  BY DEF Begin, Cleanup, Finalize, Refetch, Initialize, Conflict, cacheVars, ghostVars
<1>2. CASE Begin
  <2>1. agent' = agent
    BY <1>2 DEF Begin, kubeVars
  <2>2. \/ mine' = mine /\ current' = current
        \/ cache # None /\ mine' = cache /\ Copied
    BY <1>2 DEF Begin
  <2>. QED
    BY <1>1, <2>1, <2>2, AgentAlone, CopyTaken
<1>3. CASE Cleanup
  BY <1>1, <1>3 DEF Cleanup, Claim, CurrentIsCurrent, SpecIsAsked, PhaseStep
<1>4. CASE Finalize
  <2>1. mine \in Agents
    BY <1>4 DEF Finalize, Known
  <2>2. agent' = [mine EXCEPT !.finalizer = TRUE] /\ "mine" \in current
        /\ current' = {"mine"} /\ mine' = agent'
    BY <1>4 DEF Finalize, WriteMine, GotoWith
  <2>3. agent' \in Agents /\ agent'.role = mine.role /\ agent'.paused = mine.paused
        /\ agent'.phase = mine.phase
    BY <2>1, <2>2 DEF Agents
  <2>. QED
    BY <1>1, <2>2, <2>3, CopyWritten
<1>5. CASE Refetch
  <2>1. cache # None /\ mine' = cache /\ Copied /\ agent' = agent
    BY <1>5 DEF Refetch, GotoWith, kubeVars
  <2>. QED
    BY <1>1, <2>1, CopyTaken
<1>6. CASE Initialize
  <2>1. mine \in Agents
    BY <1>6 DEF Initialize, Known
  <2>2. CASE "mine" \in current
    <3>1. agent' = [mine EXCEPT !.phase = "Initializing"]
          /\ current' = {"mine"} /\ mine' = agent'
      BY <1>6, <2>2 DEF Initialize, WriteMine, GotoWith
    <3>2. agent' \in Agents /\ agent'.role = mine.role /\ agent'.paused = mine.paused
          /\ agent'.phase = "Initializing"
      BY <2>1, <3>1 DEF Agents, Phases
    <3>. QED
      BY <1>1, <2>2, <3>1, <3>2, CopyWritten
  <2>3. CASE "mine" \notin current
    <3>1. agent' = agent /\ current' = current
      BY <1>6, <2>3 DEF Initialize, WriteMine
    <3>. QED
      BY <1>1, <2>3, <3>1, CopyDropped
  <2>. QED
    BY <2>2, <2>3
<1>7. CASE Conflict
  <2>1. agent' = agent /\ current' = current \ {"mine"}
    BY <1>7 DEF Conflict, Dropped, kubeVars
  <2>. QED
    BY <1>1, <2>1, CopyDropped
<1>. QED
  BY <1>2, <1>3, <1>4, <1>5, <1>6, <1>7

\* A status write: the copy as it is, or with the phase of its spec.
LEMMA StatusWritten ==
  ASSUME Known, pc # "idle", asked' = asked, cache' = cache,
         NEW phase \in {mine.phase, PhaseOf(mine)}, WriteStatus(phase)
  PROVE  Claim
<1>. USE AgentReconcileAssumption
<1>1. mine \in Agents
  BY DEF Known
<1>2. phase \in Phases
  BY <1>1 DEF Agents, PhaseOf, Phases
<1>3. CASE "mine" \in current
  <2>1. agent' = [mine EXCEPT !.phase = phase]
        /\ \/ current' = {}
           \/ agent' = agent /\ current' = current \ {"mine"}
    BY <1>3 DEF WriteStatus
  <2>2. agent' \in Agents /\ agent'.role = mine.role /\ agent'.paused = mine.paused
        /\ agent'.phase = phase
    BY <1>1, <1>2, <2>1 DEF Agents
  <2>. QED
    BY <1>3, <2>1, <2>2, CopyWritten
<1>4. CASE "mine" \notin current
  BY <1>4, CopyDropped DEF WriteStatus
<1>. QED
  BY <1>3, <1>4

\* The steps of ReconcileAll and the end of Reconcile.
LEMMA EnsureClaim ==
  ASSUME Known,
         \/ EnsureGiteaUser \/ EnsureGiteaToken \/ EnsureRoleData
         \/ EnsureConfigMap \/ EnsureDeployment
         \/ WriteFails \/ EnsureFails \/ Failed \/ Status \/ StatusLost
  PROVE  Claim
<1>1. cache' = cache /\ asked' = asked
  BY DEF EnsureGiteaUser, EnsureGiteaToken, EnsureRoleData, EnsureConfigMap,
         EnsureDeployment, WriteFails, EnsureFails, Failed, Status, StatusLost,
         ownedOnly, cacheVars, ghostVars
<1>2. mine \in Agents /\ pc # "idle"
  BY DEF EnsureGiteaUser, EnsureGiteaToken, EnsureRoleData, EnsureConfigMap,
         EnsureDeployment, WriteFails, EnsureFails, Failed, Status, StatusLost, Known
<1>3. CASE EnsureGiteaUser
  <2>1. CASE WriteMine([mine EXCEPT !.user = mine.role]) /\ GotoWith("reuser", agent')
    <3>1. agent' = [mine EXCEPT !.user = mine.role] /\ "mine" \in current
          /\ current' = {"mine"} /\ mine' = agent'
      BY <2>1 DEF WriteMine, GotoWith
    <3>2. agent' \in Agents /\ agent'.role = mine.role /\ agent'.paused = mine.paused
          /\ agent'.phase = mine.phase
      BY <1>2, <3>1 DEF Agents
    <3>. QED
      BY <1>1, <3>1, <3>2, CopyWritten
  <2>2. CASE agent' = agent /\ current' = current /\ mine' = mine
    BY <1>1, <2>2, AgentAlone
  <2>. QED
    BY <1>3, <2>1, <2>2 DEF EnsureGiteaUser, Goto
<1>4. CASE EnsureGiteaToken \/ EnsureRoleData \/ EnsureConfigMap \/ EnsureDeployment
           \/ EnsureFails
  <2>1. agent' = agent /\ current' = current
    BY <1>4 DEF EnsureGiteaToken, EnsureRoleData, EnsureConfigMap, EnsureDeployment,
                EnsureFails, ownedOnly, kubeVars
  <2>2. mine' = mine
    BY <1>4 DEF EnsureGiteaToken, EnsureRoleData, EnsureConfigMap, EnsureDeployment,
                EnsureFails, CreateOwned, UpdateOwned, Goto
  <2>. QED
    BY <1>1, <2>1, <2>2, AgentAlone
<1>5. CASE WriteFails
  <2>1. agent' = agent
    BY <1>5 DEF WriteFails, kubeVars
  <2>2. CASE current' = current \ {"mine"}
    BY <1>1, <2>1, <2>2, CopyDropped
  <2>3. CASE /\ current' = current
             /\ \/ mine' = [mine EXCEPT !.phase = "Initializing"]
                \/ mine' = [mine EXCEPT !.user = mine.role]
    <3>1. mine' \in Agents
      BY <1>2, <2>3 DEF Agents, Phases
    <3>2. mine' # None
      BY <3>1, AgentReconcileAssumption
    <3>3. [mine' EXCEPT !.phase = agent.phase, !.user = agent.user]
            = [mine EXCEPT !.phase = agent.phase, !.user = agent.user]
      BY <1>2, <2>3 DEF Agents
    <3>4. mine'.phase \in {mine.phase, "Initializing"}
      BY <1>2, <2>3 DEF Agents
    <3>5. CurrentIsCurrent'
      BY <1>1, <2>1, <2>3, <3>2, <3>3, <3>4 DEF Known, CurrentIsCurrent
    <3>. QED
      BY <1>1, <2>1, <3>5 DEF Claim, Known, SpecIsAsked, PhaseStep
  <2>. QED
    BY <1>5, <2>2, <2>3 DEF WriteFails, Dropped, GotoWith
<1>6. CASE Failed
  BY <1>1, <1>2, <1>6, StatusWritten DEF Failed
<1>7. CASE Status
  BY <1>1, <1>2, <1>7, StatusWritten DEF Status
<1>8. CASE StatusLost
  <2>1. agent' = agent /\ current' = current \ {"mine"}
    BY <1>8 DEF StatusLost, Dropped, kubeVars
  <2>. QED
    BY <1>1, <2>1, CopyDropped
<1>. QED
  BY <1>3, <1>4, <1>5, <1>6, <1>7, <1>8

-----------------------------------------------------------------------------
(* The theorems                                                            *)

\* The invariant is inductive, and no step sets a stale phase.
LEMMA StepInv ==
  ASSUME IInv, [Next]_vars
  PROVE  IInv' /\ PhaseStep
<1>0. Known /\ TypeOK /\ ContentBound
  BY InvKnown DEF IInv
<1>. USE <1>0
<1>. SUFFICES TypeOK' /\ ContentBound' /\ Claim
  BY DEF IInv, Claim
<1>1. ASSUME NEW r \in Roles, NEW p \in BOOLEAN, Create(r, p) \/ Update(r, p)
      PROVE  TypeOK' /\ ContentBound' /\ Claim
  BY <1>1, ApiTyped, ApiClaim
<1>2. CASE Delete \/ Alert
  <2>1. agent \in Agents
    BY <1>2 DEF Delete, Alert, Known
  <2>2. PICK r \in Roles, p \in BOOLEAN : r = agent.role
    BY <2>1 DEF Agents
  <2>. QED
    BY <1>2, <2>2, ApiTyped, ApiClaim
<1>3. ASSUME NEW k \in Kinds, Collect(k) \/ SyncOwned(k)
      PROVE  TypeOK' /\ ContentBound' /\ Claim
  BY <1>3, SyncTyped, EnvironmentClaim
<1>4. CASE SyncAgent \/ ScanRoles
  BY <1>4, SyncTyped, EnvironmentClaim
<1>5. ASSUME NEW r \in Roles, EditRole(r)
      PROVE  TypeOK' /\ ContentBound' /\ Claim
  BY <1>5, EditTyped, EnvironmentClaim
<1>6. CASE Restart
  BY <1>6, RestartTyped, EnvironmentClaim
<1>7. CASE OperatorStep
  <2>1. OperatorEffect
    BY <1>7, ReconcileTyped, EnsureTyped, EndTyped DEF OperatorStep
  <2>2. Claim
    BY <1>7, ReconcileClaim, EnsureClaim DEF OperatorStep
  <2>. QED
    BY <2>1, <2>2, EffectTyped
<1>8. CASE UNCHANGED vars
  <2>1. UNCHANGED <<agent, owned, password, secrets, content, dirty, scanned, cache,
                    current, seen, queued, pc, mine, read, asked, lost, missed,
                    events, faults>>
    BY <1>8 DEF vars, kubeVars, roleVars, giteaVars, watchVars, cacheVars,
                operatorVars, ghostVars, boundVars
  <2>2. Claim
    BY <2>1, AgentAlone
  <2>3. TypeOK' /\ ContentBound'
    BY <2>1 DEF TypeOK, KubeTypes, RoleTypes, CopyTypes, OperatorTypes, BoundTypes,
                ContentBound
  <2>. QED
    BY <2>2, <2>3
<1>. QED
  BY <1>1, <1>2, <1>3, <1>4, <1>5, <1>6, <1>7, <1>8 DEF Next

\* The inductive invariant holds in every reachable state.
THEOREM Invariance == Spec => []IInv
<1>1. Init => IInv
  BY InitInv
<1>2. IInv /\ [Next]_vars => IInv'
  BY StepInv
<1>. QED
  BY <1>1, <1>2, PTL DEF Spec

\* The types, and that nothing of a reconcile outlives it.
THEOREM TypesHold == Spec => []TypeOK
<1>1. IInv => TypeOK
  BY DEF IInv
<1>. QED
  BY <1>1, Invariance, PTL

\* The agent's spec is the one last asked for by the API, whatever the operator
\* and the detector write from their copies.
THEOREM SpecHolds == Spec => []SpecIsAsked
<1>1. IInv => SpecIsAsked
  BY DEF IInv
<1>. QED
  BY <1>1, Invariance, PTL

\* A copy with the current version has the agent's spec and finalizer.
THEOREM CurrentHolds == Spec => []CurrentIsCurrent
<1>1. IInv => CurrentIsCurrent
  BY DEF IInv
<1>. QED
  BY <1>1, Invariance, PTL

\* The types and the copies together.
THEOREM ConsistentHolds == Spec => []Consistent
<1>. QED
  BY TypesHold, CurrentHolds, PTL DEF Consistent

\* A phase set to Running or Paused agrees with the spec of that moment.
THEOREM PhaseHolds == Spec => PhaseIsCurrent
<1>1. IInv /\ [Next]_vars =>
        [IF agent = None \/ agent' = None THEN TRUE
         ELSE agent'.phase # agent.phase /\ agent'.phase \in {"Running", "Paused"}
              => agent'.phase = PhaseOf(agent')]_vars
  BY StepInv DEF PhaseStep
<1>. QED
  BY <1>1, Invariance, PTL DEF Spec, PhaseIsCurrent

=============================================================================
