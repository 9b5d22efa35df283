------------------------- MODULE AgentObjectsProofs -------------------------
(***************************************************************************)
(* The operator forgets nothing of an agent, for any number of roles,      *)
(* repositories, namespaces, events and faults.                            *)
(***************************************************************************)
EXTENDS AgentObjects, Integers, TLAPS

\* A binding is in a namespace that exists.
BoundTyped ==
    /\ bound \in [Spaces -> Extras \cup {None}]
    /\ \A n \in Spaces \ there : bound[n] = None

\* The cluster and the roles' files.
ClusterTypes ==
    /\ agent \in Agents \cup {None}
    /\ objects \in [Kinds -> Objects \cup {None}]
    /\ collab \subseteq Roles \X Repos
    /\ there \subseteq Spaces
    /\ BoundTyped
    /\ content \in [Roles -> Contents]
    /\ \A r \in Roles : content[r].version <= events

\* The operator, and what is only observed or counted.
OperatorTypes ==
    /\ queued \in BOOLEAN
    /\ pc \in PCs
    /\ mine \in IF pc = "idle" THEN {None} ELSE Agents
    /\ read \in IF pc \in {"idle", "access", "jwt", "role"} THEN {None} ELSE RoleData
    /\ had \subseteq Specs
    /\ unseen \subseteq there
    /\ events \in 0 .. MaxEvents
    /\ faults \in 0 .. MaxFaults

\* A reconcile that nothing has overtaken works on the agent as it is, from its
\* role's files as they are.
Fresh ==
    /\ agent = mine
    /\ ~agent.deleting
    /\ pc \in {"skills", "files", "claim", "binding", "deployment", "done"} =>
          read = Current

\* What its steps have done is still there.
Progress ==
    /\ pc \in (Steps \ {"access"}) \cup {"done"} =>
          \A repo \in agent.spec.repos : <<agent.spec.role, repo>> \in collab
    /\ pc \in {"role", "skills", "files", "claim", "binding", "deployment", "done"} =>
          objects["jwt"] # None
    /\ pc \in {"files", "claim", "binding", "deployment", "done"} =>
          objects["skills"] # None /\ objects["skills"].text = Current
    /\ pc \in {"claim", "binding", "deployment", "done"} /\ Current.extra =>
          objects["files"] # None /\ objects["files"].text = Current
    /\ pc \in {"binding", "deployment", "done"} => objects["claim"] # None
    /\ pc \in {"deployment", "done"} =>
          /\ objects["home"] # None
          /\ \A n \in (agent.spec.spaces \cap there) \ unseen : bound[n] # None
    /\ pc = "done" =>
          /\ objects["deployment"] # None
          /\ objects["deployment"].from = agent.spec.role
          /\ objects["deployment"].text = Current

Quiet ==
    ~queued => IF pc = "idle" THEN Complete ELSE Fresh /\ Progress

\* No object is younger than the last event, and what the agent, or the copy of
\* it that the operator works on, asks for it has been given.
Asked ==
    /\ \A k \in Kinds : objects[k] # None => objects[k].owner <= events
    /\ \A n \in Spaces : bound[n] # None => bound[n].maker <= events
    /\ mine # None => mine.uid <= events
    /\ agent # None => agent.uid <= events /\ agent.spec \in had
    /\ agent # None /\ mine # None /\ mine.uid = agent.uid => mine.spec \in had
    /\ agent # None => MadeAsAsked

\* What every step preserves.
IInv == ClusterTypes /\ OperatorTypes /\ Quiet /\ Asked

LEMMA Constants ==
    /\ MaxFaults \in Nat /\ MaxEvents \in Nat
    /\ None \notin Agents /\ None \notin Objects /\ None \notin RoleData
    /\ None \notin Roles /\ None \notin Extras
    /\ \A spec \in Specs : /\ spec.role \in Roles /\ spec.repos \subseteq Repos
                           /\ spec.spaces \subseteq Spaces /\ spec.setup \in Setups
  BY AgentObjectsAssumption

LEMMA InitInv == Init => IInv
<1>1. SUFFICES ASSUME Init PROVE IInv
  OBVIOUS
<1>2. ClusterTypes
  BY <1>1, Constants DEF Init, ClusterTypes, BoundTyped, Contents, Versions
<1>3. OperatorTypes
  <2>1. /\ pc = "idle" /\ mine = None /\ read = None /\ queued = FALSE /\ had = {}
        /\ unseen = {} /\ events = 0 /\ faults = 0
    BY <1>1 DEF Init
  <2>2. pc \in PCs /\ queued \in BOOLEAN /\ had \subseteq Specs /\ unseen \subseteq there
    BY <2>1 DEF PCs
  <2>3. /\ mine \in IF pc = "idle" THEN {None} ELSE Agents
        /\ read \in IF pc \in {"idle", "access", "jwt", "role"} THEN {None} ELSE RoleData
    BY <2>1
  <2>4. events \in 0 .. MaxEvents /\ faults \in 0 .. MaxFaults
    BY <2>1, Constants
  <2>. QED
    BY <2>2, <2>3, <2>4 DEF OperatorTypes
<1>4. Quiet
  BY <1>1 DEF Init, Quiet, Complete
<1>5. Asked
  BY <1>1 DEF Init, Asked
<1>. QED
  BY <1>2, <1>3, <1>4, <1>5 DEF IInv

-----------------------------------------------------------------------------
(* Types                                                                   *)

LEMMA EventTypes == OperatorTypes /\ Event => events' \in Uids /\ events < events'
  BY Constants DEF OperatorTypes, Event, Uids

LEMMA BoundTypes ==
    /\ OperatorTypes /\ Change => events' \in 0 .. MaxEvents /\ faults' \in 0 .. MaxFaults
    /\ OperatorTypes /\ Fault => events' \in 0 .. MaxEvents /\ faults' \in 0 .. MaxFaults
<1>1. OperatorTypes => events \in 0 .. MaxEvents /\ faults \in 0 .. MaxFaults
  BY DEF OperatorTypes
<1>. QED
  BY <1>1, Constants DEF Change, Fault, Event

\* The API's calls, and what happens in the cluster.
LEMMA OutsideTypes ==
    ASSUME IInv,
           \/ \E spec \in Specs : Create(spec) \/ Update(spec)
           \/ Delete
           \/ \E k \in Kinds : Collect(k)
           \/ \E r \in Roles, extra \in BOOLEAN : EditRole(r, extra)
           \/ \E n \in Spaces : MakeSpace(n) \/ RemoveSpace(n)
    PROVE  ClusterTypes' /\ OperatorTypes'
<1>1. ClusterTypes /\ OperatorTypes
  BY DEF IInv
<1>2. ASSUME NEW spec \in Specs, Create(spec)
      PROVE  ClusterTypes' /\ OperatorTypes'
  <2>1. events' \in Uids /\ events < events' /\ events \in Int /\ events' \in Int
    BY <1>1, <1>2, EventTypes DEF Create, Change, Uids, OperatorTypes, Event
  <2>2. agent' \in Agents
    BY <1>2, <2>1 DEF Create, Agents
  <2>3. ClusterTypes'
    BY <1>1, <1>2, <2>1, <2>2 DEF Create, ClusterTypes, BoundTyped, Contents, Versions
  <2>4. OperatorTypes'
    BY <1>1, <1>2, BoundTypes DEF Create, OperatorTypes
  <2>. QED
    BY <2>3, <2>4
<1>3. ASSUME NEW spec \in Specs, Update(spec)
      PROVE  ClusterTypes' /\ OperatorTypes'
  <2>1. events' \in Uids /\ events < events' /\ events \in Int /\ events' \in Int
    BY <1>1, <1>3, EventTypes DEF Update, Change, Uids, OperatorTypes, Event
  <2>2. agent \in Agents
    BY <1>1, <1>3 DEF Update, ClusterTypes
  <2>3. agent' \in Agents
    BY <1>3, <2>2 DEF Update, Agents
  <2>4. ClusterTypes'
    BY <1>1, <1>3, <2>1, <2>3 DEF Update, ClusterTypes, BoundTyped, Contents, Versions
  <2>5. OperatorTypes'
    BY <1>1, <1>3, BoundTypes DEF Update, OperatorTypes
  <2>. QED
    BY <2>4, <2>5
<1>4. ASSUME Delete
      PROVE  ClusterTypes' /\ OperatorTypes'
  <2>1. events' \in Uids /\ events < events' /\ events \in Int /\ events' \in Int
    BY <1>1, <1>4, EventTypes DEF Delete, Change, Uids, OperatorTypes, Event
  <2>2. agent \in Agents
    BY <1>1, <1>4 DEF Delete, ClusterTypes
  <2>3. agent' \in Agents \cup {None}
    BY <1>4, <2>2 DEF Delete, Agents
  <2>4. ClusterTypes'
    BY <1>1, <1>4, <2>1, <2>3 DEF Delete, ClusterTypes, BoundTyped, Contents, Versions
  <2>5. OperatorTypes'
    BY <1>1, <1>4, BoundTypes DEF Delete, OperatorTypes, ghostVars
  <2>. QED
    BY <2>4, <2>5
<1>5. ASSUME NEW k \in Kinds, Collect(k)
      PROVE  ClusterTypes' /\ OperatorTypes'
  BY <1>1, <1>5 DEF Collect, Noticed, ClusterTypes, BoundTyped, OperatorTypes, ghostVars,
                    boundVars
<1>6. ASSUME NEW r \in Roles, NEW extra \in BOOLEAN, EditRole(r, extra)
      PROVE  ClusterTypes' /\ OperatorTypes'
  <2>1. /\ events' \in Uids /\ events \in Int /\ events' \in Int
        /\ events' = events + 1 /\ events' <= MaxEvents
    BY <1>1, <1>6, EventTypes DEF EditRole, Change, Uids, OperatorTypes, Event
  <2>2. UNCHANGED <<agent, objects, collab, bound, there, pc, mine, read, had, unseen>>
    BY <1>6 DEF EditRole, clusterVars, ghostVars
  <2>3. content' = [content EXCEPT ![r] = [version |-> content[r].version + 1,
                                           extra |-> extra]]
    BY <1>6 DEF EditRole
  <2>4. content[r].version \in Nat /\ content[r].version <= events
    BY <1>1 DEF ClusterTypes, Contents, Versions
  <2>5. [version |-> content[r].version + 1, extra |-> extra] \in Contents
    BY <2>1, <2>4, Constants DEF Contents, Versions
  <2>6. \A s \in Roles : content'[s].version <= events'
    <3>1. ASSUME NEW s \in Roles PROVE content'[s].version <= events'
      <4>1. content[s].version \in Nat /\ content[s].version <= events
        BY <1>1 DEF ClusterTypes, Contents, Versions
      <4>. QED
        BY <1>1, <2>1, <2>3, <2>4, <4>1 DEF ClusterTypes
    <3>. QED
      BY <3>1
  <2>7. ClusterTypes'
    BY <1>1, <2>2, <2>3, <2>5, <2>6 DEF ClusterTypes, BoundTyped
  <2>8. queued' \in BOOLEAN
    BY <1>1, <1>6 DEF EditRole, OperatorTypes
  <2>9. OperatorTypes'
    BY <1>1, <1>6, <2>2, <2>8, BoundTypes DEF EditRole, OperatorTypes
  <2>. QED
    BY <2>7, <2>9
<1>7. ASSUME NEW n \in Spaces, MakeSpace(n) \/ RemoveSpace(n)
      PROVE  ClusterTypes' /\ OperatorTypes'
  <2>1. events' \in Uids /\ events < events' /\ events \in Int /\ events' \in Int
    BY <1>1, <1>7, EventTypes DEF MakeSpace, RemoveSpace, Change, Uids, OperatorTypes, Event
  <2>2. UNCHANGED <<agent, objects, collab, content, queued, pc, mine, read, had>>
    BY <1>7 DEF MakeSpace, RemoveSpace, operatorVars
  <2>3. there' \subseteq Spaces /\ BoundTyped' /\ unseen' \subseteq there'
    BY <1>1, <1>7 DEF MakeSpace, RemoveSpace, ClusterTypes, BoundTyped, OperatorTypes
  <2>4. ClusterTypes'
    BY <1>1, <2>1, <2>2, <2>3 DEF ClusterTypes, Contents, Versions
  <2>5. OperatorTypes'
    BY <1>1, <1>7, <2>2, <2>3, BoundTypes DEF MakeSpace, RemoveSpace, OperatorTypes
  <2>. QED
    BY <2>4, <2>5
<1>. QED
  BY <1>2, <1>3, <1>4, <1>5, <1>6, <1>7

\* What the copy is.
LEMMA MineTypes ==
    ASSUME OperatorTypes, pc # "idle"
    PROVE  /\ mine \in Agents /\ mine # None
           /\ mine.uid \in Uids
           /\ mine.spec.role \in Roles
           /\ mine.spec.repos \subseteq Repos
           /\ mine.spec.spaces \subseteq Spaces
           /\ mine.spec.setup \in Setups
<1>1. mine \in Agents
  BY DEF OperatorTypes
<1>2. mine.uid \in Uids /\ mine.spec \in Specs
  BY <1>1 DEF Agents
<1>. QED
  BY <1>1, <1>2, Constants

\* What Keep and Put leave.
LEMMA KeepEffect ==
    ASSUME ClusterTypes, NEW k \in Kinds, NEW object \in Objects, Keep(k, object)
    PROVE  /\ objects' \in [Kinds -> Objects \cup {None}]
           /\ objects'[k] # None
           /\ objects'[k] \in {objects[k], object}
           /\ \A j \in Kinds \ {k} : objects'[j] = objects[j]
<1>1. objects \in [Kinds -> Objects \cup {None}] /\ object # None
  BY Constants DEF ClusterTypes
<1>2. objects' = [objects EXCEPT ![k] = IF objects[k] = None THEN object ELSE objects[k]]
  BY DEF Keep
<1>. QED
  BY <1>1, <1>2

LEMMA PutEffect ==
    ASSUME ClusterTypes, NEW k \in Kinds, NEW object \in Objects, Put(k, object)
    PROVE  /\ objects' \in [Kinds -> Objects \cup {None}]
           /\ objects'[k] # None
           /\ objects'[k].from = object.from
           /\ objects'[k].text = object.text
           /\ objects'[k].owner \in {object.owner} \cup
                 IF objects[k] = None THEN {} ELSE {objects[k].owner}
           /\ \A j \in Kinds \ {k} : objects'[j] = objects[j]
<1>1. objects \in [Kinds -> Objects \cup {None}] /\ object # None
  BY Constants DEF ClusterTypes
<1>2. objects' = [objects EXCEPT ![k] =
                    IF objects[k] = None THEN object
                    ELSE [object EXCEPT !.owner = objects[k].owner]]
  BY DEF Put
<1>3. CASE objects[k] = None
  BY <1>1, <1>2, <1>3
<1>4. CASE objects[k] # None
  <2>. DEFINE o == [object EXCEPT !.owner = objects[k].owner]
  <2>1. objects[k].owner \in Uids
    BY <1>1, <1>4 DEF Objects
  <2>2. o \in Objects /\ o.from = object.from /\ o.text = object.text
        /\ o.owner = objects[k].owner
    BY <2>1 DEF Objects
  <2>3. o # None
    BY <2>2, Constants
  <2>. HIDE DEF o
  <2>4. objects' = [objects EXCEPT ![k] = o]
    BY <1>2, <1>4 DEF o
  <2>. QED
    BY <1>1, <1>4, <2>2, <2>3, <2>4
<1>. QED
  BY <1>3, <1>4

\* What Bind leaves.
LEMMA BindEffect ==
    ASSUME ClusterTypes, OperatorTypes, pc # "idle", there' = there,
           NEW s \in SUBSET Bindings, Bind(s)
    PROVE  /\ BoundTyped'
           /\ \A n \in Spaces : n \in s => bound'[n] # None
           /\ \A n \in Spaces :
                 \/ bound'[n] = bound[n]
                 \/ bound'[n] = [maker |-> mine.uid, from |-> mine.spec.setup]
<1>. DEFINE b == [maker |-> mine.uid, from |-> mine.spec.setup]
<1>1. b \in Extras /\ b # None
  BY MineTypes, Constants DEF Extras
<1>2. s \subseteq there
  BY DEF Bindings
<1>3. bound' = [n \in Spaces |-> IF n \in s /\ bound[n] = None THEN b ELSE bound[n]]
  BY DEF Bind
<1>4. BoundTyped
  BY DEF ClusterTypes
<1>. HIDE DEF b
<1>5. BoundTyped'
  BY <1>1, <1>2, <1>3, <1>4 DEF BoundTyped
<1>6. \A n \in Spaces : n \in s => bound'[n] # None
  BY <1>1, <1>3
<1>7. \A n \in Spaces : bound'[n] = bound[n] \/ bound'[n] = b
  BY <1>3
<1>. QED
  BY <1>5, <1>6, <1>7 DEF b

LEMMA ObjectTypes ==
    ASSUME OperatorTypes, pc # "idle", NEW from \in Roles \cup Setups \cup {None},
           NEW text \in RoleData \cup {None}
    PROVE  /\ Object(from, text) \in Objects
           /\ Object(from, text).owner = mine.uid
           /\ Object(from, text).from = from
           /\ Object(from, text).text = text
  BY MineTypes DEF Object, Objects

\* A step of the reconcile that goes on to p.
LEMMA GotoTypes ==
    ASSUME OperatorTypes, pc # "idle", NEW p \in PCs \ {"idle"}, Goto(p),
           UNCHANGED <<there, had, unseen, events, faults>>,
           read' \in IF p \in {"access", "jwt", "role"} THEN {None} ELSE RoleData
    PROVE  OperatorTypes'
  BY MineTypes DEF Goto, OperatorTypes

LEMMA OperatorStepTypes ==
    ASSUME IInv, OperatorStep \/ Restart
    PROVE  ClusterTypes' /\ OperatorTypes'
<1>1. ClusterTypes /\ OperatorTypes
  BY DEF IInv
<1>2. CASE Begin
  <2>1. UNCHANGED <<objects, collab, bound, there, content, read, had, unseen,
                    events, faults>>
    BY <1>2 DEF Begin, ghostVars, boundVars
  <2>2. pc = "idle" /\ read = None
    BY <1>1, <1>2 DEF Begin, OperatorTypes
  <2>3. CASE agent' = None /\ queued' = FALSE /\ UNCHANGED <<pc, mine>>
    BY <1>1, <2>1, <2>3 DEF ClusterTypes, BoundTyped, OperatorTypes
  <2>4. CASE /\ agent # None
             /\ agent' = [agent EXCEPT !.finalizer = TRUE]
             /\ queued' = ~agent.finalizer
             /\ mine' = agent'
             /\ pc' = "access"
    <3>1. agent \in Agents
      BY <1>1, <2>4 DEF ClusterTypes, BoundTyped
    <3>2. agent' \in Agents
      BY <2>4, <3>1 DEF Agents
    <3>3. ClusterTypes'
      BY <1>1, <2>1, <3>2 DEF ClusterTypes, BoundTyped
    <3>4. agent.finalizer \in BOOLEAN
      BY <3>1 DEF Agents
    <3>5. OperatorTypes'
      <4>1. "access" \in PCs
        BY DEF PCs, Steps
      <4>. QED
        BY <1>1, <2>1, <2>2, <2>4, <3>2, <3>4, <4>1 DEF OperatorTypes
    <3>. QED
      BY <3>3, <3>5
  <2>. QED
    BY <1>2, <2>3, <2>4 DEF Begin
<1>3. CASE EnsureGiteaRepoAccess
  <2>1. /\ pc = "access" /\ collab' = collab \cup Access /\ Goto("jwt")
        /\ UNCHANGED <<agent, objects, bound, there, content, read, had, unseen,
                       events, faults>>
    BY <1>3 DEF EnsureGiteaRepoAccess, ghostVars, boundVars
  <2>2. collab' \subseteq Roles \X Repos
    BY <1>1, <2>1, MineTypes DEF Access, ClusterTypes, BoundTyped
  <2>3. ClusterTypes'
    BY <1>1, <2>1, <2>2 DEF ClusterTypes, BoundTyped
  <2>4. read = None /\ "jwt" \in PCs
    BY <1>1, <2>1 DEF OperatorTypes, PCs, Steps
  <2>. QED
    BY <1>1, <2>1, <2>3, <2>4, GotoTypes
<1>4. CASE EnsureJWTSecret
  <2>1. /\ pc = "jwt" /\ Keep("jwt", Object(mine.spec.role, None)) /\ Goto("role")
        /\ UNCHANGED <<agent, collab, bound, there, content, read, had, unseen,
                       events, faults>>
    BY <1>4 DEF EnsureJWTSecret, objectOnly, ghostVars, boundVars
  <2>2. Object(mine.spec.role, None) \in Objects
    BY <1>1, <2>1, MineTypes, ObjectTypes
  <2>3. ClusterTypes'
    BY <1>1, <2>1, <2>2, KeepEffect DEF ClusterTypes, BoundTyped, Kinds
  <2>4. read = None /\ "role" \in PCs
    BY <1>1, <2>1 DEF OperatorTypes, PCs, Steps
  <2>. QED
    BY <1>1, <2>1, <2>3, <2>4, GotoTypes
<1>5. CASE EnsureRoleData
  <2>1. /\ pc = "role" /\ Goto("skills")
        /\ read' = [role |-> mine.spec.role, version |-> content[mine.spec.role].version,
                    extra |-> content[mine.spec.role].extra]
        /\ UNCHANGED <<agent, objects, collab, bound, there, content, had, unseen,
                       events, faults>>
    BY <1>5 DEF EnsureRoleData, objectOnly, ghostVars, boundVars
  <2>2. mine.spec.role \in Roles
    BY <1>1, <2>1, MineTypes
  <2>3. content[mine.spec.role] \in Contents
    BY <1>1, <2>2 DEF ClusterTypes, BoundTyped
  <2>4. read' \in RoleData /\ "skills" \in PCs
    BY <2>1, <2>2, <2>3 DEF RoleData, Contents, PCs, Steps
  <2>5. ClusterTypes'
    BY <1>1, <2>1 DEF ClusterTypes, BoundTyped
  <2>. QED
    BY <1>1, <2>1, <2>4, <2>5, GotoTypes
<1>6. CASE EnsureSkillsConfigMap
  <2>1. /\ pc = "skills" /\ Put("skills", Object(None, read)) /\ Goto("files")
        /\ UNCHANGED <<agent, collab, bound, there, content, read, had, unseen,
                       events, faults>>
    BY <1>6 DEF EnsureSkillsConfigMap, objectOnly, ghostVars, boundVars
  <2>2. read \in RoleData /\ "files" \in PCs
    BY <1>1, <2>1 DEF OperatorTypes, PCs, Steps
  <2>3. Object(None, read) \in Objects
    BY <1>1, <2>1, <2>2, ObjectTypes
  <2>4. ClusterTypes'
    BY <1>1, <2>1, <2>3, PutEffect DEF ClusterTypes, BoundTyped, Kinds
  <2>. QED
    BY <1>1, <2>1, <2>2, <2>4, GotoTypes
<1>7. CASE EnsureRoleFilesConfigMap
  <2>1. /\ pc = "files" /\ Goto("claim")
        /\ IF read.extra THEN Put("files", Object(None, read)) ELSE UNCHANGED objects
        /\ UNCHANGED <<agent, collab, bound, there, content, read, had, unseen,
                       events, faults>>
    BY <1>7 DEF EnsureRoleFilesConfigMap, objectOnly, ghostVars, boundVars
  <2>2. read \in RoleData /\ "claim" \in PCs
    BY <1>1, <2>1 DEF OperatorTypes, PCs, Steps
  <2>3. Object(None, read) \in Objects
    BY <1>1, <2>1, <2>2, ObjectTypes
  <2>4. objects' \in [Kinds -> Objects \cup {None}]
    BY <1>1, <2>1, <2>3, PutEffect DEF ClusterTypes, BoundTyped, Kinds
  <2>5. ClusterTypes'
    BY <1>1, <2>1, <2>4 DEF ClusterTypes, BoundTyped
  <2>. QED
    BY <1>1, <2>1, <2>2, <2>5, GotoTypes
<1>8. CASE EnsureClaim
  <2>1. /\ pc = "claim" /\ Keep("claim", Object(mine.spec.setup, None)) /\ Goto("binding")
        /\ UNCHANGED <<agent, collab, bound, there, content, read, had, unseen,
                       events, faults>>
    BY <1>8 DEF EnsureClaim, objectOnly, ghostVars, boundVars
  <2>2. read \in RoleData /\ "binding" \in PCs
    BY <1>1, <2>1 DEF OperatorTypes, PCs, Steps
  <2>3. Object(mine.spec.setup, None) \in Objects
    BY <1>1, <2>1, MineTypes, ObjectTypes
  <2>4. ClusterTypes'
    BY <1>1, <2>1, <2>3, KeepEffect DEF ClusterTypes, BoundTyped, Kinds
  <2>. QED
    BY <1>1, <2>1, <2>2, <2>4, GotoTypes
<1>9. CASE EnsureRoleBinding
  <2>1. /\ pc = "binding" /\ Keep("home", Object(mine.spec.setup, None))
        /\ Bind(Bindings) /\ unseen' = {} /\ Goto("deployment")
        /\ UNCHANGED <<agent, collab, there, content, read, had, events, faults>>
    BY <1>9 DEF EnsureRoleBinding, boundVars
  <2>2. read \in RoleData /\ "deployment" \in PCs
    BY <1>1, <2>1 DEF OperatorTypes, PCs, Steps
  <2>3. Object(mine.spec.setup, None) \in Objects
    BY <1>1, <2>1, MineTypes, ObjectTypes
  <2>4. objects' \in [Kinds -> Objects \cup {None}]
    BY <1>1, <2>1, <2>3, KeepEffect DEF Kinds
  <2>5. BoundTyped'
    BY <1>1, <2>1, BindEffect
  <2>6. ClusterTypes'
    BY <1>1, <2>1, <2>4, <2>5 DEF ClusterTypes, BoundTyped
  <2>7. OperatorTypes'
    BY <1>1, <2>1, <2>2, MineTypes DEF OperatorTypes, Goto
  <2>. QED
    BY <2>6, <2>7
<1>10. CASE EnsureDeployment
  <2>1. /\ pc = "deployment" /\ Put("deployment", Object(mine.spec.role, read))
        /\ Goto("done")
        /\ UNCHANGED <<agent, collab, bound, there, content, read, had, unseen,
                       events, faults>>
    BY <1>10 DEF EnsureDeployment, objectOnly, ghostVars, boundVars
  <2>2. read \in RoleData /\ "done" \in PCs
    BY <1>1, <2>1 DEF OperatorTypes, PCs, Steps
  <2>3. Object(mine.spec.role, read) \in Objects
    BY <1>1, <2>1, <2>2, MineTypes, ObjectTypes
  <2>4. ClusterTypes'
    BY <1>1, <2>1, <2>3, PutEffect DEF ClusterTypes, BoundTyped, Kinds
  <2>. QED
    BY <1>1, <2>1, <2>2, <2>4, GotoTypes
<1>11. CASE Done
  <2>1. UNCHANGED <<agent, objects, collab, bound, there, content, had, unseen,
                    events, faults>>
    BY <1>11 DEF Done, clusterVars, ghostVars, boundVars
  <2>2. /\ pc' = "idle" /\ mine' = None /\ read' = None /\ queued' \in BOOLEAN
        /\ "idle" \in PCs
    BY <1>1, <1>11 DEF Done, Return, PCs, OperatorTypes
  <2>. QED
    BY <1>1, <2>1, <2>2 DEF ClusterTypes, BoundTyped, OperatorTypes
<1>12. CASE Fails
  <2>1. /\ UNCHANGED <<agent, there, content, had, unseen>>
        /\ pc \in Steps /\ pc # "idle" /\ Fault
    BY <1>12 DEF Fails, ghostVars, Steps
  <2>2. /\ pc' = "idle" /\ mine' = None /\ read' = None /\ queued' \in BOOLEAN
        /\ "idle" \in PCs
    BY <1>1, <1>12 DEF Fails, Return, PCs, OperatorTypes
  <2>3. collab' \subseteq Roles \X Repos
    <3>1. Access \subseteq Roles \X Repos
      BY <1>1, <2>1, MineTypes DEF Access
    <3>. QED
      BY <1>1, <1>12, <3>1 DEF Fails, ClusterTypes, BoundTyped
  <2>4. objects' \in [Kinds -> Objects \cup {None}] /\ BoundTyped'
    <3>1. Object(mine.spec.setup, None) \in Objects
      BY <1>1, <2>1, MineTypes, ObjectTypes
    <3>2. CASE Keep("claim", Object(mine.spec.setup, None)) /\ UNCHANGED bound
      BY <1>1, <2>1, <3>1, <3>2, KeepEffect DEF Kinds, ClusterTypes, BoundTyped
    <3>3. CASE /\ Keep("home", Object(mine.spec.setup, None))
               /\ \E s \in SUBSET Bindings : Bind(s)
      BY <1>1, <2>1, <3>1, <3>3, KeepEffect, BindEffect DEF Kinds
    <3>4. CASE UNCHANGED <<objects, bound>>
      BY <1>1, <2>1, <3>4 DEF ClusterTypes, BoundTyped
    <3>. QED
      BY <1>12, <3>2, <3>3, <3>4 DEF Fails
  <2>5. events' \in 0 .. MaxEvents /\ faults' \in 0 .. MaxFaults /\ events <= events'
    BY <1>1, <2>1, BoundTypes DEF Fault, Event, OperatorTypes
  <2>6. \A r \in Roles : content[r].version <= events'
    BY <1>1, <2>5 DEF ClusterTypes, BoundTyped, OperatorTypes, Contents, Versions
  <2>7. ClusterTypes'
    BY <1>1, <2>1, <2>3, <2>4, <2>6 DEF ClusterTypes, BoundTyped
  <2>8. OperatorTypes'
    BY <1>1, <2>1, <2>2, <2>5 DEF OperatorTypes
  <2>. QED
    BY <2>7, <2>8
<1>13. CASE Restart
  <2>1. /\ UNCHANGED <<agent, objects, collab, bound, there, content, had, unseen>>
        /\ Fault /\ pc' = "idle" /\ mine' = None /\ read' = None /\ queued' = TRUE
        /\ "idle" \in PCs
    BY <1>13 DEF Restart, clusterVars, ghostVars, PCs
  <2>2. events' \in 0 .. MaxEvents /\ faults' \in 0 .. MaxFaults /\ events <= events'
    BY <1>1, <2>1, BoundTypes DEF Fault, Event, OperatorTypes
  <2>3. \A r \in Roles : content[r].version <= events'
    BY <1>1, <2>2 DEF ClusterTypes, BoundTyped, OperatorTypes, Contents, Versions
  <2>4. ClusterTypes'
    BY <1>1, <2>1, <2>3 DEF ClusterTypes, BoundTyped
  <2>5. OperatorTypes'
    BY <1>1, <2>1, <2>2 DEF OperatorTypes
  <2>. QED
    BY <2>4, <2>5
<1>. QED
  BY <1>2, <1>3, <1>4, <1>5, <1>6, <1>7, <1>8, <1>9, <1>10, <1>11, <1>12, <1>13
  DEF OperatorStep

-----------------------------------------------------------------------------
(* Nothing is forgotten                                                    *)

\* What is queued again will be looked at.
LEMMA Loud == queued' = TRUE => Quiet'
  BY DEF Quiet

\* What happens outside queues the agent, or is no matter of its objects.
LEMMA OutsideQuiet ==
    ASSUME IInv,
           \/ \E spec \in Specs : Create(spec) \/ Update(spec)
           \/ Delete
           \/ \E k \in Kinds : Collect(k)
           \/ \E r \in Roles, extra \in BOOLEAN : EditRole(r, extra)
           \/ \E n \in Spaces : MakeSpace(n) \/ RemoveSpace(n)
    PROVE  Quiet'
<1>1. ClusterTypes /\ OperatorTypes /\ Quiet
  BY DEF IInv
<1>2. ASSUME NEW spec \in Specs, Create(spec) PROVE Quiet'
  BY <1>2, Loud DEF Create
<1>3. ASSUME NEW spec \in Specs, Update(spec) PROVE Quiet'
  <2>1. agent \in Agents /\ agent' = [agent EXCEPT !.spec = spec]
        /\ queued' = (queued \/ spec # agent.spec)
        /\ UNCHANGED <<objects, collab, bound, there, content, pc, mine, read, unseen>>
    BY <1>1, <1>3 DEF Update, ClusterTypes
  <2>2. CASE queued \/ spec # agent.spec
    BY <2>1, <2>2, Loud
  <2>3. CASE ~queued /\ spec = agent.spec
    <3>1. agent' = agent
      BY <2>1, <2>3 DEF Agents
    <3>2. queued' = FALSE
      BY <2>1, <2>3
    <3>. QED
      BY <1>1, <2>1, <2>3, <3>1, <3>2
      DEF Quiet, Fresh, Progress, Complete, Current, AccessGiven, Exist, Mounted
  <2>. QED
    BY <2>2, <2>3
<1>4. ASSUME Delete PROVE Quiet'
  BY <1>4, Loud DEF Delete
<1>5. ASSUME NEW k \in Kinds, Collect(k) PROVE Quiet'
  BY <1>5, Loud DEF Collect, Noticed
<1>6. ASSUME NEW r \in Roles, NEW extra \in BOOLEAN, EditRole(r, extra) PROVE Quiet'
  <2>1. /\ UNCHANGED <<agent, objects, collab, bound, there, pc, mine, read, unseen>>
        /\ content' = [content EXCEPT ![r] = [version |-> content[r].version + 1,
                                              extra |-> extra]]
        /\ queued' = IF agent = None THEN queued ELSE queued \/ agent.spec.role = r
    BY <1>6 DEF EditRole, clusterVars, ghostVars
  <2>2. CASE IF agent = None THEN queued ELSE queued \/ agent.spec.role = r
    BY <1>1, <2>1, <2>2, Loud DEF OperatorTypes
  <2>3. CASE agent = None /\ ~queued
    <3>1. pc = "idle"
      <4>1. pc # "idle" => agent = mine /\ mine # None
        BY <1>1, <2>3, MineTypes DEF Quiet, Fresh
      <4>. QED
        BY <2>3, <4>1
    <3>. QED
      BY <2>1, <2>3, <3>1 DEF Quiet, Complete
  <2>4. CASE agent # None /\ ~queued /\ agent.spec.role # r
    <3>1. content'[agent.spec.role] = content[agent.spec.role]
      <4>1. agent.spec.role \in Roles
        BY <1>1, <2>4, Constants DEF ClusterTypes, Agents
      <4>. QED
        BY <1>1, <2>1, <2>4, <4>1 DEF ClusterTypes
    <3>2. Current' = Current
      BY <2>1, <3>1 DEF Current
    <3>3. queued' = FALSE
      BY <2>1, <2>4
    <3>. QED
      BY <1>1, <2>1, <2>4, <3>2, <3>3
      DEF Quiet, Fresh, Progress, Complete, AccessGiven, Exist, Mounted
  <2>. QED
    BY <2>2, <2>3, <2>4
<1>7. ASSUME NEW n \in Spaces, MakeSpace(n) \/ RemoveSpace(n) PROVE Quiet'
  <2>1. /\ UNCHANGED <<agent, objects, collab, content, queued, pc, mine, read>>
        /\ \/ there' = there \cup {n} /\ unseen' = unseen \cup {n} /\ bound' = bound
           \/ there' = there \ {n} /\ unseen' = unseen \ {n}
              /\ bound' = [bound EXCEPT ![n] = None]
    BY <1>7 DEF MakeSpace, RemoveSpace, operatorVars
  <2>2. Current' = Current /\ Mounted' = Mounted
    BY <2>1 DEF Current, Mounted
  <2>3. (\A m \in (agent.spec.spaces \cap there) \ unseen : bound[m] # None) =>
            \A m \in (agent'.spec.spaces \cap there') \ unseen' : bound'[m] # None
    BY <1>1, <2>1 DEF ClusterTypes, BoundTyped
  <2>. QED
    BY <1>1, <2>1, <2>2, <2>3 DEF Quiet, Fresh, Progress, Complete, AccessGiven, Exist
<1>. QED
  BY <1>2, <1>3, <1>4, <1>5, <1>6, <1>7

LEMMA BeginQuiet == IInv /\ Begin => Quiet'
<1>1. SUFFICES ASSUME IInv, Begin PROVE Quiet'
  OBVIOUS
<1>2. /\ pc = "idle"
      /\ \/ agent' = None /\ queued' = FALSE /\ UNCHANGED <<pc, mine>>
         \/ /\ agent # None /\ ~agent.deleting
            /\ agent' = [agent EXCEPT !.finalizer = TRUE]
            /\ queued' = ~agent.finalizer
            /\ mine' = agent'
            /\ pc' = "access"
  BY <1>1 DEF Begin
<1>3. CASE agent' = None /\ queued' = FALSE /\ UNCHANGED <<pc, mine>>
  BY <1>2, <1>3 DEF Quiet, Complete
<1>4. CASE /\ agent # None /\ ~agent.deleting
           /\ agent' = [agent EXCEPT !.finalizer = TRUE]
           /\ mine' = agent'
           /\ pc' = "access"
  <2>1. agent' = mine' /\ ~agent'.deleting
    BY <1>1, <1>4 DEF IInv, ClusterTypes, Agents
  <2>. QED
    BY <1>4, <2>1 DEF Quiet, Fresh, Progress, Steps
<1>. QED
  BY <1>2, <1>3, <1>4

\* Each step of a reconcile that nothing overtook adds its part.
LEMMA StepQuiet ==
    ASSUME IInv,
           \/ EnsureGiteaRepoAccess \/ EnsureJWTSecret \/ EnsureRoleData
           \/ EnsureSkillsConfigMap \/ EnsureRoleFilesConfigMap \/ EnsureClaim
           \/ EnsureRoleBinding \/ EnsureDeployment
    PROVE  Quiet'
<1>1. ClusterTypes /\ OperatorTypes /\ Quiet
  BY DEF IInv
<1>2. /\ UNCHANGED <<agent, there, content, queued, mine>>
      /\ pc # "idle" /\ pc' # "idle"
  BY DEF EnsureGiteaRepoAccess, EnsureJWTSecret, EnsureRoleData,
         EnsureSkillsConfigMap, EnsureRoleFilesConfigMap, EnsureClaim,
         EnsureRoleBinding, EnsureDeployment, Goto, objectOnly
<1>3. CASE queued
  BY <1>2, <1>3 DEF Quiet
<1>4. CASE ~queued
  <2>1. Fresh /\ Progress /\ Current' = Current /\ ~queued'
    BY <1>1, <1>2, <1>4 DEF Quiet, Current
  <2>2. agent = mine /\ agent' = mine' /\ ~agent'.deleting
    BY <1>2, <2>1 DEF Fresh
  <2>3. SUFFICES Fresh' /\ Progress'
    BY <1>2 DEF Quiet
  <2>4. CASE EnsureGiteaRepoAccess
    <3>1. /\ pc = "access" /\ pc' = "jwt" /\ collab' = collab \cup Access
          /\ UNCHANGED <<objects, bound, read, unseen>>
      BY <2>4 DEF EnsureGiteaRepoAccess, Goto, ghostVars
    <3>. QED
      BY <1>2, <2>1, <2>2, <3>1 DEF Fresh, Progress, Access
  <2>5. CASE EnsureJWTSecret
    <3>1. /\ pc = "jwt" /\ pc' = "role" /\ Keep("jwt", Object(mine.spec.role, None))
          /\ UNCHANGED <<collab, bound, read, unseen>>
      BY <2>5 DEF EnsureJWTSecret, Goto, objectOnly, ghostVars
    <3>2. Object(mine.spec.role, None) \in Objects
      BY <1>1, <3>1, MineTypes, ObjectTypes
    <3>3. objects'["jwt"] # None
      BY <1>1, <3>1, <3>2, KeepEffect DEF Kinds
    <3>. QED
      BY <1>2, <2>1, <2>2, <3>1, <3>3 DEF Fresh, Progress, Steps
  <2>6. CASE EnsureRoleData
    <3>1. /\ pc = "role" /\ pc' = "skills" /\ read' = Current
          /\ UNCHANGED <<objects, collab, bound, unseen>>
      BY <2>2, <2>6 DEF EnsureRoleData, Goto, objectOnly, ghostVars, Current
    <3>. QED
      BY <1>2, <2>1, <2>2, <3>1 DEF Fresh, Progress, Steps
  <2>7. CASE EnsureSkillsConfigMap
    <3>1. /\ pc = "skills" /\ pc' = "files" /\ Put("skills", Object(None, read))
          /\ UNCHANGED <<collab, bound, read, unseen>>
      BY <2>7 DEF EnsureSkillsConfigMap, Goto, objectOnly, ghostVars
    <3>2. read = Current /\ read \in RoleData
      BY <1>1, <2>1, <3>1 DEF Fresh, OperatorTypes
    <3>3. Object(None, read) \in Objects /\ Object(None, read).text = read
      BY <1>1, <3>1, <3>2, ObjectTypes
    <3>4. /\ objects'["skills"] # None /\ objects'["skills"].text = Current
          /\ objects'["jwt"] = objects["jwt"]
      BY <1>1, <3>1, <3>2, <3>3, PutEffect DEF Kinds
    <3>. QED
      BY <1>2, <2>1, <2>2, <3>1, <3>2, <3>4 DEF Fresh, Progress, Steps
  <2>8. CASE EnsureRoleFilesConfigMap
    <3>1. /\ pc = "files" /\ pc' = "claim"
          /\ IF read.extra THEN Put("files", Object(None, read)) ELSE UNCHANGED objects
          /\ UNCHANGED <<collab, bound, read, unseen>>
      BY <2>8 DEF EnsureRoleFilesConfigMap, Goto, objectOnly, ghostVars
    <3>2. read = Current /\ read \in RoleData
      BY <1>1, <2>1, <3>1 DEF Fresh, OperatorTypes
    <3>3. Object(None, read) \in Objects /\ Object(None, read).text = read
      BY <1>1, <3>1, <3>2, ObjectTypes
    <3>4. /\ Current.extra => objects'["files"] # None /\ objects'["files"].text = Current
          /\ objects'["jwt"] = objects["jwt"] /\ objects'["skills"] = objects["skills"]
      BY <1>1, <3>1, <3>2, <3>3, PutEffect DEF Kinds
    <3>. QED
      BY <1>2, <2>1, <2>2, <3>1, <3>2, <3>4 DEF Fresh, Progress, Steps
  <2>9. CASE EnsureClaim
    <3>1. /\ pc = "claim" /\ pc' = "binding" /\ Keep("claim", Object(mine.spec.setup, None))
          /\ UNCHANGED <<collab, bound, read, unseen>>
      BY <2>9 DEF EnsureClaim, Goto, objectOnly, ghostVars
    <3>2. Object(mine.spec.setup, None) \in Objects
      BY <1>1, <3>1, MineTypes, ObjectTypes
    <3>3. /\ objects'["claim"] # None
          /\ \A j \in {"jwt", "skills", "files"} : objects'[j] = objects[j]
      BY <1>1, <3>1, <3>2, KeepEffect DEF Kinds
    <3>. QED
      BY <1>2, <2>1, <2>2, <3>1, <3>3 DEF Fresh, Progress, Steps
  <2>10. CASE EnsureRoleBinding
    <3>1. /\ pc = "binding" /\ pc' = "deployment"
          /\ Keep("home", Object(mine.spec.setup, None)) /\ Bind(Bindings)
          /\ UNCHANGED <<collab, read>>
      BY <2>10 DEF EnsureRoleBinding, Goto
    <3>2. \A n \in agent'.spec.spaces \cap there' : bound'[n] # None
      <4>1. \A n \in Spaces : n \in Bindings => bound'[n] # None
        BY <1>1, <1>2, <3>1, BindEffect
      <4>2. agent'.spec.spaces \cap there' = Bindings /\ Bindings \subseteq Spaces
        BY <1>1, <1>2, <2>2, MineTypes DEF Bindings
      <4>. QED
        BY <4>1, <4>2
    <3>3. Object(mine.spec.setup, None) \in Objects
      BY <1>1, <3>1, MineTypes, ObjectTypes
    <3>4. /\ objects'["home"] # None
          /\ \A j \in {"jwt", "skills", "files", "claim"} : objects'[j] = objects[j]
      BY <1>1, <3>1, <3>3, KeepEffect DEF Kinds
    <3>. QED
      BY <1>2, <2>1, <2>2, <3>1, <3>2, <3>4 DEF Fresh, Progress, Steps
  <2>11. CASE EnsureDeployment
    <3>1. /\ pc = "deployment" /\ pc' = "done"
          /\ Put("deployment", Object(mine.spec.role, read))
          /\ UNCHANGED <<collab, bound, read, unseen>>
      BY <2>11 DEF EnsureDeployment, Goto, objectOnly, ghostVars
    <3>2. read = Current /\ read \in RoleData
      BY <1>1, <2>1, <3>1 DEF Fresh, OperatorTypes
    <3>3. /\ Object(mine.spec.role, read) \in Objects
          /\ Object(mine.spec.role, read).text = read
          /\ Object(mine.spec.role, read).from = mine.spec.role
      BY <1>1, <3>1, <3>2, MineTypes, ObjectTypes
    <3>4. /\ objects'["deployment"] # None
          /\ objects'["deployment"].text = Current
          /\ objects'["deployment"].from = mine.spec.role
          /\ \A j \in {"jwt", "skills", "files", "claim", "home"} :
                objects'[j] = objects[j]
      BY <1>1, <3>1, <3>2, <3>3, PutEffect DEF Kinds
    <3>. QED
      BY <1>2, <2>1, <2>2, <3>1, <3>2, <3>4 DEF Fresh, Progress, Steps
  <2>. QED
    BY <2>4, <2>5, <2>6, <2>7, <2>8, <2>9, <2>10, <2>11
<1>. QED
  BY <1>1, <1>3, <1>4 DEF OperatorTypes

\* A reconcile that is done and was not overtaken leaves nothing out.
LEMMA EndQuiet == IInv /\ (Done \/ Fails \/ Restart) => Quiet'
<1>1. SUFFICES ASSUME IInv, Done \/ Fails \/ Restart PROVE Quiet'
  OBVIOUS
<1>2. ClusterTypes /\ OperatorTypes /\ Quiet
  BY <1>1 DEF IInv
<1>3. CASE Fails \/ Restart
  BY <1>2, <1>3, Loud DEF Fails, Restart, Return, OperatorTypes
<1>4. CASE Done
  <2>1. /\ UNCHANGED <<agent, objects, collab, bound, there, content, unseen>>
        /\ pc = "done" /\ pc' = "idle"
    BY <1>4 DEF Done, Return, clusterVars, ghostVars
  <2>2. CASE queued' # FALSE
    <3>1. queued' = TRUE
      BY <1>2, <1>4, <2>2 DEF Done, Return, OperatorTypes
    <3>. QED
      BY <3>1, Loud
  <2>3. CASE queued' = FALSE
    <3>1. ~queued
      BY <1>4, <2>3 DEF Done, Return
    <3>2. Fresh /\ Progress
      BY <1>2, <2>1, <3>1 DEF Quiet
    <3>3. agent # None
      BY <1>2, <2>1, <3>2, MineTypes DEF Fresh
    <3>4. Complete
      <4>1. Exist(Mounted \cup {"deployment"})
        BY <2>1, <3>2 DEF Progress, Exist, Mounted, Kinds
      <4>2. AccessGiven
        <5>1. \A repo \in agent.spec.repos : <<agent.spec.role, repo>> \in collab
          BY <2>1, <3>2 DEF Progress
        <5>2. \A n \in (agent.spec.spaces \cap there) \ unseen : bound[n] # None
          BY <2>1, <3>2 DEF Progress
        <5>. QED
          BY <5>1, <5>2 DEF AccessGiven
      <4>. QED
        BY <2>1, <3>2, <3>3, <4>1, <4>2 DEF Complete, Fresh, Progress
    <3>5. Complete'
      BY <2>1, <3>4 DEF Complete, AccessGiven, Exist, Mounted, Current
    <3>. QED
      BY <2>1, <3>5 DEF Quiet
  <2>. QED
    BY <2>2, <2>3
<1>. QED
  BY <1>1, <1>3, <1>4

-----------------------------------------------------------------------------
(* What was made once was asked for                                        *)

\* An object that a step of the reconcile made or updated.
Remade(k) ==
    /\ pc # "idle"
    /\ objects'[k].owner \in {mine.uid} \cup
          IF objects[k] = None THEN {} ELSE {objects[k].owner}
    /\ k \in {"jwt", "claim", "home"} =>
          /\ objects'[k].owner = mine.uid
          /\ objects'[k].from = IF k = "jwt" THEN mine.spec.role ELSE mine.spec.setup

Rebound(n) ==
    pc # "idle" /\ bound'[n] = [maker |-> mine.uid, from |-> mine.spec.setup]

LEMMA Younger ==
    ASSUME ClusterTypes, OperatorTypes
    PROVE  /\ \A k \in Kinds : objects[k] # None => objects[k].owner \in Int
           /\ \A n \in Spaces : bound[n] # None => bound[n].maker \in Int
           /\ agent # None => agent.uid \in Int /\ agent.spec \in Specs
           /\ mine # None => mine.uid \in Int /\ mine.spec \in Specs
           /\ events \in Int
  BY DEF ClusterTypes, BoundTyped, OperatorTypes, Objects, Extras, Agents, Uids

\* What a step makes, it makes for the copy it works on.
LEMMA AskedStep ==
    ASSUME IInv, UNCHANGED <<agent, had>>, mine' \in {mine, None},
           events' \in Int, events <= events',
           \A k \in Kinds : objects'[k] = objects[k] \/ objects'[k] = None \/ Remade(k),
           \A n \in Spaces : bound'[n] = bound[n] \/ bound'[n] = None \/ Rebound(n)
    PROVE  Asked'
<1>1. ClusterTypes /\ OperatorTypes /\ Asked
  BY DEF IInv
<1>2. pc # "idle" => mine # None
  BY <1>1, MineTypes
<1>3. \A k \in Kinds : objects'[k] # None => objects'[k].owner <= events'
  BY <1>1, <1>2, Younger DEF Asked, Remade
<1>4. \A n \in Spaces : bound'[n] # None => bound'[n].maker <= events'
  BY <1>1, <1>2, Younger DEF Asked, Rebound
<1>5. /\ mine' # None => mine'.uid <= events'
      /\ agent' # None => agent'.uid <= events' /\ agent'.spec \in had'
      /\ agent' # None /\ mine' # None /\ mine'.uid = agent'.uid => mine'.spec \in had'
  BY <1>1, Younger DEF Asked
<1>6. ASSUME agent # None PROVE MadeAsAsked'
  <2>1. /\ MadeAsAsked
        /\ pc # "idle" /\ mine.uid = agent.uid => mine.spec \in had
    BY <1>1, <1>2, <1>6 DEF Asked
  <2>2. ASSUME NEW k \in {"jwt", "claim", "home"},
               objects'[k] # None, objects'[k].owner = agent'.uid
        PROVE  objects'[k].from \in IF k = "jwt" THEN RolesHad' ELSE SetupsHad'
    <3>1. k \in Kinds
      BY DEF Kinds
    <3>2. CASE objects'[k] = objects[k]
      BY <2>1, <2>2, <3>2 DEF MadeAsAsked, RolesHad, SetupsHad
    <3>3. CASE Remade(k)
      BY <2>1, <2>2, <3>3 DEF Remade, RolesHad, SetupsHad
    <3>. QED
      BY <2>2, <3>1, <3>2, <3>3
  <2>3. ASSUME NEW n \in Spaces, bound'[n] # None, bound'[n].maker = agent'.uid
        PROVE  bound'[n].from \in SetupsHad'
    <3>1. CASE bound'[n] = bound[n]
      BY <2>1, <2>3, <3>1 DEF MadeAsAsked, SetupsHad
    <3>2. CASE Rebound(n)
      BY <2>1, <2>3, <3>2 DEF Rebound, SetupsHad
    <3>. QED
      BY <2>3, <3>1, <3>2
  <2>. QED
    BY <2>2, <2>3 DEF MadeAsAsked
<1>. QED
  BY <1>3, <1>4, <1>5, <1>6 DEF Asked

LEMMA OutsideAsked ==
    ASSUME IInv,
           \/ \E spec \in Specs : Create(spec) \/ Update(spec)
           \/ Delete
           \/ \E k \in Kinds : Collect(k)
           \/ \E r \in Roles, extra \in BOOLEAN : EditRole(r, extra)
           \/ \E n \in Spaces : MakeSpace(n) \/ RemoveSpace(n)
    PROVE  Asked'
<1>1. ClusterTypes /\ OperatorTypes /\ Asked
  BY DEF IInv
<1>2. ASSUME NEW spec \in Specs, Create(spec) PROVE Asked'
  <2>1. /\ UNCHANGED <<objects, bound, mine>> /\ had' = {spec}
        /\ agent'.uid = events' /\ agent'.spec = spec
        /\ events' \in Int /\ events' = events + 1
    BY <1>1, <1>2, Younger DEF Create, Change, Event
  <2>2. \A k \in Kinds : objects[k] # None => objects[k].owner < events'
    BY <1>1, <2>1, Younger DEF Asked
  <2>3. \A n \in Spaces : bound[n] # None => bound[n].maker < events'
    BY <1>1, <2>1, Younger DEF Asked
  <2>4. mine # None => mine.uid < events'
    BY <1>1, <2>1, Younger DEF Asked
  <2>5. MadeAsAsked'
    <3>1. \A k \in {"jwt", "claim", "home"} : objects'[k] # None => objects'[k].owner # agent'.uid
      BY <1>1, <2>1, <2>2, Younger DEF Kinds
    <3>2. \A n \in Spaces : bound'[n] # None => bound'[n].maker # agent'.uid
      BY <1>1, <2>1, <2>3, Younger
    <3>. QED
      BY <3>1, <3>2 DEF MadeAsAsked
  <2>. QED
    BY <1>1, <2>1, <2>2, <2>3, <2>4, <2>5, Younger DEF Asked
<1>3. ASSUME NEW spec \in Specs, Update(spec) PROVE Asked'
  <2>1. /\ UNCHANGED <<objects, bound, mine>> /\ had' = had \cup {spec} /\ agent # None
        /\ agent' = [agent EXCEPT !.spec = spec]
        /\ events' \in Int /\ events' = events + 1
    BY <1>1, <1>3, Younger DEF Update, Change, Event
  <2>2. agent'.uid = agent.uid /\ agent'.spec = spec
    BY <1>1, <2>1 DEF ClusterTypes, Agents
  <2>3. MadeAsAsked'
    BY <1>1, <2>1, <2>2 DEF Asked, MadeAsAsked, RolesHad, SetupsHad
  <2>. QED
    BY <1>1, <2>1, <2>2, <2>3, Younger DEF Asked
<1>4. ASSUME Delete PROVE Asked'
  <2>1. /\ UNCHANGED <<objects, bound, mine, had>>
        /\ agent # None
        /\ agent' \in {None, [agent EXCEPT !.deleting = TRUE]}
        /\ events' \in Int /\ events' = events + 1
    BY <1>1, <1>4, Younger DEF Delete, Change, Event, ghostVars
  <2>2. agent' # None => agent'.uid = agent.uid /\ agent'.spec = agent.spec
    BY <1>1, <2>1 DEF ClusterTypes, Agents
  <2>3. agent' # None => MadeAsAsked'
    BY <1>1, <2>1, <2>2 DEF Asked, MadeAsAsked, RolesHad, SetupsHad
  <2>. QED
    BY <1>1, <2>1, <2>2, <2>3, Younger DEF Asked
<1>5. ASSUME NEW k \in Kinds, Collect(k) PROVE Asked'
  <2>1. /\ UNCHANGED <<agent, had, mine, events, bound>>
        /\ objects' = [objects EXCEPT ![k] = None]
    BY <1>5 DEF Collect, ghostVars, boundVars
  <2>2. \A j \in Kinds : objects'[j] = objects[j] \/ objects'[j] = None
    BY <1>1, <2>1 DEF ClusterTypes
  <2>. QED
    BY <1>1, <2>1, <2>2, AskedStep, Younger
<1>6. ASSUME NEW r \in Roles, NEW extra \in BOOLEAN, EditRole(r, extra) PROVE Asked'
  <2>1. /\ UNCHANGED <<agent, had, mine, objects, bound>>
        /\ events' \in Int /\ events <= events'
    BY <1>1, <1>6, Younger DEF EditRole, Change, Event, clusterVars, ghostVars
  <2>. QED
    BY <2>1, AskedStep
<1>7. ASSUME NEW n \in Spaces, MakeSpace(n) \/ RemoveSpace(n) PROVE Asked'
  <2>1. /\ UNCHANGED <<agent, had, mine, objects>>
        /\ events' \in Int /\ events <= events'
        /\ bound' = bound \/ bound' = [bound EXCEPT ![n] = None]
    BY <1>1, <1>7, Younger DEF MakeSpace, RemoveSpace, Change, Event, operatorVars
  <2>2. \A m \in Spaces : bound'[m] = bound[m] \/ bound'[m] = None
    BY <1>1, <2>1 DEF ClusterTypes, BoundTyped
  <2>. QED
    BY <2>1, <2>2, AskedStep
<1>. QED
  BY <1>2, <1>3, <1>4, <1>5, <1>6, <1>7

\* A step that keeps or puts one object, for its copy.
LEMMA KeptAsAsked ==
    ASSUME ClusterTypes, OperatorTypes, pc # "idle", NEW k \in Kinds,
           NEW object \in Objects, Keep(k, object), object.owner = mine.uid,
           object.from = IF k = "jwt" THEN mine.spec.role ELSE mine.spec.setup
    PROVE  \A j \in Kinds :
              objects'[j] = objects[j] \/ objects'[j] = None \/ Remade(j)
<1>1. Remade(k) \/ objects'[k] = objects[k]
  BY KeepEffect DEF Remade
<1>. QED
  BY <1>1, KeepEffect

LEMMA PutAsAsked ==
    ASSUME ClusterTypes, OperatorTypes, pc # "idle",
           NEW k \in Kinds \ {"jwt", "claim", "home"},
           NEW object \in Objects, Put(k, object), object.owner = mine.uid
    PROVE  \A j \in Kinds :
              objects'[j] = objects[j] \/ objects'[j] = None \/ Remade(j)
<1>1. Remade(k)
  BY PutEffect DEF Remade
<1>. QED
  BY <1>1, PutEffect

LEMMA BoundAsAsked ==
    ASSUME ClusterTypes, OperatorTypes, pc # "idle", there' = there,
           NEW s \in SUBSET Bindings, Bind(s)
    PROVE  \A n \in Spaces :
              bound'[n] = bound[n] \/ bound'[n] = None \/ Rebound(n)
  BY BindEffect DEF Rebound

LEMMA OperatorAsked ==
    ASSUME IInv, OperatorStep \/ Restart
    PROVE  Asked'
<1>1. ClusterTypes /\ OperatorTypes /\ Asked
  BY DEF IInv
<1>2. events \in Int
  BY <1>1, Younger
<1>3. CASE Begin
  <2>1. UNCHANGED <<objects, bound, had, events>>
    BY <1>3 DEF Begin, ghostVars, boundVars
  <2>2. CASE agent' = None /\ mine' = mine
    BY <1>1, <2>1, <2>2 DEF Asked
  <2>3. CASE /\ agent # None
             /\ agent' = [agent EXCEPT !.finalizer = TRUE]
             /\ mine' = agent'
    <3>1. agent'.uid = agent.uid /\ agent'.spec = agent.spec
      BY <1>1, <2>3 DEF ClusterTypes, Agents
    <3>2. MadeAsAsked'
      BY <1>1, <2>1, <2>3, <3>1 DEF Asked, MadeAsAsked, RolesHad, SetupsHad
    <3>. QED
      BY <1>1, <2>1, <2>3, <3>1, <3>2 DEF Asked
  <2>. QED
    BY <1>3, <2>2, <2>3 DEF Begin
<1>4. CASE EnsureJWTSecret
  <2>1. /\ pc = "jwt" /\ Keep("jwt", Object(mine.spec.role, None))
        /\ UNCHANGED <<agent, had, mine, events, bound>>
    BY <1>4 DEF EnsureJWTSecret, Goto, objectOnly, ghostVars, boundVars
  <2>2. /\ Object(mine.spec.role, None) \in Objects
        /\ Object(mine.spec.role, None).owner = mine.uid
        /\ Object(mine.spec.role, None).from = mine.spec.role
    BY <1>1, <2>1, MineTypes, ObjectTypes
  <2>3. \A j \in Kinds : objects'[j] = objects[j] \/ objects'[j] = None \/ Remade(j)
    BY <1>1, <2>1, <2>2, KeptAsAsked DEF Kinds
  <2>. QED
    BY <1>2, <2>1, <2>3, AskedStep
<1>5. CASE EnsureGiteaRepoAccess \/ EnsureRoleData
  <2>1. UNCHANGED <<agent, had, mine, events, objects, bound>>
    BY <1>5 DEF EnsureGiteaRepoAccess, EnsureRoleData, Goto, objectOnly, ghostVars,
                boundVars
  <2>. QED
    BY <1>2, <2>1, AskedStep
<1>6. CASE EnsureSkillsConfigMap \/ EnsureRoleFilesConfigMap
  <2>1. /\ pc \in {"skills", "files"}
        /\ \/ \E k \in {"skills", "files"} : Put(k, Object(None, read))
           \/ UNCHANGED objects
        /\ UNCHANGED <<agent, had, mine, events, bound>>
    BY <1>6 DEF EnsureSkillsConfigMap, EnsureRoleFilesConfigMap, Goto, objectOnly,
                ghostVars, boundVars
  <2>2. read \in RoleData
    BY <1>1, <2>1 DEF OperatorTypes
  <2>3. Object(None, read) \in Objects /\ Object(None, read).owner = mine.uid
    BY <1>1, <2>1, <2>2, ObjectTypes
  <2>4. \A j \in Kinds : objects'[j] = objects[j] \/ objects'[j] = None \/ Remade(j)
    BY <1>1, <2>1, <2>3, PutAsAsked DEF Kinds
  <2>. QED
    BY <1>2, <2>1, <2>4, AskedStep
<1>7. CASE EnsureClaim
  <2>1. /\ pc = "claim" /\ Keep("claim", Object(mine.spec.setup, None))
        /\ UNCHANGED <<agent, had, mine, events, bound>>
    BY <1>7 DEF EnsureClaim, Goto, objectOnly, ghostVars, boundVars
  <2>2. /\ Object(mine.spec.setup, None) \in Objects
        /\ Object(mine.spec.setup, None).owner = mine.uid
        /\ Object(mine.spec.setup, None).from = mine.spec.setup
    BY <1>1, <2>1, MineTypes, ObjectTypes
  <2>3. \A j \in Kinds : objects'[j] = objects[j] \/ objects'[j] = None \/ Remade(j)
    BY <1>1, <2>1, <2>2, KeptAsAsked DEF Kinds
  <2>. QED
    BY <1>2, <2>1, <2>3, AskedStep
<1>8. CASE EnsureRoleBinding
  <2>1. /\ pc = "binding" /\ Keep("home", Object(mine.spec.setup, None))
        /\ Bind(Bindings)
        /\ UNCHANGED <<agent, had, mine, events, there>>
    BY <1>8 DEF EnsureRoleBinding, Goto, boundVars
  <2>2. /\ Object(mine.spec.setup, None) \in Objects
        /\ Object(mine.spec.setup, None).owner = mine.uid
        /\ Object(mine.spec.setup, None).from = mine.spec.setup
    BY <1>1, <2>1, MineTypes, ObjectTypes
  <2>3. \A j \in Kinds : objects'[j] = objects[j] \/ objects'[j] = None \/ Remade(j)
    BY <1>1, <2>1, <2>2, KeptAsAsked DEF Kinds
  <2>4. \A n \in Spaces : bound'[n] = bound[n] \/ bound'[n] = None \/ Rebound(n)
    BY <1>1, <2>1, BoundAsAsked
  <2>. QED
    BY <1>2, <2>1, <2>3, <2>4, AskedStep
<1>9. CASE EnsureDeployment
  <2>1. /\ pc = "deployment" /\ Put("deployment", Object(mine.spec.role, read))
        /\ UNCHANGED <<agent, had, mine, events, bound>>
    BY <1>9 DEF EnsureDeployment, Goto, objectOnly, ghostVars, boundVars
  <2>2. read \in RoleData
    BY <1>1, <2>1 DEF OperatorTypes
  <2>3. /\ Object(mine.spec.role, read) \in Objects
        /\ Object(mine.spec.role, read).owner = mine.uid
    BY <1>1, <2>1, <2>2, MineTypes, ObjectTypes
  <2>4. \A j \in Kinds : objects'[j] = objects[j] \/ objects'[j] = None \/ Remade(j)
    BY <1>1, <2>1, <2>3, PutAsAsked DEF Kinds
  <2>. QED
    BY <1>2, <2>1, <2>4, AskedStep
<1>10. CASE Done
  <2>1. UNCHANGED <<agent, had, events, objects, bound>> /\ mine' = None
    BY <1>10 DEF Done, Return, clusterVars, ghostVars, boundVars
  <2>. QED
    BY <1>2, <2>1, AskedStep
<1>11. CASE Restart
  <2>1. /\ UNCHANGED <<agent, had, objects, bound>> /\ mine' = None
        /\ events' \in Int /\ events <= events'
    BY <1>2, <1>11 DEF Restart, Fault, Event, clusterVars, ghostVars
  <2>. QED
    BY <2>1, AskedStep
<1>12. CASE Fails
  <2>1. /\ UNCHANGED <<agent, had, there>> /\ mine' = None /\ pc # "idle"
        /\ events' \in Int /\ events <= events'
    BY <1>2, <1>12 DEF Fails, Fault, Event, Return, ghostVars, Steps
  <2>2. /\ Object(mine.spec.setup, None) \in Objects
        /\ Object(mine.spec.setup, None).owner = mine.uid
        /\ Object(mine.spec.setup, None).from = mine.spec.setup
    BY <1>1, <2>1, MineTypes, ObjectTypes
  <2>3. CASE Keep("claim", Object(mine.spec.setup, None)) /\ UNCHANGED bound
    <3>1. \A j \in Kinds : objects'[j] = objects[j] \/ objects'[j] = None \/ Remade(j)
      BY <1>1, <2>1, <2>2, <2>3, KeptAsAsked DEF Kinds
    <3>. QED
      BY <2>1, <2>3, <3>1, AskedStep
  <2>4. CASE /\ Keep("home", Object(mine.spec.setup, None))
             /\ \E s \in SUBSET Bindings : Bind(s)
    <3>1. \A j \in Kinds : objects'[j] = objects[j] \/ objects'[j] = None \/ Remade(j)
      BY <1>1, <2>1, <2>2, <2>4, KeptAsAsked DEF Kinds
    <3>2. \A n \in Spaces : bound'[n] = bound[n] \/ bound'[n] = None \/ Rebound(n)
      BY <1>1, <2>1, <2>4, BoundAsAsked
    <3>. QED
      BY <2>1, <3>1, <3>2, AskedStep
  <2>5. CASE UNCHANGED <<objects, bound>>
    BY <2>1, <2>5, AskedStep
  <2>. QED
    BY <1>12, <2>3, <2>4, <2>5 DEF Fails
<1>. QED
  BY <1>3, <1>4, <1>5, <1>6, <1>7, <1>8, <1>9, <1>10, <1>11, <1>12 DEF OperatorStep

-----------------------------------------------------------------------------
(* The results                                                             *)

\* The inductive invariant holds in every reachable state.
THEOREM Invariance == Spec => []IInv
<1>1. IInv /\ [Next]_vars => IInv'
  <2>1. SUFFICES ASSUME IInv, [Next]_vars PROVE IInv'
    OBVIOUS
  <2>2. CASE UNCHANGED vars
    <3>1. UNCHANGED <<agent, objects, collab, bound, there, content, queued, pc, mine,
                      read, had, unseen, events, faults>>
      BY <2>2 DEF vars, clusterVars, operatorVars, ghostVars, boundVars
    <3>. QED
      BY <2>1, <3>1
      DEF IInv, ClusterTypes, BoundTyped, OperatorTypes, Quiet, Fresh, Progress,
          Complete, Current, AccessGiven, Exist, Mounted, Asked, MadeAsAsked,
          RolesHad, SetupsHad
  <2>3. CASE \/ \E spec \in Specs : Create(spec) \/ Update(spec)
             \/ Delete
             \/ \E k \in Kinds : Collect(k)
             \/ \E r \in Roles, extra \in BOOLEAN : EditRole(r, extra)
             \/ \E n \in Spaces : MakeSpace(n) \/ RemoveSpace(n)
    <3>1. ClusterTypes' /\ OperatorTypes'
      BY <2>1, <2>3, OutsideTypes
    <3>2. Quiet'
      BY <2>1, <2>3, OutsideQuiet
    <3>3. Asked'
      BY <2>1, <2>3, OutsideAsked
    <3>. QED
      BY <3>1, <3>2, <3>3 DEF IInv
  <2>4. CASE OperatorStep \/ Restart
    <3>1. ClusterTypes' /\ OperatorTypes'
      BY <2>1, <2>4, OperatorStepTypes
    <3>2. Quiet'
      BY <2>1, <2>4, BeginQuiet, StepQuiet, EndQuiet DEF OperatorStep
    <3>3. Asked'
      BY <2>1, <2>4, OperatorAsked
    <3>. QED
      BY <3>1, <3>2, <3>3 DEF IInv
  <2>. QED
    BY <2>1, <2>2, <2>3, <2>4 DEF Next
<1>. QED
  BY <1>1, InitInv, PTL DEF Spec

\* The types; a reconcile's copies do not outlive it.
THEOREM TypesHold == Spec => []TypeOK
<1>1. IInv => TypeOK
  BY DEF IInv, ClusterTypes, BoundTyped, OperatorTypes, TypeOK
<1>. QED
  BY <1>1, Invariance, PTL

\* Whenever the operator has nothing left to do the agent has all its objects,
\* whatever was changed, collected, failed or killed in between; what was made
\* once for it bears a role, an RBAC role and a storage it has been given.
THEOREM NothingForgotten == Spec => []QuietIsComplete
<1>1. IInv => QuietIsComplete
  BY DEF IInv, Quiet, Asked, QuietIsComplete
<1>. QED
  BY <1>1, Invariance, PTL
=============================================================================
