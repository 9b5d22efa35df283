------------------------------ MODULE Accounts ------------------------------
(***************************************************************************)
(* The console's users: their table (internal/common/pgclient), the tokens *)
(* a login gives (internal/backend/handler/auth.go), the administrators'   *)
(* changes (internal/backend/handler/users.go) and the account a backend   *)
(* makes when it starts (cmd/backend/main.go).                             *)
(*                                                                         *)
(* A request's right is decided by its token when it arrives; what it does *)
(* to the table comes later, in one statement, or, for an update, in two.  *)
(* Nothing of a request survives a kill, which is why a process may forget *)
(* it at any step; the table and the tokens, whose key is configured,      *)
(* outlive the processes.  Without a database there are no users to change *)
(* and one login; that mode keeps no state and is left out.                *)
(*                                                                         *)
(* The operator signs the agents' tokens with the same key                 *)
(* (internal/operator/reconciler/jwt.go): they have no role, which the     *)
(* middleware takes for a member's, and no expiry; neither is in the table.*)
(***************************************************************************)
EXTENDS Integers, FiniteSets

CONSTANTS
    Users,
    Admin,      \* the user of ADMIN_USERNAME
    Passwords,
    Password,   \* of ADMIN_PASSWORD_HASH
    Agents,     \* who else has tokens
    None,       \* no row, no field, no request
    Procs,      \* handlers of requests, and backends that start
    TokenLife,  \* a day
    MaxLag,     \* the longest a request takes, but for those that stay open
    MaxTime,    \* bound on the clock
    MaxTokens,  \* bound on the tokens logins give
    MaxRequests \* bound on requests but logins, and starts

Roles  == {"member", "admin"}
Rows   == [role : Roles, hash : Passwords]
Fields == [role : Roles \cup {None}, hash : Passwords \cup {None}]
Times  == 0 .. MaxTime
Tokens == [sub : Users, role : Roles, exp : Nat]

\* The tokens the operator signs.  None expires, nor does anything take one back;
\* so that an agent gets its token some time is left out: it has it.
AgentTokens == {[sub |-> a, role |-> None, exp |-> 0] : a \in Agents}

\* What a request is about to do.  A login signs, a starting backend seeds,
\* an update finds and writes; "work" is what is done to agents and roles, and
\* "watch" are the connections that stay open: live events and the proxy to an
\* agent's observer.
Ops == {"sign", "seed", "work", "watch", "create", "find", "write", "delete"}
Requests == [op : Ops, caller : Users \cup Agents \cup {None}, by : {"user", "agent"},
             user : Users \cup {None}, fields : Fields, copy : Rows \cup {None},
             began : Times]

ASSUME AccountsAssumption ==
    /\ Admin \in Users
    /\ Password \in Passwords
    /\ None \notin Users \cup Agents \cup Rows \cup Requests \cup Roles \cup Passwords
    /\ TokenLife \in Nat \ {0}
    /\ MaxLag \in Nat
    /\ MaxTime \in Nat
    /\ MaxTokens \in Nat
    /\ MaxRequests \in Nat

VARIABLES
    table,   \* the rows by user name, or None
    tokens,  \* the tokens given to users
    now,
    req,     \* what each process is doing, or None
    \* observability only
    held,    \* when each user last had each role; below 0 for never
    asked,   \* the row the completed requests ask for
    stale,   \* updates whose row was written after they read it
    \* bound
    requests

vars == <<table, tokens, now, req, held, asked, stale, requests>>

Never == -(TokenLife + 2 * MaxLag) - 1

Init ==
    /\ table = [u \in Users |-> None]
    /\ tokens = {}
    /\ now = 0
    /\ req = [p \in Procs |-> None]
    /\ held = [u \in Users |-> [r \in Roles |-> Never]]
    /\ asked = table
    /\ stale = {}
    /\ requests = 0

NoFields == [role |-> None, hash |-> None]

Request(op, caller, by, user, fields) ==
    [op |-> op, caller |-> caller, by |-> by, user |-> user, fields |-> fields,
     copy |-> None, began |-> now]

Free(p) == req[p] = None
At(p, op) == IF req[p] = None THEN FALSE ELSE req[p].op = op

Answer(p) == req' = [req EXCEPT ![p] = None]

Start(p, request) ==
    /\ Free(p)
    /\ req' = [req EXCEPT ![p] = request]

Counted ==
    /\ requests < MaxRequests
    /\ requests' = requests + 1

\* Each user has the role of its row, now.
Holding(rows) ==
    held' = [u \in Users |-> [r \in Roles |->
                IF IF rows[u] = None THEN FALSE ELSE rows[u].role = r
                THEN now ELSE held[u][r]]]

\* Updates that have read the row of u are overtaken.
Overtaken(p, u) ==
    stale' = (stale \ {p}) \cup {q \in Procs \ {p} : At(q, "write") /\ req[q].user = u}

\* One statement of p that leaves the row in place of u's.
Store(p, u, row, wanted) ==
    /\ table' = [table EXCEPT ![u] = row]
    /\ asked' = [asked EXCEPT ![u] = wanted]
    /\ Overtaken(p, u)
    /\ Holding(table')

\* A statement that changes no row.
NoRow(p) ==
    /\ stale' = stale \ {p}
    /\ UNCHANGED <<table, asked, held>>

-----------------------------------------------------------------------------
(* Starting a backend                                                      *)

\* CountUsers is 0 when the table is empty, or when counting fails.
Boot(p) ==
    /\ Start(p, Request("seed", None, "user", Admin, [role |-> "admin", hash |-> Password]))
    /\ Counted
    /\ UNCHANGED <<table, tokens, now, held, asked, stale>>

\* User names are unique: an insert finds the row there and fails.
Insert(p, u, row) ==
    IF table[u] = None THEN Store(p, u, row, row) ELSE NoRow(p)

Seed(p) ==
    /\ At(p, "seed")
    /\ Insert(p, Admin, req[p].fields)
    /\ Answer(p)
    /\ UNCHANGED <<tokens, now, requests>>

-----------------------------------------------------------------------------
(* Logins and the rights of a token                                        *)

Login(p, u, password) ==
    /\ Cardinality(tokens) < MaxTokens
    /\ IF table[u] = None THEN FALSE ELSE table[u].hash = password
    /\ Start(p, Request("sign", None, "user", u, [NoFields EXCEPT !.role = table[u].role]))
    /\ UNCHANGED <<table, tokens, now, held, asked, stale, requests>>

Sign(p) ==
    /\ At(p, "sign")
    /\ Cardinality(tokens) < MaxTokens
    /\ tokens' = tokens \cup {[sub |-> req[p].user, role |-> req[p].fields.role,
                               exp |-> now + TokenLife]}
    /\ Answer(p)
    /\ UNCHANGED <<table, now, held, asked, stale, requests>>

\* Who has a token without a role is a member.
OrMember(role) == IF role = None THEN "member" ELSE role

\* Mutant of Role: the expiry is not looked at.
RoleForever(token) == OrMember(token.role)

\* OptionalJWTMiddleware: with a token that has expired one is a guest.
Role(token) ==
    IF token.exp # 0 /\ token.exp <= now THEN "guest" ELSE OrMember(token.role)

\* RequireRole, as the routes use it.
Allowed(op) == IF op \in {"work", "watch"} THEN {"member", "admin"} ELSE {"admin"}

\* A request that its token allows is served.
Admit(p, op, token, user, fields) ==
    /\ Role(token) \in Allowed(op)
    /\ LET by == IF token.role = None THEN "agent" ELSE "user"
       IN  Start(p, Request(op, token.sub, by, user, fields))
    /\ Counted
    /\ UNCHANGED <<table, tokens, now, held, asked, stale>>

-----------------------------------------------------------------------------
(* The requests                                                            *)

\* Agents and roles, which are no matter of this module.
Work(p, token) == Admit(p, "work", token, None, NoFields)

\* A connection that stays open: nobody looks at the token again.
Watch(p, token) == Admit(p, "watch", token, None, NoFields)

WorkDone(p) ==
    /\ At(p, "work") \/ At(p, "watch")
    /\ Answer(p)
    /\ UNCHANGED <<table, tokens, now, held, asked, stale, requests>>

Create(p, token, u, row) == Admit(p, "create", token, u, row)

CreateUser(p) ==
    /\ At(p, "create")
    /\ Insert(p, req[p].user, req[p].fields)
    /\ Answer(p)
    /\ UNCHANGED <<tokens, now, requests>>

Update(p, token, u, fields) == Admit(p, "find", token, u, fields)

\* The row is read; without one the answer is 404.
Find(p) ==
    /\ At(p, "find")
    /\ LET row == table[req[p].user]
       IN  req' = [req EXCEPT ![p] =
                      IF row = None THEN None
                      ELSE [@ EXCEPT !.op = "write", !.copy = row]]
    /\ UNCHANGED <<table, tokens, now, held, asked, stale, requests>>

\* Mutant of Merged: a field not given is set to its default.
MergedDefault(row, fields) ==
    [role |-> IF fields.role = None THEN "member" ELSE fields.role,
     hash |-> IF fields.hash = None THEN row.hash ELSE fields.hash]

Merged(row, fields) ==
    [role |-> IF fields.role = None THEN row.role ELSE fields.role,
     hash |-> IF fields.hash = None THEN row.hash ELSE fields.hash]

\* The row the request asks for: its fields, and the others as they are; an
\* overtaken update may leave anything.
Wanted(p, row) ==
    IF p \in stale THEN row
    ELSE LET old == asked[req[p].user]
             new == req[p].fields
         IN  [role |-> IF new.role = None THEN old.role ELSE new.role,
              hash |-> IF new.hash = None THEN old.hash ELSE new.hash]

\* Both fields are written, whichever was given, to the row of that name.
Write(p) ==
    /\ At(p, "write")
    /\ LET u == req[p].user
           row == Merged(req[p].copy, req[p].fields)
       IN  IF table[u] = None THEN NoRow(p) ELSE Store(p, u, row, Wanted(p, row))
    /\ Answer(p)
    /\ UNCHANGED <<tokens, now, requests>>

\* Mutant of Delete: one may delete oneself.
DeleteAnyone(p, token, u) == Admit(p, "delete", token, u, NoFields)

Delete(p, token, u) ==
    /\ token.sub # u
    /\ Admit(p, "delete", token, u, NoFields)

DeleteUser(p) ==
    /\ At(p, "delete")
    /\ IF table[req[p].user] = None THEN NoRow(p)
       ELSE Store(p, req[p].user, None, None)
    /\ Answer(p)
    /\ UNCHANGED <<tokens, now, requests>>

-----------------------------------------------------------------------------
\* The process is killed, a statement fails, or the client is gone.
Drop(p) ==
    /\ ~Free(p)
    /\ Answer(p)
    /\ stale' = stale \ {p}
    /\ UNCHANGED <<table, tokens, now, held, asked, requests>>

\* Time passes; no request takes longer than MaxLag, unless it stays open.
Tick ==
    /\ now < MaxTime
    /\ \A p \in Procs :
          IF Free(p) THEN TRUE ELSE req[p].op = "watch" \/ now - req[p].began < MaxLag
    /\ now' = now + 1
    /\ held' = [u \in Users |-> [r \in Roles |->
                   IF IF table[u] = None THEN FALSE ELSE table[u].role = r
                   THEN now + 1 ELSE held[u][r]]]
    /\ UNCHANGED <<table, tokens, req, asked, stale, requests>>

Ask(p, token) ==
    /\ Free(p)
    /\ \/ Work(p, token) \/ Watch(p, token)
       \/ \E u \in Users :
             \/ \E row \in Rows : Create(p, token, u, row)
             \/ \E fields \in Fields : Update(p, token, u, fields)
             \/ Delete(p, token, u)

Serve(p) ==
    \/ Boot(p) \/ Seed(p)
    \/ \E u \in Users, password \in Passwords : Login(p, u, password)
    \/ Sign(p)
    \/ \E token \in tokens \cup AgentTokens : Ask(p, token)
    \/ WorkDone(p) \/ CreateUser(p) \/ Find(p) \/ Write(p) \/ DeleteUser(p)
    \/ Drop(p)

Next == Tick \/ \E p \in Procs : Serve(p)

Spec == Init /\ [][Next]_vars

-----------------------------------------------------------------------------
\* No request deletes the account it is made with.
TypeOK ==
    /\ table \in [Users -> Rows \cup {None}]
    /\ tokens \subseteq Tokens
    /\ now \in Times
    /\ req \in [Procs -> Requests \cup {None}]
    /\ held \in [Users -> [Roles -> Times \cup {Never}]]
    /\ asked \in [Users -> Rows \cup {None}]
    /\ requests \in 0 .. MaxRequests
    /\ stale \subseteq {p \in Procs : At(p, "write")}
    /\ \A p \in Procs : At(p, "write") => req[p].copy # None
    /\ \A p \in Procs : At(p, "delete") => req[p].user # req[p].caller

\* When the request was served, at the latest.
Admitted(q) == IF q.op = "watch" THEN q.began ELSE now - MaxLag

\* Who was demoted or deleted loses the right a day later, whatever logins,
\* requests and changes overlap: a request is served only to a caller that had
\* one of the roles it requires within a token's life, the time to give the
\* token and the time to serve the request (auth.go:91, :128-185,
\* router.go:138-145); a connection that stays open is that old when it opens,
\* and then has no limit (router.go:133-136, ws.go:35-39).  An agent's token is
\* a member's for ever and never an administrator's (auth.go:155-158,
\* jwt.go:50-57).
RightsExpire ==
    \A p \in Procs :
        (IF req[p] = None THEN FALSE ELSE req[p].caller # None) =>
            IF req[p].by = "agent" THEN "member" \in Allowed(req[p].op)
            ELSE \E r \in Allowed(req[p].op) :
                    Admitted(req[p]) - held[req[p].caller][r] < TokenLife + MaxLag

\* An account is what the completed requests made it: an update leaves alone
\* what it was not given, a creation or a starting backend what is there, and
\* only an update that was overtaken may undo another
\* (client.go:131-154, main.go:89-103).
KeptUnlessOvertaken == table = asked
=============================================================================
