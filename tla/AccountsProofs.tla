--------------------------- MODULE AccountsProofs ---------------------------
(***************************************************************************)
(* The accounts' properties hold for any number of users, processes,       *)
(* requests and tokens, any lifetime of a token and any clock.             *)
(***************************************************************************)
EXTENDS Accounts, TLAPS

\* Times at which a role was held: never, or not after n.
Past(n) == {t \in Times \cup {Never} : t <= n}

\* The table's roles are held now, and none later than now.
HeldInv ==
    /\ held \in [Users -> [Roles -> Past(now)]]
    /\ \A u \in Users : table[u] # None => held[u][table[u].role] = now

\* A request served with an agent's token, or with that of a user whose role at
\* times h was one that is required.
RightOK(q, h) ==
    IF q.by = "agent" THEN "member" \in Allowed(q.op)
    ELSE /\ q.caller \in Users
         /\ \E r \in Roles \cap Allowed(q.op) :
               q.began - h[q.caller][r] < TokenLife + MaxLag

\* What is known of a request q while the time is n and the roles were held
\* at h: it is not older than MaxLag, unless it stays open, it has what its
\* statement needs, a login saw the role that it will sign, and its caller had
\* the right.
RequestOK(q, n, h) ==
    /\ q \in Requests
    /\ q.began <= n
    /\ q.op # "watch" => n - q.began <= MaxLag
    /\ q.op \notin {"work", "watch"} => q.user \in Users
    /\ q.op = "seed" => q.user = Admin
    /\ q.op \in {"seed", "create"} => q.fields \in Rows
    /\ q.op = "sign" => q.fields.role \in Roles /\ h[q.user][q.fields.role] >= q.began
    /\ q.op = "write" => q.copy \in Rows
    /\ q.op = "delete" => q.user # q.caller
    /\ q.caller # None => RightOK(q, h)

RequestsInv == \A p \in Procs : req[p] # None => RequestOK(req[p], now, held)

\* A token names a role that its user had when it was signed, or little before.
TokenOK(t, h) ==
    /\ t \in Tokens /\ t.exp # 0
    /\ t.exp - h[t.sub][t.role] <= TokenLife + MaxLag

TokenInv == \A t \in tokens : TokenOK(t, held)

\* An update that nobody overtook has the row as it is.
CopyInv ==
    /\ stale \subseteq {p \in Procs : At(p, "write")}
    /\ \A p \in Procs : At(p, "write") /\ p \notin stale => req[p].copy = table[req[p].user]

\* The other variables.
BaseInv ==
    /\ table \in [Users -> Rows \cup {None}]
    /\ asked = table
    /\ now \in Times
    /\ DOMAIN req = Procs /\ req = [p \in Procs |-> req[p]]
    /\ requests \in 0 .. MaxRequests

\* What every step preserves.
IInv == BaseInv /\ HeldInv /\ RequestsInv /\ TokenInv /\ CopyInv

\* What the bounds and "nothing" are.
LEMMA Constants ==
    /\ TokenLife \in Nat \ {0} /\ MaxLag \in Nat /\ MaxTime \in Nat /\ MaxRequests \in Nat
    /\ Never \in Int /\ Times \subseteq Nat
    /\ None \notin Users /\ None \notin Rows /\ None \notin Requests
    /\ None \notin Roles /\ None \notin Passwords
    /\ Admin \in Users /\ Password \in Passwords
    /\ Roles = {"member", "admin"}
  BY AccountsAssumption DEF Never, Times, Roles

LEMMA PastTimes == \A n \in Int : \A t \in Past(n) : t \in Int /\ t <= n
  BY Constants DEF Past

LEMMA InitInv == Init => IInv
<1>1. SUFFICES ASSUME Init PROVE IInv
  OBVIOUS
<1>2. BaseInv
  BY <1>1, Constants DEF Init, BaseInv, Times
<1>3. HeldInv
  BY <1>1, Constants DEF Init, HeldInv, Past, Never, Times
<1>4. RequestsInv /\ TokenInv /\ CopyInv
  BY <1>1 DEF Init, RequestsInv, TokenInv, CopyInv, At
<1>. QED
  BY <1>2, <1>3, <1>4 DEF IInv

-----------------------------------------------------------------------------
(* How requests begin and end                                              *)

\* A process that takes up a request in good order.
LEMMA StartInv ==
    ASSUME IInv, NEW p \in Procs, NEW q, Start(p, q), RequestOK(q, now, held),
           q.op # "write",
           UNCHANGED <<table, tokens, now, held, asked, stale>>,
           requests' \in 0 .. MaxRequests
    PROVE  IInv'
<1>1. /\ BaseInv /\ HeldInv /\ RequestsInv /\ TokenInv /\ CopyInv
      /\ req[p] = None
      /\ req' = [req EXCEPT ![p] = q]
      /\ q # None
  BY Constants DEF IInv, Start, Free, RequestOK
<1>2. \A o \in Procs : req'[o] = IF o = p THEN q ELSE req[o]
  BY <1>1 DEF BaseInv
<1>3. BaseInv' /\ HeldInv' /\ TokenInv'
  BY <1>1 DEF BaseInv, HeldInv, TokenInv
<1>4. RequestsInv'
  BY <1>1, <1>2 DEF RequestsInv
<1>5. CopyInv'
  BY <1>1, <1>2 DEF CopyInv, At
<1>. QED
  BY <1>3, <1>4, <1>5 DEF IInv

\* A process whose request is over, with nothing but tokens changed.
LEMMA AnswerInv ==
    ASSUME IInv, NEW p \in Procs, Answer(p), stale' = stale \ {p},
           UNCHANGED <<table, now, held, asked, requests>>,
           \A t \in tokens' : TokenOK(t, held)
    PROVE  IInv'
<1>1. BaseInv /\ HeldInv /\ RequestsInv /\ TokenInv /\ CopyInv
  BY DEF IInv
<1>2. \A o \in Procs : req'[o] = IF o = p THEN None ELSE req[o]
  BY <1>1 DEF BaseInv, Answer
<1>3. BaseInv' /\ HeldInv' /\ TokenInv'
  BY <1>1 DEF BaseInv, HeldInv, TokenInv, Answer
<1>4. RequestsInv'
  BY <1>1, <1>2 DEF RequestsInv
<1>5. CopyInv'
  BY <1>1, <1>2 DEF CopyInv, At
<1>. QED
  BY <1>3, <1>4, <1>5 DEF IInv

\* The times roles were held only grow, so what held of requests and tokens
\* still does.
LEMMA LaterOK ==
    ASSUME NEW n \in Times, NEW g \in [Users -> [Roles -> Past(n)]],
           NEW h \in [Users -> [Roles -> Past(n)]],
           \A u \in Users, r \in Roles : g[u][r] <= h[u][r]
    PROVE  /\ \A q : RequestOK(q, n, g) => RequestOK(q, n, h)
           /\ \A t : TokenOK(t, g) => TokenOK(t, h)
<1>1. \A u \in Users, r \in Roles : g[u][r] \in Int /\ h[u][r] \in Int
  <2>1. ASSUME NEW u \in Users, NEW r \in Roles
        PROVE  g[u][r] \in Past(n) /\ h[u][r] \in Past(n)
    OBVIOUS
  <2>. QED
    BY <2>1, PastTimes DEF Times
<1>2. ASSUME NEW q, RequestOK(q, n, g) PROVE RequestOK(q, n, h)
  <2>1. /\ q \in Requests /\ q.began \in Int
        /\ q.op \notin {"work", "watch"} => q.user \in Users
    <3>1. q \in Requests /\ (q.op \notin {"work", "watch"} => q.user \in Users)
      BY <1>2 DEF RequestOK
    <3>. QED
      BY <3>1 DEF Requests, Times
  <2>2. q.op = "sign" => q.fields.role \in Roles /\ h[q.user][q.fields.role] >= q.began
    <3>1. SUFFICES ASSUME q.op = "sign"
                   PROVE  q.fields.role \in Roles /\ h[q.user][q.fields.role] >= q.began
      OBVIOUS
    <3>2. /\ q.user \in Users /\ q.fields.role \in Roles
          /\ g[q.user][q.fields.role] >= q.began
      BY <1>2, <2>1, <3>1 DEF RequestOK
    <3>3. g[q.user][q.fields.role] <= h[q.user][q.fields.role]
      BY <3>2
    <3>. QED
      BY <1>1, <2>1, <3>2, <3>3
  <2>3. q.caller # None => RightOK(q, h)
    <3>1. SUFFICES ASSUME q.caller # None, q.by # "agent" PROVE RightOK(q, h)
      BY <1>2 DEF RequestOK, RightOK
    <3>2. q.caller \in Users
      BY <1>2, <3>1 DEF RequestOK, RightOK
    <3>3. PICK r \in Roles \cap Allowed(q.op) :
             q.began - g[q.caller][r] < TokenLife + MaxLag
      BY <1>2, <3>1 DEF RequestOK, RightOK
    <3>4. g[q.caller][r] <= h[q.caller][r]
      BY <3>2
    <3>5. q.began - h[q.caller][r] < TokenLife + MaxLag
      BY <1>1, <2>1, <3>2, <3>3, <3>4, Constants
    <3>. QED
      BY <3>1, <3>2, <3>5 DEF RightOK
  <2>. QED
    BY <1>2, <2>2, <2>3 DEF RequestOK
<1>3. ASSUME NEW t, TokenOK(t, g) PROVE TokenOK(t, h)
  <2>1. t \in Tokens /\ t.sub \in Users /\ t.role \in Roles /\ t.exp \in Int
    BY <1>3 DEF TokenOK, Tokens
  <2>. QED
    BY <1>1, <1>3, <2>1, Constants DEF TokenOK
<1>. QED
  BY <1>2, <1>3

\* A statement of p that puts a row in the place of u's, as the request asks.
LEMMA StoreInv ==
    ASSUME IInv, NEW p \in Procs, NEW u \in Users, NEW row \in Rows \cup {None},
           Store(p, u, row, row), Answer(p), UNCHANGED <<tokens, now, requests>>
    PROVE  IInv'
<1>1. /\ BaseInv /\ HeldInv /\ RequestsInv /\ TokenInv /\ CopyInv
      /\ table' = [table EXCEPT ![u] = row]
      /\ asked' = [asked EXCEPT ![u] = row]
      /\ Holding(table') /\ Overtaken(p, u)
  BY DEF IInv, Store
<1>2. \A o \in Procs : req'[o] = IF o = p THEN None ELSE req[o]
  BY <1>1 DEF BaseInv, Answer
<1>3. BaseInv'
  BY <1>1 DEF BaseInv, Answer
<1>4. now \in Times /\ \A t \in Past(now) : t \in Int /\ t <= now
  BY <1>1, PastTimes DEF BaseInv, Times
<1>5. held' = [v \in Users |-> [r \in Roles |->
                 IF IF table'[v] = None THEN FALSE ELSE table'[v].role = r
                 THEN now ELSE held[v][r]]]
  BY <1>1 DEF Holding
<1>6. now \in Past(now)
  BY <1>4, Constants DEF Past
<1>7. held' \in [Users -> [Roles -> Past(now)]]
  BY <1>1, <1>5, <1>6 DEF HeldInv
<1>8. \A v \in Users : table'[v] # None => held'[v][table'[v].role] = now
  <2>1. \A v \in Users : table'[v] # None => table'[v].role \in Roles
    BY <1>3 DEF BaseInv, Rows
  <2>. QED
    BY <1>5, <2>1
<1>9. HeldInv'
  BY <1>7, <1>8 DEF HeldInv
<1>10. \A v \in Users, r \in Roles : held[v][r] <= held'[v][r]
  BY <1>1, <1>4, <1>5 DEF HeldInv
<1>11. held \in [Users -> [Roles -> Past(now)]]
  BY <1>1 DEF HeldInv
<1>12. /\ \A q : RequestOK(q, now, held) => RequestOK(q, now, held')
       /\ \A t : TokenOK(t, held) => TokenOK(t, held')
  BY <1>4, <1>7, <1>10, <1>11, LaterOK
<1>13. RequestsInv'
  BY <1>1, <1>2, <1>12 DEF RequestsInv
<1>14. TokenInv'
  BY <1>1, <1>12 DEF TokenInv
<1>15. CopyInv'
  <2>1. stale' = (stale \ {p})
                   \cup {o \in Procs \ {p} : At(o, "write") /\ req[o].user = u}
    BY <1>1 DEF Overtaken
  <2>2. \A o \in Procs : At(o, "write")' <=> (o # p /\ At(o, "write"))
    BY <1>2 DEF At
  <2>3. \A o \in Procs : At(o, "write") => req[o].user \in Users
    BY <1>1 DEF RequestsInv, RequestOK, At
  <2>4. \A o \in Procs \ {p} : At(o, "write") /\ o \notin stale' =>
            req[o].copy = table[req[o].user] /\ req[o].user # u
    BY <1>1, <2>1 DEF CopyInv
  <2>5. \A v \in Users : v # u => table'[v] = table[v]
    BY <1>1 DEF BaseInv
  <2>6. \A o \in Procs : At(o, "write")' /\ o \notin stale' =>
            req'[o].copy = table'[req'[o].user]
    BY <1>2, <2>2, <2>3, <2>4, <2>5
  <2>7. stale' \subseteq {o \in Procs : At(o, "write")'}
    BY <1>1, <2>1, <2>2 DEF CopyInv
  <2>. QED
    BY <2>6, <2>7 DEF CopyInv
<1>. QED
  BY <1>3, <1>9, <1>13, <1>14, <1>15 DEF IInv

-----------------------------------------------------------------------------
(* The steps                                                               *)

\* What Insert does to a free name, or does not.
LEMMA InsertInv ==
    ASSUME IInv, NEW p \in Procs, req[p] # None, req[p].op \in {"seed", "create"},
           Insert(p, req[p].user, req[p].fields), Answer(p),
           UNCHANGED <<tokens, now, requests>>
    PROVE  IInv'
<1>1. req[p].user \in Users /\ req[p].fields \in Rows
  BY DEF IInv, RequestsInv, RequestOK
<1>2. CASE table[req[p].user] = None
  BY <1>1, <1>2, StoreInv DEF Insert
<1>3. CASE table[req[p].user] # None
  <2>1. NoRow(p)
    BY <1>3 DEF Insert
  <2>2. \A t \in tokens' : TokenOK(t, held)
    BY DEF IInv, TokenInv
  <2>. QED
    BY <2>1, <2>2, AnswerInv DEF NoRow
<1>. QED
  BY <1>2, <1>3

\* A served request began with a right that its caller had, and did not have
\* too long ago.
LEMMA AdmitInv ==
    ASSUME IInv, NEW p \in Procs, NEW token \in tokens \cup AgentTokens,
           NEW op \in {"work", "watch", "create", "find", "delete"},
           NEW user \in Users \cup {None}, NEW fields \in Fields,
           op \notin {"work", "watch"} => user \in Users,
           op = "create" => fields \in Rows,
           op = "delete" => user # token.sub,
           Admit(p, op, token, user, fields)
    PROVE  IInv'
<1>. DEFINE by == IF token.role = None THEN "agent" ELSE "user"
            q == Request(op, token.sub, by, user, fields)
<1>1. /\ BaseInv /\ HeldInv /\ now \in Times /\ now \in Int
  BY DEF IInv, BaseInv, Times
<1>2. /\ Role(token) \in Allowed(op)
      /\ Start(p, q)
      /\ requests' \in 0 .. MaxRequests
      /\ UNCHANGED <<table, tokens, now, held, asked, stale>>
  BY <1>1, Constants DEF Admit, Counted, BaseInv
<1>8. by = IF token.role = None THEN "agent" ELSE "user"
  OBVIOUS
<1>. HIDE DEF by
<1>3. q = [op |-> op, caller |-> token.sub, by |-> by, user |-> user,
           fields |-> fields, copy |-> None, began |-> now]
  BY DEF Request
<1>. HIDE DEF q
<1>4. token.sub \in Users \cup Agents /\ RightOK(q, held)
  <2>1. CASE token \in AgentTokens
    <3>1. token.sub \in Agents /\ token.role = None /\ token.exp = 0
      BY <2>1 DEF AgentTokens
    <3>2. Role(token) = "member"
      BY <3>1 DEF Role, OrMember
    <3>. QED
      BY <1>2, <1>3, <1>8, <3>1, <3>2 DEF RightOK
  <2>2. CASE token \in tokens
    <3>1. TokenOK(token, held)
      BY <2>2 DEF IInv, TokenInv
    <3>2. /\ token.sub \in Users /\ token.role \in Roles /\ token.role # None
          /\ token.exp \in Int /\ token.exp # 0
          /\ token.exp - held[token.sub][token.role] <= TokenLife + MaxLag
      BY <3>1, Constants DEF TokenOK, Tokens
    <3>3. ~(token.exp <= now) /\ token.role \in Allowed(op)
      BY <1>2, <3>2 DEF Role, OrMember, Allowed
    <3>4. held[token.sub][token.role] \in Int
      <4>1. held[token.sub][token.role] \in Past(now)
        BY <1>1, <3>2 DEF HeldInv
      <4>. QED
        BY <1>1, <4>1, PastTimes
    <3>5. now - held[token.sub][token.role] < TokenLife + MaxLag
      BY <1>1, <3>2, <3>3, <3>4, Constants
    <3>. QED
      BY <1>3, <1>8, <3>2, <3>3, <3>5 DEF RightOK
  <2>. QED
    BY <2>1, <2>2
<1>5. q \in Requests
  BY <1>1, <1>3, <1>4, <1>8 DEF Requests, Ops
<1>6. RequestOK(q, now, held)
  BY <1>1, <1>3, <1>4, <1>5, Constants DEF RequestOK
<1>7. q.op # "write"
  BY <1>3
<1>. QED
  BY <1>2, <1>6, <1>7, StartInv

LEMMA BootInv == \A p \in Procs : IInv /\ Boot(p) => IInv'
<1>1. SUFFICES ASSUME NEW p \in Procs, IInv, Boot(p) PROVE IInv'
  OBVIOUS
<1>. DEFINE f == [role |-> "admin", hash |-> Password]
            q == Request("seed", None, "user", Admin, f)
<1>2. f \in Rows /\ f \in Fields
  BY Constants DEF Rows, Fields
<1>3. now \in Times /\ now \in Int /\ requests' \in 0 .. MaxRequests
  BY <1>1, Constants DEF IInv, BaseInv, Boot, Counted, Times
<1>4. q = [op |-> "seed", caller |-> None, by |-> "user", user |-> Admin, fields |-> f,
           copy |-> None, began |-> now]
  BY DEF Request
<1>. HIDE DEF f
<1>5. q \in Requests
  BY <1>2, <1>3, <1>4, Constants DEF Requests, Ops
<1>6. RequestOK(q, now, held) /\ q.op # "write"
  BY <1>2, <1>3, <1>4, <1>5, Constants DEF RequestOK
<1>7. Start(p, q) /\ UNCHANGED <<table, tokens, now, held, asked, stale>>
  BY <1>1 DEF Boot, f
<1>. HIDE DEF q
<1>. QED
  BY <1>1, <1>3, <1>6, <1>7, StartInv

\* A login sees the role that the user has at that moment.
LEMMA LoginInv ==
    \A p \in Procs, u \in Users, password \in Passwords :
        IInv /\ Login(p, u, password) => IInv'
<1>1. SUFFICES ASSUME NEW p \in Procs, NEW u \in Users, NEW password \in Passwords,
                      IInv, Login(p, u, password)
               PROVE  IInv'
  OBVIOUS
<1>. DEFINE f == [NoFields EXCEPT !.role = table[u].role]
            q == Request("sign", None, "user", u, f)
<1>2. table[u] # None /\ Start(p, q)
      /\ UNCHANGED <<table, tokens, now, held, asked, stale, requests>>
  BY <1>1 DEF Login
<1>3. now \in Times /\ now \in Int /\ requests \in 0 .. MaxRequests
      /\ table[u] \in Rows /\ table[u].role \in Roles
  BY <1>1, <1>2 DEF IInv, BaseInv, Times, Rows
<1>4. held[u][table[u].role] = now
  BY <1>1, <1>2 DEF IInv, HeldInv
<1>5. f \in Fields /\ f.role = table[u].role
  <2>1. f = [role |-> table[u].role, hash |-> None]
    BY DEF NoFields
  <2>. QED
    BY <1>3, <2>1 DEF Fields
<1>6. q = [op |-> "sign", caller |-> None, by |-> "user", user |-> u, fields |-> f,
           copy |-> None, began |-> now]
  BY DEF Request
<1>. HIDE DEF f
<1>7. q \in Requests
  BY <1>3, <1>5, <1>6, Constants DEF Requests, Ops
<1>8. RequestOK(q, now, held) /\ q.op # "write"
  BY <1>3, <1>4, <1>5, <1>6, <1>7, Constants DEF RequestOK
<1>. HIDE DEF q
<1>. QED
  BY <1>1, <1>2, <1>3, <1>8, StartInv

\* A token is signed with a role its user had at most MaxLag ago.
LEMMA SignInv == \A p \in Procs : IInv /\ Sign(p) => IInv'
<1>1. SUFFICES ASSUME NEW p \in Procs, IInv, Sign(p) PROVE IInv'
  OBVIOUS
<1>. DEFINE t == [sub |-> req[p].user, role |-> req[p].fields.role,
                  exp |-> now + TokenLife]
<1>2. /\ req[p] # None /\ req[p].op = "sign"
      /\ tokens' = tokens \cup {t} /\ Answer(p)
      /\ UNCHANGED <<table, now, held, asked, stale, requests>>
  BY <1>1 DEF Sign, At
<1>3. /\ req[p].user \in Users /\ req[p].fields.role \in Roles
      /\ held[req[p].user][req[p].fields.role] >= req[p].began
      /\ now - req[p].began <= MaxLag
      /\ req[p].began \in Int /\ now \in Nat
  <2>1. RequestOK(req[p], now, held) /\ now \in Times
    BY <1>1, <1>2 DEF IInv, RequestsInv, BaseInv
  <2>2. req[p].began \in Times
    BY <2>1 DEF RequestOK, Requests
  <2>. QED
    BY <1>2, <2>1, <2>2 DEF RequestOK, Times
<1>4. held[req[p].user][req[p].fields.role] \in Int
  <2>1. held[req[p].user][req[p].fields.role] \in Past(now)
    BY <1>1, <1>3 DEF IInv, HeldInv
  <2>. QED
    BY <1>3, <2>1, PastTimes
<1>5. TokenOK(t, held)
  BY <1>3, <1>4, Constants DEF TokenOK, Tokens
<1>6. \A s \in tokens' : TokenOK(s, held)
  BY <1>1, <1>2, <1>5 DEF IInv, TokenInv
<1>7. stale' = stale \ {p}
  BY <1>1, <1>2 DEF IInv, CopyInv, At
<1>. HIDE DEF t
<1>. QED
  BY <1>1, <1>2, <1>6, <1>7, AnswerInv

\* Requests that end without a statement.
LEMMA EndInv == \A p \in Procs : IInv /\ (WorkDone(p) \/ Drop(p)) => IInv'
<1>1. SUFFICES ASSUME NEW p \in Procs, IInv, WorkDone(p) \/ Drop(p) PROVE IInv'
  OBVIOUS
<1>2. Answer(p) /\ UNCHANGED <<table, tokens, now, held, asked, requests>>
  BY <1>1 DEF WorkDone, Drop
<1>3. stale' = stale \ {p}
  BY <1>1 DEF WorkDone, Drop, IInv, CopyInv, At
<1>4. \A t \in tokens' : TokenOK(t, held)
  BY <1>1, <1>2 DEF IInv, TokenInv
<1>. QED
  BY <1>1, <1>2, <1>3, <1>4, AnswerInv

\* What an update reads is what the row is.
LEMMA FindInv == \A p \in Procs : IInv /\ Find(p) => IInv'
<1>1. SUFFICES ASSUME NEW p \in Procs, IInv, Find(p) PROVE IInv'
  OBVIOUS
<1>2. /\ req[p] # None /\ req[p].op = "find"
      /\ UNCHANGED <<table, tokens, now, held, asked, stale, requests>>
  BY <1>1 DEF Find, At
<1>3. p \notin stale
  BY <1>1, <1>2 DEF IInv, CopyInv, At
<1>4. CASE table[req[p].user] = None
  <2>1. Answer(p)
    BY <1>1, <1>4 DEF Find, Answer
  <2>2. \A t \in tokens' : TokenOK(t, held)
    BY <1>1, <1>2 DEF IInv, TokenInv
  <2>. QED
    BY <1>1, <1>2, <1>3, <2>1, <2>2, AnswerInv
<1>5. CASE table[req[p].user] # None
  <2>. DEFINE q == [req[p] EXCEPT !.op = "write", !.copy = table[req[p].user]]
  <2>1. /\ BaseInv /\ HeldInv /\ RequestsInv /\ TokenInv /\ CopyInv
        /\ req' = [req EXCEPT ![p] = q]
    BY <1>1, <1>5 DEF IInv, Find
  <2>2. /\ req[p] \in Requests /\ req[p].user \in Users
        /\ RequestOK(req[p], now, held)
    BY <1>2, <2>1 DEF RequestsInv, RequestOK
  <2>3. table[req[p].user] \in Rows
    BY <1>5, <2>1, <2>2 DEF BaseInv
  <2>4. /\ q \in Requests /\ q.op = "write" /\ q.copy = table[req[p].user]
        /\ q.user = req[p].user /\ q.began = req[p].began /\ q.caller = req[p].caller
        /\ q.by = req[p].by /\ q # None
    BY <2>2, <2>3, Constants DEF Requests, Ops
  <2>5. RequestOK(q, now, held)
    <3>1. Allowed(q.op) = Allowed(req[p].op)
      BY <1>2, <2>4 DEF Allowed
    <3>. HIDE DEF q
    <3>. QED
      BY <1>2, <2>2, <2>3, <2>4, <3>1 DEF RequestOK, RightOK
  <2>. HIDE DEF q
  <2>6. \A o \in Procs : req'[o] = IF o = p THEN q ELSE req[o]
    BY <2>1 DEF BaseInv
  <2>7. BaseInv' /\ HeldInv' /\ TokenInv'
    BY <1>2, <2>1 DEF BaseInv, HeldInv, TokenInv
  <2>8. RequestsInv'
    BY <1>2, <2>1, <2>5, <2>6 DEF RequestsInv
  <2>9. CopyInv'
    BY <1>2, <2>1, <2>4, <2>6 DEF CopyInv, At
  <2>. QED
    BY <2>7, <2>8, <2>9 DEF IInv
<1>. QED
  BY <1>4, <1>5

\* An update writes what was asked for on top of what it read, which is what
\* the row is unless another statement came in between.
LEMMA WriteInv == \A p \in Procs : IInv /\ Write(p) => IInv'
<1>1. SUFFICES ASSUME NEW p \in Procs, IInv, Write(p) PROVE IInv'
  OBVIOUS
<1>. DEFINE u == req[p].user
            row == Merged(req[p].copy, req[p].fields)
<1>2. /\ req[p] # None /\ req[p].op = "write" /\ Answer(p)
      /\ UNCHANGED <<tokens, now, requests>>
      /\ IF table[u] = None THEN NoRow(p) ELSE Store(p, u, row, Wanted(p, row))
  BY <1>1 DEF Write, At
<1>3. u \in Users /\ req[p].copy \in Rows /\ req[p].fields \in Fields
  BY <1>1, <1>2 DEF IInv, RequestsInv, RequestOK, Requests
<1>4. row \in Rows
  BY <1>3 DEF Merged, Rows, Fields
<1>5. CASE table[u] = None
  <2>1. NoRow(p)
    BY <1>2, <1>5
  <2>2. \A t \in tokens' : TokenOK(t, held)
    BY <1>1, <1>2 DEF IInv, TokenInv
  <2>. QED
    BY <1>1, <1>2, <2>1, <2>2, AnswerInv DEF NoRow
<1>6. CASE table[u] # None
  <2>1. Wanted(p, row) = row
    <3>1. CASE p \in stale
      BY <3>1 DEF Wanted
    <3>2. CASE p \notin stale
      <4>1. req[p].copy = table[u] /\ asked = table
        BY <1>1, <1>2, <3>2 DEF IInv, CopyInv, BaseInv, At
      <4>. QED
        BY <3>2, <4>1 DEF Wanted, Merged
    <3>. QED
      BY <3>1, <3>2
  <2>2. Store(p, u, row, row)
    BY <1>2, <1>6, <2>1
  <2>. HIDE DEF u, row
  <2>. QED
    BY <1>1, <1>2, <1>3, <1>4, <2>2, StoreInv
<1>. QED
  BY <1>5, <1>6

LEMMA DeleteUserInv == \A p \in Procs : IInv /\ DeleteUser(p) => IInv'
<1>1. SUFFICES ASSUME NEW p \in Procs, IInv, DeleteUser(p) PROVE IInv'
  OBVIOUS
<1>2. /\ req[p] # None /\ req[p].op = "delete" /\ Answer(p)
      /\ UNCHANGED <<tokens, now, requests>>
      /\ IF table[req[p].user] = None THEN NoRow(p)
         ELSE Store(p, req[p].user, None, None)
  BY <1>1 DEF DeleteUser, At
<1>3. req[p].user \in Users
  BY <1>1, <1>2 DEF IInv, RequestsInv, RequestOK
<1>4. CASE table[req[p].user] = None
  <2>1. \A t \in tokens' : TokenOK(t, held)
    BY <1>1, <1>2 DEF IInv, TokenInv
  <2>. QED
    BY <1>1, <1>2, <1>4, <2>1, AnswerInv DEF NoRow
<1>5. CASE table[req[p].user] # None
  BY <1>1, <1>2, <1>3, <1>5, StoreInv
<1>. QED
  BY <1>4, <1>5

\* A moment later every request is younger than MaxLag still, and everybody
\* has the role that the table gives.
LEMMA TickInv == IInv /\ Tick => IInv'
<1>1. SUFFICES ASSUME IInv, Tick PROVE IInv'
  OBVIOUS
<1>2. /\ BaseInv /\ HeldInv /\ RequestsInv /\ TokenInv /\ CopyInv
      /\ now \in Nat /\ now' = now + 1 /\ now' \in Times
      /\ UNCHANGED <<table, tokens, req, asked, stale, requests>>
  BY <1>1, Constants DEF IInv, BaseInv, Tick, Times
<1>3. held' = [u \in Users |-> [r \in Roles |->
                 IF IF table[u] = None THEN FALSE ELSE table[u].role = r
                 THEN now + 1 ELSE held[u][r]]]
  BY <1>1 DEF Tick
<1>4. \A t \in Past(now) : t \in Int /\ t <= now /\ t \in Past(now')
  <2>1. \A t \in Past(now) : t \in Int /\ t <= now
    BY <1>2, PastTimes
  <2>. QED
    BY <1>2, <2>1 DEF Past
<1>5. now' \in Past(now')
  BY <1>2 DEF Past
<1>6. \A u \in Users, r \in Roles : held[u][r] \in Past(now)
  BY <1>2 DEF HeldInv
<1>7. /\ held \in [Users -> [Roles -> Past(now')]]
      /\ held' \in [Users -> [Roles -> Past(now')]]
  <2>1. \A u \in Users : held[u] \in [Roles -> Past(now')]
    BY <1>2, <1>4 DEF HeldInv
  <2>. QED
    BY <1>2, <1>3, <1>4, <1>5, <1>6, <2>1 DEF HeldInv
<1>8. \A u \in Users, r \in Roles : held[u][r] <= held'[u][r]
  BY <1>2, <1>3, <1>4, <1>6
<1>9. \A u \in Users : table[u] # None => held'[u][table[u].role] = now'
  <2>1. \A u \in Users : table[u] # None => table[u].role \in Roles
    BY <1>2 DEF BaseInv, Rows
  <2>. QED
    BY <1>2, <1>3, <2>1
<1>10. /\ \A q : RequestOK(q, now', held) => RequestOK(q, now', held')
       /\ \A t : TokenOK(t, held) => TokenOK(t, held')
  BY <1>2, <1>7, <1>8, LaterOK
<1>11. \A p \in Procs : req[p] # None => RequestOK(req[p], now', held)
  <2>1. SUFFICES ASSUME NEW p \in Procs, req[p] # None
                 PROVE  RequestOK(req[p], now', held)
    OBVIOUS
  <2>2. /\ RequestOK(req[p], now, held)
        /\ req[p].op = "watch" \/ now - req[p].began < MaxLag
    BY <1>1, <1>2, <2>1 DEF RequestsInv, Tick, Free
  <2>3. req[p].began \in Int
    BY <2>2 DEF RequestOK, Requests, Times
  <2>4. req[p].began <= now' /\ (req[p].op # "watch" => now' - req[p].began <= MaxLag)
    BY <1>2, <2>2, <2>3, Constants DEF RequestOK
  <2>. QED
    BY <2>2, <2>4 DEF RequestOK
<1>12. BaseInv'
  BY <1>2 DEF BaseInv
<1>13. HeldInv'
  BY <1>2, <1>7, <1>9 DEF HeldInv
<1>14. RequestsInv'
  BY <1>2, <1>10, <1>11 DEF RequestsInv
<1>15. TokenInv'
  BY <1>2, <1>10 DEF TokenInv
<1>16. CopyInv'
  BY <1>2 DEF CopyInv, At
<1>. QED
  BY <1>12, <1>13, <1>14, <1>15, <1>16 DEF IInv

\* Whatever an administrator, or anybody, asks for with a token.
LEMMA AskInv ==
    \A p \in Procs, token \in tokens \cup AgentTokens : IInv /\ Ask(p, token) => IInv'
<1>1. SUFFICES ASSUME NEW p \in Procs, NEW token \in tokens \cup AgentTokens, IInv, Ask(p, token)
               PROVE  IInv'
  OBVIOUS
<1>2. NoFields \in Fields /\ Rows \subseteq Fields
  BY DEF NoFields, Fields, Rows
<1>3. CASE Work(p, token) \/ Watch(p, token)
  BY <1>1, <1>2, <1>3, AdmitInv DEF Work, Watch
<1>4. CASE \E u \in Users, row \in Rows : Create(p, token, u, row)
  <2>1. PICK u \in Users, row \in Rows : Create(p, token, u, row)
    BY <1>4
  <2>. QED
    BY <1>1, <1>2, <2>1, AdmitInv DEF Create
<1>5. CASE \E u \in Users, fields \in Fields : Update(p, token, u, fields)
  <2>1. PICK u \in Users, fields \in Fields : Update(p, token, u, fields)
    BY <1>5
  <2>. QED
    BY <1>1, <2>1, AdmitInv DEF Update
<1>6. CASE \E u \in Users : Delete(p, token, u)
  <2>1. PICK u \in Users : Delete(p, token, u)
    BY <1>6
  <2>. QED
    BY <1>1, <1>2, <2>1, AdmitInv DEF Delete
<1>. QED
  BY <1>1, <1>3, <1>4, <1>5, <1>6 DEF Ask

LEMMA ServeInv == \A p \in Procs : IInv /\ Serve(p) => IInv'
<1>1. SUFFICES ASSUME NEW p \in Procs, IInv, Serve(p) PROVE IInv'
  OBVIOUS
<1>2. CASE Boot(p)
  BY <1>1, <1>2, BootInv
<1>3. CASE Seed(p)
  <2>1. /\ req[p] # None /\ req[p].op = "seed" /\ Answer(p)
        /\ Insert(p, Admin, req[p].fields) /\ UNCHANGED <<tokens, now, requests>>
    BY <1>3 DEF Seed, At
  <2>2. req[p].user = Admin
    BY <1>1, <2>1 DEF IInv, RequestsInv, RequestOK
  <2>. QED
    BY <1>1, <2>1, <2>2, InsertInv
<1>4. CASE \E u \in Users, password \in Passwords : Login(p, u, password)
  BY <1>1, <1>4, LoginInv
<1>5. CASE Sign(p)
  BY <1>1, <1>5, SignInv
<1>6. CASE \E token \in tokens \cup AgentTokens : Ask(p, token)
  BY <1>1, <1>6, AskInv
<1>7. CASE WorkDone(p) \/ Drop(p)
  BY <1>1, <1>7, EndInv
<1>8. CASE CreateUser(p)
  BY <1>1, <1>8, InsertInv DEF CreateUser, At
<1>9. CASE Find(p) \/ Write(p) \/ DeleteUser(p)
  BY <1>1, <1>9, FindInv, WriteInv, DeleteUserInv
<1>. QED
  BY <1>1, <1>2, <1>3, <1>4, <1>5, <1>6, <1>7, <1>8, <1>9 DEF Serve

LEMMA StutterInv == IInv /\ UNCHANGED vars => IInv'
<1>1. SUFFICES ASSUME IInv, UNCHANGED <<table, tokens, now, req, held, asked, stale, requests>>
               PROVE  IInv'
  BY DEF vars
<1>. QED
  BY <1>1 DEF IInv, BaseInv, HeldInv, RequestsInv, TokenInv, CopyInv, At

-----------------------------------------------------------------------------
(* The results                                                             *)

\* The inductive invariant holds in every reachable state.
THEOREM Invariance == Spec => []IInv
<1>1. IInv /\ [Next]_vars => IInv'
  BY TickInv, ServeInv, StutterInv DEF Next
<1>. QED
  BY <1>1, InitInv, PTL DEF Spec

\* The types, and that no request deletes the account it is made with.
THEOREM TypesHold == Spec => []TypeOK
<1>1. IInv => TypeOK
  <2>1. SUFFICES ASSUME IInv PROVE TypeOK
    OBVIOUS
  <2>2. BaseInv /\ HeldInv /\ RequestsInv /\ TokenInv /\ CopyInv
    BY <2>1 DEF IInv
  <2>3. /\ table \in [Users -> Rows \cup {None}]
        /\ asked \in [Users -> Rows \cup {None}]
        /\ now \in Times
        /\ requests \in 0 .. MaxRequests
    BY <2>2 DEF BaseInv
  <2>4. tokens \subseteq Tokens
    BY <2>2 DEF TokenInv, TokenOK
  <2>5. req \in [Procs -> Requests \cup {None}]
    BY <2>2 DEF BaseInv, RequestsInv, RequestOK
  <2>6. held \in [Users -> [Roles -> Times \cup {Never}]]
    <3>1. Past(now) \subseteq Times \cup {Never}
      BY DEF Past
    <3>2. \A u \in Users : held[u] \in [Roles -> Times \cup {Never}]
      BY <2>2, <3>1 DEF HeldInv
    <3>. QED
      BY <2>2, <3>2 DEF HeldInv
  <2>7. stale \subseteq {p \in Procs : At(p, "write")}
    BY <2>2 DEF CopyInv
  <2>8. \A p \in Procs : At(p, "write") => req[p].copy # None
    BY <2>2, Constants DEF RequestsInv, RequestOK, At
  <2>9. \A p \in Procs : At(p, "delete") => req[p].user # req[p].caller
    BY <2>2 DEF RequestsInv, RequestOK, At
  <2>. QED
    BY <2>3, <2>4, <2>5, <2>6, <2>7, <2>8, <2>9, Zenon DEF TypeOK
<1>. QED
  BY <1>1, Invariance, PTL

\* A right outlives the role it came from by no more than a token's life, the
\* time of a login and that of a request, however they overlap with the
\* changes and deletions of users; a connection that stays open had it when it
\* opened.  An agent's token does what members may, for ever.
THEOREM RightsDoExpire == Spec => []RightsExpire
<1>1. IInv => RightsExpire
  <2>1. SUFFICES ASSUME IInv, NEW p \in Procs, req[p] # None, req[p].caller # None
                 PROVE  IF req[p].by = "agent" THEN "member" \in Allowed(req[p].op)
                        ELSE \E r \in Allowed(req[p].op) :
                               Admitted(req[p]) - held[req[p].caller][r]
                                  < TokenLife + MaxLag
    BY DEF RightsExpire
  <2>2. RequestOK(req[p], now, held) /\ now \in Int
    BY <2>1 DEF IInv, RequestsInv, BaseInv, Times
  <2>3. RightOK(req[p], held) /\ req[p].began \in Int
    BY <2>1, <2>2 DEF RequestOK, Requests, Times
  <2>4. CASE req[p].by = "agent"
    BY <2>3, <2>4 DEF RightOK
  <2>5. CASE req[p].by # "agent"
    <3>1. PICK r \in Roles \cap Allowed(req[p].op) :
              /\ req[p].caller \in Users
              /\ req[p].began - held[req[p].caller][r] < TokenLife + MaxLag
      BY <2>3, <2>5 DEF RightOK
    <3>2. held[req[p].caller][r] \in Int
      <4>1. held[req[p].caller][r] \in Past(now)
        BY <2>1, <3>1 DEF IInv, HeldInv
      <4>. QED
        BY <2>2, <4>1, PastTimes
    <3>3. Admitted(req[p]) \in Int /\ Admitted(req[p]) <= req[p].began
      BY <2>2, <2>3, Constants DEF RequestOK, Admitted
    <3>4. Admitted(req[p]) - held[req[p].caller][r] < TokenLife + MaxLag
      BY <2>3, <3>1, <3>2, <3>3, Constants
    <3>. QED
      BY <2>5, <3>1, <3>4
  <2>. QED
    BY <2>4, <2>5
<1>. QED
  BY <1>1, Invariance, PTL

\* The table is what the completed requests ask for, but for updates that
\* another statement overtook.
THEOREM AccountsKept == Spec => []KeptUnlessOvertaken
<1>1. IInv => KeptUnlessOvertaken
  BY DEF IInv, BaseInv, KeptUnlessOvertaken
<1>. QED
  BY <1>1, Invariance, PTL
=============================================================================
