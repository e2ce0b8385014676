---------------------------- MODULE RequestsProofs ----------------------------
(***************************************************************************)
(* What a request has to pass, for every number of users, groups, todos,     *)
(* requests and clients.                                                     *)
(*   GroupAccess: whoever changed or read the todos of a group was allowed   *)
(* to by a role it had while the request ran, and the buttons it was shown   *)
(* are at the todos the API lets it change.                                  *)
(*   RateLimiter: the sweep of the limiter's map is invisible, for every     *)
(* limit, window, size of the map and number of concurrent requests.         *)
(***************************************************************************)
EXTENDS MCRequests, TLAPS

-----------------------------------------------------------------------------
(* Membership and roles.                                                     *)

\* What a request and an accepted command are made of.
RequestRecord ==
    [op : A!Commands \cup A!Pages, user : Users, group : Groups, todo : Todos \cup {NoTodo},
     seen : A!G!Roles \cup {A!None},
     at : {"member", "role", "todo", "accept", "list", "open"}]

CommandRecord ==
    [op : A!Commands, user : Users, group : Groups, todo : Todos, held : SUBSET A!G!Roles]

BoardRecord ==
    { b \in [todos : SUBSET Todos, editable : SUBSET Todos, sent : BOOLEAN] :
        b.editable \subseteq b.todos }

Changes(op) == op \in {"update", "delete"}

ATypes ==
    /\ A!G!TypeOK
    /\ todos \in [Todos -> A!Rows \cup {A!Idle}]
    /\ req \in [Requests -> RequestRecord \cup {A!Idle}]
    /\ shown \in [Requests -> BoardRecord]
    /\ published \subseteq CommandRecord
    /\ held \in [Requests -> SUBSET A!G!Roles]

\* A todo that is to be changed is in a row.
KnownTodos ==
    /\ \A r \in Requests : req[r] # A!Idle =>
         /\ req[r].op = "create" => req[r].todo \in Todos
         /\ Changes(req[r].op) => req[r].todo \in Todos /\ todos[req[r].todo] # A!Idle
    /\ \A c \in published : c.op # "create" => todos[c.todo] # A!Idle

\* The role a request has seen is one its user had; what passed the checks of a
\* change still does, but for the todo being deleted meanwhile.
RequestOK(r) ==
    req[r] # A!Idle =>
      /\ req[r].seen # A!None => req[r].seen \in held[r]
      /\ req[r].at # "member" => held[r] # {}
      /\ Changes(req[r].op) /\ req[r].at = "accept" =>
           /\ todos[req[r].todo].group = req[r].group
           /\ \/ A!CanModerateMessages(req[r].seen)
              \/ todos[req[r].todo].author = req[r].user

\* A board that was sent shows todos of its group, with the buttons of its role.
ShownOK(r) ==
    shown[r].sent = TRUE =>
      /\ req[r] # A!Idle /\ req[r].at \in {"list", "open"}
      /\ \A t \in shown[r].todos :
           /\ todos[t] # A!Idle /\ todos[t].group = req[r].group
           /\ t \in shown[r].editable <=> A!canEdit(req[r].seen, req[r].user, t)

AInv ==
    /\ ATypes /\ KnownTodos
    /\ \A r \in Requests : RequestOK(r) /\ ShownOK(r)
    /\ A!ChangesWereAllowed

-----------------------------------------------------------------------------
(* Types.                                                                    *)

LEMMA RolesTyped ==
    ASSUME A!G!TypeOK, A!G!Next \/ UNCHANGED A!roleVars  PROVE A!G!TypeOK'
<1>1. CASE UNCHANGED A!roleVars
  BY <1>1 DEF A!roleVars, A!G!TypeOK
<1>2. ASSUME NEW u \in Users, NEW g \in Groups, A!G!Create(u, g)  PROVE A!G!TypeOK'
  BY <1>2 DEF A!G!Create, A!G!TypeOK, A!G!Roles
<1>3. ASSUME NEW u \in Users, NEW g \in Groups, NEW rl \in {"admin", "member"},
             A!G!Grant(u, g, rl)
      PROVE  A!G!TypeOK'
  BY <1>3 DEF A!G!Grant, A!G!TypeOK, A!G!Roles
<1>4. ASSUME NEW g \in live, A!G!Delete(g)  PROVE A!G!TypeOK'
  BY <1>4 DEF A!G!Delete, A!G!TypeOK, A!G!None
<1> QED  BY <1>1, <1>2, <1>3, <1>4 DEF A!G!Next

\* The fields of a request, and the role its user has.
LEMMA RequestFields ==
    ASSUME ATypes, NEW r \in Requests, req[r] # A!Idle
    PROVE  /\ req[r] \in RequestRecord
           /\ A!User(r) \in Users /\ A!Group(r) \in Groups
           /\ A!RoleNow(r) \in A!G!Roles \cup {A!None}
<1>1. req[r] \in RequestRecord
  BY DEF ATypes
<1>2. A!User(r) \in Users /\ A!Group(r) \in Groups
  BY <1>1 DEF RequestRecord, A!User, A!Group
<1>3. A!RoleNow(r) \in A!G!Roles \cup {A!None}
  BY <1>2 DEF ATypes, A!G!TypeOK, A!RoleNow, A!None, A!G!None
<1> QED  BY <1>1, <1>2, <1>3

\* No record of a request is the idle one.
LEMMA RecordIsBusy == \A q \in RequestRecord : q # A!Idle
  BY DEF RequestRecord, A!Idle, A!Commands, A!Pages

\* The roles a request remembers.
LEMMA HeldGrows ==
    ASSUME ATypes, A!G!TypeOK', A!Remember,
    req' \in [Requests -> RequestRecord \cup {A!Idle}]
    PROVE  /\ held' \in [Requests -> SUBSET A!G!Roles]
           /\ \A r \in Requests : req'[r] # A!Idle =>
                /\ held[r] \subseteq held'[r]
                /\ LET now == role'[req'[r].group][req'[r].user]
                   IN  now # A!None => now \in held'[r]
<1>1. A!None \notin A!G!Roles /\ A!None = A!G!None
  BY DEF A!None, A!G!None, A!G!Roles
<1>2. ASSUME NEW r \in Requests, req'[r] # A!Idle
      PROVE  /\ role'[req'[r].group][req'[r].user] \in A!G!Roles \cup {A!None}
             /\ held'[r] = (held[r] \cup {role'[req'[r].group][req'[r].user]}) \ {A!None}
             /\ held[r] \subseteq A!G!Roles
  <2>1. req'[r] \in RequestRecord
    BY <1>2
  <2>2. req'[r].group \in Groups /\ req'[r].user \in Users
    BY <2>1 DEF RequestRecord
  <2> QED  BY <1>1, <1>2, <2>2 DEF A!Remember, A!G!TypeOK, ATypes
<1>3. \A r \in Requests : req'[r] = A!Idle => held'[r] = {}
  BY DEF A!Remember
<1>4. \A r \in Requests : held'[r] \subseteq A!G!Roles
  BY <1>1, <1>2, <1>3
<1>5. held' = [r \in Requests |-> held'[r]]
  BY DEF A!Remember
<1> QED  BY <1>1, <1>2, <1>4, <1>5

-----------------------------------------------------------------------------
(* What the steps do to a request and to the rest.                           *)

\* A request is begun, or a request under way goes on or ends.
Begins(r) ==
    /\ req[r] = A!Idle
    /\ req'[r] \in RequestRecord
    /\ req'[r].seen = A!None /\ req'[r].at = "member"
    /\ req'[r].op = "create" => req'[r].todo \in Todos
    /\ Changes(req'[r].op) => req'[r].todo \in Todos /\ todos[req'[r].todo] # A!Idle

\* It has seen the role its user has now, and the todo it is allowed to change.
GoesOn(r) ==
    /\ req[r] # A!Idle /\ req[r].at \in {"member", "role", "todo"}
    /\ req'[r] \in RequestRecord
    /\ req'[r].op = req[r].op /\ req'[r].todo = req[r].todo
    /\ req'[r].user = req[r].user /\ req'[r].group = req[r].group
    /\ req'[r].seen = req[r].seen \/ req'[r].seen = A!RoleNow(r)
    /\ req[r].at = "member" => A!RoleNow(r) # A!None
    /\ req'[r].at = "accept" /\ Changes(req[r].op) =>
         /\ req'[r].seen = req[r].seen
         /\ A!MayChange(req[r].seen, A!User(r), A!Group(r), req[r].todo)

Others(r) == \A q \in Requests \ {r} : req'[q] = req[q] /\ shown'[q] = shown[q]

LEMMA BeginStep ==
    ASSUME ATypes, NEW r \in Requests, NEW u \in Users, NEW g \in Groups,
           NEW op \in A!Commands \cup A!Pages, NEW t \in Todos \cup {NoTodo},
           A!Begin(r, u, g, op, t)
    PROVE  Begins(r) /\ Others(r) /\ UNCHANGED <<shown, todos, published, A!roleVars>>
<1>1. req'[r] = [op |-> op, user |-> u, group |-> g, todo |-> t,
                    seen |-> A!None, at |-> "member"]
  BY DEF A!Begin, ATypes
<1>2. req'[r] \in RequestRecord
  BY <1>1 DEF RequestRecord
<1>3. op = "create" => t \in Todos
  BY DEF A!Begin, A!Pages
<1>4. Changes(op) => t \in Todos /\ todos[t] # A!Idle
  BY DEF A!Begin, A!Pages, Changes
<1> QED  BY <1>1, <1>2, <1>3, <1>4 DEF Begins, Others, A!Begin, ATypes

LEMMA CheckSteps ==
    ASSUME ATypes, NEW r \in Requests,
           \/ A!EnsureMemberRole(r) \/ A!GetTodoByID(r) \/ A!IsUserInGroup(r)
           \/ A!GetMembershipRole(r) \/ A!ListGroupsForUser(r)
    PROVE  \/ A!End(r)
           \/ GoesOn(r) /\ Others(r) /\ UNCHANGED shown
<1>1. req[r] # A!Idle /\ req[r] \in RequestRecord
  BY RequestFields DEF A!EnsureMemberRole, A!GetTodoByID, A!IsUserInGroup,
     A!GetMembershipRole,
         A!ListGroupsForUser
<1> SUFFICES ASSUME ~ A!End(r)
             PROVE  GoesOn(r) /\ Others(r) /\ UNCHANGED shown
  OBVIOUS
<1> DEFINE goes(s, a) == req' = [req EXCEPT ![r] = [req[r] EXCEPT !.seen = s, !.at = a]]
<1>2. ASSUME NEW s \in A!G!Roles \cup {A!None},
             NEW a \in {"role", "todo", "accept", "list", "open"},
             goes(s, a), s = req[r].seen \/ s = A!RoleNow(r),
             req[r].at \in {"member", "role", "todo"},
             req[r].at = "member" => A!RoleNow(r) # A!None,
             a = "accept" /\ Changes(req[r].op) =>
               /\ s = req[r].seen
               /\ A!MayChange(req[r].seen, A!User(r), A!Group(r), req[r].todo)
      PROVE  GoesOn(r) /\ (UNCHANGED shown => Others(r))
  <2>1. /\ req'[r] = [req[r] EXCEPT !.seen = s, !.at = a]
        /\ \A q \in Requests \ {r} : req'[q] = req[q]
    BY <1>2 DEF ATypes
  <2>2. /\ req'[r] \in RequestRecord
        /\ req'[r].op = req[r].op /\ req'[r].user = req[r].user
        /\ req'[r].group = req[r].group /\ req'[r].todo = req[r].todo
        /\ req'[r].seen = s /\ req'[r].at = a
    <3> DEFINE q == [req[r] EXCEPT !.seen = s, !.at = a]
    <3>1. /\ q \in RequestRecord
          /\ q.op = req[r].op /\ q.user = req[r].user
          /\ q.group = req[r].group /\ q.todo = req[r].todo
          /\ q.seen = s /\ q.at = a
      BY <1>1 DEF RequestRecord
    <3> QED  BY <2>1, <3>1
  <2> QED  BY <1>1, <1>2, <2>1, <2>2 DEF GoesOn, Others
<1>3. A!RoleNow(r) \in A!G!Roles \cup {A!None} /\ req[r].seen \in A!G!Roles \cup {A!None}
  BY <1>1, RequestFields DEF RequestRecord
<1>4. CASE A!EnsureMemberRole(r)
  <2> DEFINE a == IF req[r].op = "create" THEN "accept" ELSE "todo"
  <2>1. /\ UNCHANGED shown /\ goes(A!RoleNow(r), a)
        /\ A!RoleNow(r) # A!None /\ req[r].at = "member"
    BY <1>4, <1>1 DEF A!EnsureMemberRole, ATypes, RequestRecord
  <2> HIDE DEF goes
  <2> QED  BY <1>2, <1>3, <2>1 DEF Changes
<1>5. CASE A!GetTodoByID(r)
  <2>1. UNCHANGED shown /\ goes(req[r].seen, "accept") /\ req[r].at = "todo"
        /\ A!MayChange(req[r].seen, A!User(r), A!Group(r), req[r].todo)
    BY <1>5, <1>1 DEF A!GetTodoByID, A!Goto, ATypes, RequestRecord
  <2> HIDE DEF goes
  <2> QED  BY <1>2, <1>3, <2>1
<1>6. CASE A!IsUserInGroup(r)
  <2> DEFINE a == IF req[r].op = "/events" THEN "role" ELSE "list"
  <2>1. /\ UNCHANGED shown /\ goes(req[r].seen, a)
        /\ A!RoleNow(r) # A!None /\ req[r].at = "member"
    BY <1>6, <1>1 DEF A!IsUserInGroup, A!Goto, ATypes, RequestRecord
  <2> HIDE DEF goes
  <2> QED  BY <1>2, <1>3, <2>1
<1>7. CASE A!GetMembershipRole(r)
  <2>1. UNCHANGED shown /\ goes(A!RoleNow(r), "open") /\ req[r].at = "role"
    BY <1>7, <1>1 DEF A!GetMembershipRole, ATypes, RequestRecord
  <2> HIDE DEF goes
  <2> QED  BY <1>2, <1>3, <2>1
<1>8. CASE A!ListGroupsForUser(r)
  <2>1. /\ UNCHANGED shown /\ goes(A!RoleNow(r), "list")
        /\ A!RoleNow(r) # A!None /\ req[r].at = "member"
    BY <1>8, <1>1 DEF A!ListGroupsForUser, A!ActiveGroup, ATypes, RequestRecord
  <2> HIDE DEF goes
  <2> QED  BY <1>2, <1>3, <2>1
<1> QED  BY <1>4, <1>5, <1>6, <1>7, <1>8

\* A row keeps its group and its author.
RowsKept ==
    \A t \in Todos : todos[t] # A!Idle =>
        /\ todos'[t] # A!Idle
        /\ todos'[t].group = todos[t].group /\ todos'[t].author = todos[t].author

LEMMA ApplyStep ==
    ASSUME ATypes, KnownTodos, NEW c \in published, A!Apply(c)
    PROVE  todos' \in [Todos -> A!Rows \cup {A!Idle}] /\ RowsKept
<1>0. /\ c.op \in A!Commands /\ c.user \in Users /\ c.group \in Groups /\ c.todo \in Todos
      /\ c.op # "create" => todos[c.todo] # A!Idle
  BY DEF ATypes, CommandRecord, KnownTodos
<1>1. CASE c.op = "create" /\ todos[c.todo] = A!Idle
  <2> DEFINE row == [author |-> c.user, group |-> c.group, deleted |-> FALSE]
  <2>1. row \in A!Rows
    BY <1>0 DEF A!Rows
  <2>2. todos' = [todos EXCEPT ![c.todo] = row]
    BY <1>1 DEF A!Apply
  <2> HIDE DEF row
  <2> QED  BY <1>0, <1>1, <2>1, <2>2 DEF ATypes, RowsKept
<1>2. CASE c.op = "delete"
  <2> DEFINE row == [todos[c.todo] EXCEPT !.deleted = TRUE]
  <2>1. todos[c.todo] \in A!Rows
    BY <1>0, <1>2 DEF ATypes
  <2>2. /\ row \in A!Rows /\ row # A!Idle
        /\ row.group = todos[c.todo].group /\ row.author = todos[c.todo].author
    BY <2>1 DEF A!Rows, A!Idle
  <2>3. todos' = [todos EXCEPT ![c.todo] = row]
    BY <1>2 DEF A!Apply
  <2> HIDE DEF row
  <2> QED  BY <1>0, <1>2, <2>2, <2>3 DEF ATypes, RowsKept
<1>3. CASE ~ (c.op = "create" /\ todos[c.todo] = A!Idle) /\ c.op # "delete"
  <2>1. todos' = todos
    BY <1>3 DEF A!Apply
  <2> QED  BY <2>1 DEF ATypes, RowsKept
<1> QED  BY <1>1, <1>2, <1>3

\* The ways a request or its page may change: the rest stays as it is.
Ends(r) == req'[r] = A!Idle /\ shown'[r] = A!Nothing
Sends(r) ==
    /\ req[r] # A!Idle /\ req[r].at \in {"list", "open"}
    /\ req'[r] = req[r] /\ shown'[r] = A!Board(r)
Moves(r) ==
    /\ Others(r) /\ UNCHANGED <<A!roleVars, todos>>
    /\ req' \in [Requests -> RequestRecord \cup {A!Idle}]
    /\ shown' = [q \in Requests |-> shown'[q]]
    /\ \/ (Begins(r) \/ GoesOn(r)) /\ shown'[r] = shown[r]
       \/ Sends(r) \/ Ends(r)

LEMMA EndMoves ==
    ASSUME ATypes, NEW r \in Requests, A!End(r), UNCHANGED <<A!roleVars, todos>>
    PROVE  Moves(r)
<1>1. Others(r) /\ Ends(r)
  BY DEF A!End, Others, Ends, ATypes
<1>2. req' \in [Requests -> RequestRecord \cup {A!Idle}]
  BY DEF A!End, ATypes
<1>3. shown' = [q \in Requests |-> shown'[q]]
  BY DEF A!End, ATypes
<1> QED  BY <1>1, <1>2, <1>3 DEF Moves

LEMMA RequestSteps ==
    ASSUME ATypes, A!Next
    PROVE  \/ A!G!Next /\ UNCHANGED <<todos, req, shown, published>>
           \/ \E r \in Requests : Moves(r) /\ (published' = published \/ A!Accept(r))
           \/ \E c \in published : A!Apply(c)
<1>1. CASE A!RolesChange
  BY <1>1 DEF A!RolesChange
<1>2. CASE \E c \in published : A!Apply(c)
  BY <1>2
<1>3. ASSUME NEW r \in Requests, NEW u \in Users, NEW g \in Groups,
             NEW op \in A!Commands \cup A!Pages, NEW t \in Todos \cup {NoTodo},
             A!Begin(r, u, g, op, t)
      PROVE  Moves(r) /\ published' = published
  <2>1. Begins(r) /\ Others(r) /\ UNCHANGED <<shown, todos, published, A!roleVars>>
    BY <1>3, BeginStep
  <2>2. req' \in [Requests -> RequestRecord \cup {A!Idle}]
    <3>1. req' = [q \in Requests |-> req'[q]]
      BY <1>3 DEF A!Begin, ATypes
    <3> QED  BY <2>1, <3>1 DEF Others, Begins, ATypes
  <2> QED  BY <2>1, <2>2 DEF Moves, ATypes
<1>4. ASSUME NEW r \in Requests,
             \/ A!EnsureMemberRole(r) \/ A!GetTodoByID(r) \/ A!IsUserInGroup(r)
             \/ A!GetMembershipRole(r) \/ A!ListGroupsForUser(r)
      PROVE  Moves(r) /\ published' = published
  <2>1. UNCHANGED <<A!roleVars, todos, published>>
    BY <1>4 DEF A!EnsureMemberRole, A!GetTodoByID, A!IsUserInGroup, A!GetMembershipRole,
           A!ListGroupsForUser
  <2>2. CASE A!End(r)
    BY <2>1, <2>2, EndMoves
  <2>3. CASE GoesOn(r) /\ Others(r) /\ UNCHANGED shown
    <3>1. req' = [q \in Requests |-> req'[q]]
      BY <1>4 DEF A!EnsureMemberRole, A!GetTodoByID, A!IsUserInGroup, A!GetMembershipRole,
             A!ListGroupsForUser, A!End, A!Goto, ATypes
    <3>2. req' \in [Requests -> RequestRecord \cup {A!Idle}]
      BY <2>3, <3>1 DEF Others, GoesOn, ATypes
    <3> QED  BY <2>1, <2>3, <3>2 DEF Moves, ATypes
  <2> QED  BY <1>4, <2>2, <2>3, CheckSteps
<1>5. ASSUME NEW r \in Requests, A!SendPage(r) \/ A!SendPatch(r)
      PROVE  Moves(r) /\ published' = published
  <2>1. shown' = [shown EXCEPT ![r] = A!Board(r)]
        /\ req[r] # A!Idle /\ req[r].at \in {"list", "open"}
        /\ UNCHANGED <<A!roleVars, todos, req, published>>
    BY <1>5 DEF A!SendPage, A!SendPatch
  <2>2. Others(r) /\ Sends(r) /\ shown' = [q \in Requests |-> shown'[q]]
    BY <2>1 DEF Others, Sends, ATypes
  <2> QED  BY <2>1, <2>2 DEF Moves, ATypes
<1>6. ASSUME NEW r \in Requests, A!Close(r) \/ A!Fail(r)
      PROVE  Moves(r) /\ published' = published
  BY <1>6, EndMoves DEF A!Close, A!Fail
<1>7. ASSUME NEW r \in Requests, A!Accept(r)  PROVE Moves(r)
  BY <1>7, EndMoves DEF A!Accept
<1> QED  BY <1>1, <1>2, <1>3, <1>4, <1>5, <1>6, <1>7 DEF A!Next

-----------------------------------------------------------------------------
(* The invariant.                                                            *)

\* Who has not moved keeps what it has, as long as the rows keep their group.
LEMMA Untouched ==
    ASSUME ATypes, KnownTodos, RowsKept, NEW q \in Requests, RequestOK(q), ShownOK(q),
           req'[q] = req[q], shown'[q] = shown[q],
           req[q] # A!Idle => held[q] \subseteq held'[q]
    PROVE  RequestOK(q)' /\ ShownOK(q)'
<1>1. RequestOK(q)'
  <2> SUFFICES ASSUME req[q] # A!Idle
               PROVE  RequestOK(q)'
    BY DEF RequestOK
  <2>1. Changes(req[q].op) => /\ req[q].todo \in Todos /\ todos[req[q].todo] # A!Idle
                              /\ todos'[req[q].todo].group = todos[req[q].todo].group
                              /\ todos'[req[q].todo].author = todos[req[q].todo].author
    BY DEF KnownTodos, RowsKept
  <2> QED  BY <2>1 DEF RequestOK, A!CanModerateMessages
<1>2. ShownOK(q)'
  <2> SUFFICES ASSUME shown[q].sent = TRUE
               PROVE  /\ req[q] # A!Idle /\ req[q].at \in {"list", "open"}
                      /\ \A t \in shown[q].todos :
                           /\ todos'[t] # A!Idle /\ todos'[t].group = req[q].group
                           /\ t \in shown[q].editable
                                <=> (A!canEdit(req[q].seen, req[q].user, t))'
    BY DEF ShownOK, A!canEdit
  <2>1. req[q] # A!Idle /\ req[q].at \in {"list", "open"}
    BY DEF ShownOK
  <2>2. ASSUME NEW t \in shown[q].todos
        PROVE  /\ todos'[t] # A!Idle /\ todos'[t].group = req[q].group
               /\ todos'[t].author = todos[t].author
               /\ t \in shown[q].editable <=> A!canEdit(req[q].seen, req[q].user, t)
    <3>1. t \in Todos
      BY DEF ATypes, BoardRecord
    <3> QED  BY <3>1 DEF ShownOK, RowsKept
  <2> QED  BY <2>1, <2>2 DEF A!canEdit
<1> QED  BY <1>1, <1>2

LEMMA BoardTyped ==
    ASSUME NEW r \in Requests
    PROVE  /\ A!Board(r) \in BoardRecord
           /\ A!Board(r).sent = TRUE
           /\ \A t \in A!Board(r).todos :
                /\ t \in Todos /\ todos[t] # A!Idle /\ todos[t].group = req[r].group
                /\ t \in A!Board(r).editable <=> A!canEdit(req[r].seen, req[r].user, t)
<1> DEFINE list == { t \in Todos : A!Live(t) /\ todos[t].group = A!Group(r) }
           mine == { t \in list : A!canEdit(req[r].seen, A!User(r), t) }
<1>1. A!Board(r) = [todos |-> list, sent |-> TRUE, editable |-> mine]
  BY DEF A!Board
<1>2. list \subseteq Todos /\ mine \subseteq list
  OBVIOUS
<1>3. \A t \in list : /\ t \in Todos /\ todos[t] # A!Idle /\ todos[t].group = req[r].group
                      /\ t \in mine <=> A!canEdit(req[r].seen, req[r].user, t)
  BY DEF A!Live, A!User, A!Group
<1> HIDE DEF list, mine
<1>4. A!Board(r) \in BoardRecord
  BY <1>1, <1>2 DEF BoardRecord
<1> QED  BY <1>1, <1>3, <1>4

\* What is accepted.
Accepted(r) ==
    [op |-> req[r].op, user |-> A!User(r), group |-> A!Group(r), todo |-> req[r].todo,
     held |-> held[r]]

LEMMA AcceptedCommand ==
    ASSUME ATypes, KnownTodos, NEW r \in Requests, A!Accept(r)
    PROVE  /\ published' = published \cup {Accepted(r)}
           /\ Accepted(r) \in CommandRecord
           /\ req[r] # A!Idle /\ req[r].at = "accept" /\ req'[r] = A!Idle
           /\ req[r].op = "create" \/ Changes(req[r].op)
<1>1. req[r] # A!Idle /\ req[r].op \in A!Commands /\ req[r].at = "accept"
      /\ published' = published \cup {Accepted(r)} /\ req'[r] = A!Idle
  BY DEF A!Accept, Accepted, A!End, ATypes
<1>2. req[r].op = "create" \/ Changes(req[r].op)
  BY <1>1 DEF A!Commands, Changes
<1>3. req[r].todo \in Todos
  BY <1>1, <1>2 DEF KnownTodos
<1>4. Accepted(r) \in CommandRecord
  BY <1>1, <1>3, RequestFields DEF Accepted, CommandRecord, ATypes
<1> QED  BY <1>1, <1>2, <1>4

LEMMA MovesTypes ==
    ASSUME AInv, A!Remember, NEW r \in Requests, Moves(r),
           published' = published \/ A!Accept(r)
    PROVE  ATypes'
<1>1. A!G!TypeOK' /\ todos' \in [Todos -> A!Rows \cup {A!Idle}]
  BY RolesTyped DEF AInv, ATypes, Moves
<1>2. req' \in [Requests -> RequestRecord \cup {A!Idle}]
  BY DEF Moves
<1>3. shown' \in [Requests -> BoardRecord]
  <2>1. A!Nothing \in BoardRecord
    BY DEF A!Nothing, BoardRecord
  <2>2. shown'[r] \in BoardRecord
    BY <2>1, BoardTyped DEF AInv, ATypes, Moves, Sends, Ends
  <2> QED  BY <2>2 DEF AInv, ATypes, Moves, Others
<1>4. published' \subseteq CommandRecord
  BY AcceptedCommand DEF AInv, ATypes
<1>5. held' \in [Requests -> SUBSET A!G!Roles]
  BY <1>1, <1>2, HeldGrows DEF AInv
<1> QED  BY <1>1, <1>2, <1>3, <1>4, <1>5 DEF ATypes

LEMMA MovesKnown ==
    ASSUME AInv, NEW r \in Requests, Moves(r), published' = published \/ A!Accept(r)
    PROVE  KnownTodos'
<1> USE DEF AInv
<1>1. todos' = todos /\ \A q \in Requests \ {r} : req'[q] = req[q]
  BY DEF Moves, Others
<1>2. \/ req'[r] = A!Idle
      \/ /\ req[r] # A!Idle
         /\ req'[r].op = req[r].op /\ req'[r].todo = req[r].todo
      \/ Begins(r)
  BY DEF Moves, Ends, Sends, GoesOn
<1>3. ASSUME NEW q \in Requests, req'[q] # A!Idle
      PROVE  /\ req'[q].op = "create" => req'[q].todo \in Todos
             /\ Changes(req'[q].op) =>
                  req'[q].todo \in Todos /\ todos[req'[q].todo] # A!Idle
  BY <1>1, <1>2, <1>3 DEF KnownTodos, Begins
<1>4. \A c \in published' : c.op # "create" => todos[c.todo] # A!Idle
  <2>1. CASE A!Accept(r)
    <3>1. Accepted(r).op # "create" => todos[Accepted(r).todo] # A!Idle
      BY <2>1, AcceptedCommand DEF KnownTodos, Accepted
    <3> QED  BY <2>1, <3>1, AcceptedCommand DEF KnownTodos
  <2> QED  BY <2>1 DEF KnownTodos
<1> QED  BY <1>1, <1>3, <1>4 DEF KnownTodos

LEMMA MovesAllowed ==
    ASSUME AInv, NEW r \in Requests, Moves(r), published' = published \/ A!Accept(r)
    PROVE  A!ChangesWereAllowed'
<1>1. todos' = todos
  BY DEF Moves
<1>2. CASE A!Accept(r)
  <2>1. Accepted(r).op # "create" =>
          /\ todos[Accepted(r).todo].group = Accepted(r).group
          /\ \/ todos[Accepted(r).todo].author = Accepted(r).user
             \/ Accepted(r).held \cap {"owner", "admin"} # {}
    BY <1>2, AcceptedCommand DEF AInv, RequestOK, Accepted, A!User, A!Group,
         A!CanModerateMessages, A!None
  <2> QED  BY <1>1, <1>2, <2>1, AcceptedCommand DEF AInv, A!ChangesWereAllowed
<1> QED  BY <1>1, <1>2 DEF AInv, A!ChangesWereAllowed

LEMMA MovesChecks ==
    ASSUME AInv, A!Remember, NEW r \in Requests, Moves(r),
           published' = published \/ A!Accept(r)
    PROVE  \A q \in Requests : RequestOK(q)' /\ ShownOK(q)'
<1>1. ATypes /\ KnownTodos /\ RequestOK(r) /\ ShownOK(r)
  BY DEF AInv
<1>2. /\ req' \in [Requests -> RequestRecord \cup {A!Idle}]
      /\ \A q \in Requests : req'[q] # A!Idle =>
           /\ held[q] \subseteq held'[q]
           /\ LET now == role'[req'[q].group][req'[q].user]
              IN  now # A!None => now \in held'[q]
  <2>1. ATypes' /\ req' \in [Requests -> RequestRecord \cup {A!Idle}]
    BY MovesTypes DEF Moves
  <2>2. A!G!TypeOK'
    BY <2>1 DEF ATypes
  <2> QED  BY <1>1, <2>1, <2>2, HeldGrows
<1>3. todos' = todos /\ role' = role
  BY DEF Moves, A!roleVars
<1>4. ASSUME NEW q \in Requests, q # r  PROVE RequestOK(q)' /\ ShownOK(q)'
  <2>1. req'[q] = req[q] /\ shown'[q] = shown[q] /\ RowsKept
    BY <1>3, <1>4 DEF Moves, Others, RowsKept
  <2>2. RequestOK(q) /\ ShownOK(q)
    BY DEF AInv
  <2> QED  BY <1>1, <1>2, <2>1, <2>2, Untouched
<1>5. ASSUME Begins(r) /\ shown'[r] = shown[r]
      PROVE  RequestOK(r)' /\ ShownOK(r)'
  <2>1. RequestOK(r)'
    BY <1>5 DEF Begins, RequestOK
  <2>2. ShownOK(r)'
    BY <1>1, <1>5 DEF Begins, ShownOK
  <2> QED  BY <2>1, <2>2
<1>6. ASSUME GoesOn(r) /\ shown'[r] = shown[r]
      PROVE  RequestOK(r)' /\ ShownOK(r)'
  <2>1. req[r] # A!Idle /\ req'[r] # A!Idle
    BY <1>6, RecordIsBusy DEF GoesOn
  <2>2. A!RoleNow(r) # A!None => A!RoleNow(r) \in held'[r]
    BY <1>2, <1>3, <1>6, <2>1 DEF A!RoleNow, A!Group, A!User, GoesOn
  <2>3. req'[r].seen # A!None => req'[r].seen \in held'[r]
    BY <1>1, <1>2, <1>6, <2>1, <2>2 DEF GoesOn, RequestOK
  <2>4. held'[r] # {}
    BY <1>1, <1>2, <1>6, <2>1, <2>2 DEF GoesOn, RequestOK
  <2>5. Changes(req'[r].op) /\ req'[r].at = "accept" =>
          /\ todos'[req'[r].todo].group = req'[r].group
          /\ \/ A!CanModerateMessages(req'[r].seen)
             \/ todos'[req'[r].todo].author = req'[r].user
    BY <1>3, <1>6 DEF GoesOn, A!MayChange, A!User, A!Group
  <2>6. RequestOK(r)'
    BY <2>3, <2>4, <2>5 DEF RequestOK, A!CanModerateMessages
  <2>7. ShownOK(r)'
    BY <1>1, <1>6 DEF GoesOn, ShownOK
  <2> QED  BY <2>6, <2>7
<1>7. ASSUME Sends(r)  PROVE  RequestOK(r)' /\ ShownOK(r)'
  <2>1. RequestOK(r)'
    BY <1>1, <1>2, <1>3, <1>7 DEF Sends, RequestOK, A!CanModerateMessages
  <2>2. ShownOK(r)'
    BY <1>3, <1>7, BoardTyped, ZenonT(40) DEF Sends, ShownOK, A!canEdit
  <2> QED  BY <2>1, <2>2
<1>8. ASSUME Ends(r)  PROVE  RequestOK(r)' /\ ShownOK(r)'
  BY <1>8 DEF Ends, RequestOK, ShownOK, A!Nothing
<1> QED  BY <1>4, <1>5, <1>6, <1>7, <1>8 DEF Moves

LEMMA RolesInv ==
    ASSUME AInv, A!Remember, A!G!Next, UNCHANGED <<todos, req, shown, published>>
    PROVE  AInv'
<1>1. ATypes /\ KnownTodos /\ A!G!TypeOK'
  BY RolesTyped DEF AInv, ATypes
<1>2. /\ held' \in [Requests -> SUBSET A!G!Roles]
      /\ \A q \in Requests : req[q] # A!Idle => held[q] \subseteq held'[q]
  BY <1>1, HeldGrows DEF ATypes
<1>3. ATypes'
  BY <1>1, <1>2 DEF ATypes
<1>4. KnownTodos'
  BY <1>1 DEF KnownTodos
<1>5. RowsKept
  BY DEF RowsKept
<1>6. \A q \in Requests : RequestOK(q)' /\ ShownOK(q)'
  BY <1>1, <1>2, <1>5, Untouched DEF AInv
<1>7. A!ChangesWereAllowed'
  BY DEF AInv, A!ChangesWereAllowed
<1> QED  BY <1>3, <1>4, <1>6, <1>7 DEF AInv

LEMMA ApplyInv ==
    ASSUME AInv, A!Remember, NEW c \in published, A!Apply(c)
    PROVE  AInv'
<1>1. ATypes /\ KnownTodos
  BY DEF AInv
<1>2. /\ published' = published \ {c}
      /\ UNCHANGED <<A!roleVars, req, shown>>
  BY DEF A!Apply
<1>3. todos' \in [Todos -> A!Rows \cup {A!Idle}] /\ RowsKept
  BY <1>1, ApplyStep
<1>4. A!G!TypeOK'
  BY <1>1, <1>2, RolesTyped DEF ATypes
<1>5. /\ held' \in [Requests -> SUBSET A!G!Roles]
      /\ \A q \in Requests : req[q] # A!Idle => held[q] \subseteq held'[q]
  BY <1>1, <1>2, <1>4, HeldGrows DEF ATypes
<1>6. ATypes'
  BY <1>1, <1>2, <1>3, <1>4, <1>5 DEF ATypes
<1>7. \A d \in published : d.todo \in Todos
  BY <1>1 DEF ATypes, CommandRecord
<1>8. KnownTodos'
  <2>1. ASSUME NEW q \in Requests, req[q] # A!Idle, Changes(req[q].op)
        PROVE  req[q].todo \in Todos /\ todos'[req[q].todo] # A!Idle
    BY <1>1, <1>3, <2>1 DEF KnownTodos, RowsKept
  <2>2. ASSUME NEW d \in published, d.op # "create"
        PROVE  todos'[d.todo] # A!Idle
    BY <1>1, <1>3, <1>7, <2>2 DEF KnownTodos, RowsKept
  <2> QED  BY <1>1, <1>2, <2>1, <2>2 DEF KnownTodos
<1>9. \A q \in Requests : RequestOK(q)' /\ ShownOK(q)'
  BY <1>1, <1>2, <1>3, <1>5, Untouched DEF AInv
<1>10. A!ChangesWereAllowed'
  <2> SUFFICES ASSUME NEW d \in published \ {c}, d.op # "create"
               PROVE  /\ todos'[d.todo].group = d.group
                      /\ todos'[d.todo].author = d.user \/ d.held \cap {"owner", "admin"} # {}
    BY <1>2 DEF A!ChangesWereAllowed
  <2>1. todos[d.todo] # A!Idle /\ d.todo \in Todos
    BY <1>1, <1>7 DEF KnownTodos
  <2> QED  BY <1>3, <2>1 DEF RowsKept, AInv, A!ChangesWereAllowed
<1> QED  BY <1>6, <1>8, <1>9, <1>10 DEF AInv

LEMMA AccessInvariance == A!Spec => []AInv
<1>1. A!Init => AInv
  <2> SUFFICES ASSUME A!Init  PROVE AInv
    OBVIOUS
  <2>1. A!G!TypeOK
    BY DEF A!Init, A!G!Init, A!G!TypeOK
  <2>2. ATypes
    BY <2>1 DEF A!Init, ATypes, A!Nothing, BoardRecord
  <2>3. KnownTodos
    BY DEF A!Init, KnownTodos
  <2>4. \A r \in Requests : RequestOK(r) /\ ShownOK(r)
    BY DEF A!Init, RequestOK, ShownOK, A!Nothing
  <2>5. A!ChangesWereAllowed
    BY DEF A!Init, A!ChangesWereAllowed
  <2> QED  BY <2>2, <2>3, <2>4, <2>5 DEF AInv
<1>2. AInv /\ [A!Next]_A!vars => AInv'
  <2> SUFFICES ASSUME AInv, [A!Next]_A!vars  PROVE AInv'
    OBVIOUS
  <2>1. CASE UNCHANGED A!vars
    <3>1. RowsKept
      BY <2>1 DEF A!vars, RowsKept
    <3>2. ATypes'
      BY <2>1, RolesTyped DEF A!vars, AInv, ATypes
    <3>3. KnownTodos'
      BY <2>1 DEF A!vars, AInv, KnownTodos
    <3>4. \A q \in Requests : RequestOK(q)' /\ ShownOK(q)'
      BY <2>1, <3>1, Untouched DEF A!vars, AInv
    <3>5. A!ChangesWereAllowed'
      BY <2>1 DEF A!vars, AInv, A!ChangesWereAllowed
    <3> QED  BY <3>2, <3>3, <3>4, <3>5 DEF AInv
  <2>2. ASSUME A!Next  PROVE AInv'
    <3>1. ATypes /\ A!Remember
      BY <2>2 DEF AInv, A!Next
    <3>2. CASE A!G!Next /\ UNCHANGED <<todos, req, shown, published>>
      BY <3>1, <3>2, RolesInv
    <3>3. ASSUME NEW r \in Requests, Moves(r), published' = published \/ A!Accept(r)
          PROVE  AInv'
      BY <3>1, <3>3, MovesTypes, MovesKnown, MovesChecks, MovesAllowed DEF AInv
    <3>4. ASSUME NEW c \in published, A!Apply(c)  PROVE AInv'
      BY <3>1, <3>4, ApplyInv
    <3> QED  BY <2>2, <3>1, <3>2, <3>3, <3>4, RequestSteps
  <2> QED  BY <2>1, <2>2
<1> QED  BY <1>1, <1>2, PTL DEF A!Spec

\* Rows, requests and boards keep their types; buttons are only at todos of the board.
THEOREM AccessTypesCorrect == A!Spec => []A!TypeOK
<1>1. AInv => A!TypeOK
  <2> SUFFICES ASSUME AInv  PROVE A!TypeOK
    OBVIOUS
  <2>1. A!G!TypeOK /\ held \in [Requests -> SUBSET A!G!Roles]
    BY DEF AInv, ATypes
  <2>2. \A t \in Todos : todos[t] = A!Idle \/ todos[t] \in A!Rows
    BY DEF AInv, ATypes
  <2>3. \A r \in Requests : req[r] # A!Idle => req[r] \in RequestRecord
    BY DEF AInv, ATypes
  <2>4. \A c \in published : c.op \in A!Commands
    BY DEF AInv, ATypes, CommandRecord
  <2>5. \A r \in Requests : shown[r].editable \subseteq shown[r].todos
    BY DEF AInv, ATypes, BoardRecord
  <2> QED  BY <2>1, <2>2, <2>3, <2>4, <2>5 DEF A!TypeOK, RequestRecord
<1> QED  BY AccessInvariance, <1>1, PTL

\* A command to change a todo was accepted from its author, or from somebody who
\* had moderated the todo's own group while the request ran, however the roles,
\* the todos and the other requests went on between its statements.
THEOREM ChangesAreAllowed == A!Spec => []ChangesWereAllowed
<1>1. AInv => ChangesWereAllowed
  BY DEF AInv, ChangesWereAllowed
<1> QED  BY AccessInvariance, <1>1, PTL

\* Whoever is shown a board was a member of its group while the request ran.
THEOREM ReadersAreMembers == A!Spec => []ReadersWereMembers
<1>1. AInv => ReadersWereMembers
  <2> SUFFICES ASSUME AInv, NEW r \in Requests, shown[r].sent
               PROVE  held[r] # {}
    BY DEF ReadersWereMembers, A!ReadersWereMembers
  <2>1. shown[r].sent = TRUE
    BY DEF AInv, ATypes, BoardRecord
  <2> QED  BY <2>1 DEF AInv, ShownOK, RequestOK
<1> QED  BY AccessInvariance, <1>1, PTL

\* As long as the user's role is the one the board was made with, the buttons are
\* at exactly the todos the API lets it change.
THEOREM ButtonsAgree == A!Spec => []ButtonsWork
<1>1. AInv => ButtonsWork
  <2> SUFFICES ASSUME AInv, NEW r \in Requests, shown[r].sent,
                      A!RoleNow(r) = req[r].seen, NEW t \in shown[r].todos, A!Live(t)
               PROVE  t \in shown[r].editable
                        <=> A!MayChange(A!RoleNow(r), A!User(r), A!Group(r), t)
    BY DEF ButtonsWork, A!ButtonsWork
  <2>1. shown[r].sent = TRUE
    BY DEF AInv, ATypes, BoardRecord
  <2>2. todos[t].group = A!Group(r) 
        /\ (t \in shown[r].editable <=> A!canEdit(req[r].seen, A!User(r), t))
    BY <2>1 DEF AInv, ShownOK, A!Group, A!User
  <2> QED  BY <2>2 DEF A!canEdit, A!MayChange, A!CanModerateMessages
<1> QED  BY AccessInvariance, <1>1, PTL

-----------------------------------------------------------------------------
(* The rate limiter.                                                         *)

\* A waiting request has read the clock, and not more than MaxLag ago.
LagOK ==
    \A h \in Handlers :
        call[h] # Idle => call[h].now <= clock /\ clock <= call[h].now + MaxLag

\* The map differs from the complete one only in entries that were swept, and
\* these began more than two windows ago.
SweptIsOver ==
    \A c \in Clients :
        \/ clients[c] = full[c]
        \/ /\ clients[c] = NoWindow
           /\ full[c] # NoWindow
           /\ full[c].windowStart + 2 * Window < clock

Inv == TypeOK /\ LagOK /\ SweptIsOver

USE ParameterAssumption, NoWindowAssumption, LagAssumption

\* The positions of a list of ages.
LEMMA LastPositions ==
    /\ Burst \in Nat \ {0} /\ Burst + 1 \in Last
    /\ \A i \in Last : i \in Nat /\ i >= 1 /\ i <= Burst + 1
    /\ \A i \in Last : i # 1 => i - 1 \in Last
<1>1. Burst \in Nat \ {0}
  BY DEF Burst
<1> QED  BY <1>1 DEF Last

LEMMA OlderTyped ==
    ASSUME NEW last \in [Last -> 0 .. Window]
    PROVE  Older(last) \in [Last -> 0 .. Window]
  BY DEF Older

LEMMA PassingTyped ==
    ASSUME NEW last \in [Last -> 0 .. Window]
    PROVE  Passing(last) \in [Last -> 0 .. Window]
<1>1. \A i \in Last : i # 1 => last[i - 1] \in 0 .. Window
  BY LastPositions
<1>2. \A i \in Last : (IF i = 1 THEN 0 ELSE last[i - 1]) \in 0 .. Window
  BY <1>1
<1> QED  BY <1>2 DEF Passing

LEMMA ChargedIsState ==
    ASSUME NEW w \in State \cup {NoWindow}, NEW now \in Nat
    PROVE  /\ Charged(w, now) \in State
           /\ Renews(w, now) => Charged(w, now).windowStart = now
  BY DEF Charged, Renews, State

\* An entry that began more than two windows ago renews at any time that may
\* still come to Allow.
LEMMA OldEntryRenews ==
    ASSUME NEW w \in State, NEW t \in Nat, NEW now \in Nat,
           w.windowStart + 2 * Window < t, t <= now + MaxLag
    PROVE  Renews(w, now)
  BY DEF Renews, State

LEMMA WaitingCall ==
    ASSUME TypeOK, NEW h \in Handlers, call[h] # Idle
    PROVE  call[h] \in Call /\ call[h].client \in Clients /\ call[h].now \in Nat
  BY DEF TypeOK, Call, Idle

LEMMA InitInv == Init => Inv
  <1> SUFFICES ASSUME Init PROVE Inv
    OBVIOUS
  <1>1. TypeOK
    BY LastPositions DEF Init, TypeOK
  <1>2. LagOK /\ SweptIsOver
    BY DEF Init, LagOK, SweptIsOver
  <1> QED
    BY <1>1, <1>2 DEF Inv

LEMMA ArriveInv ==
    ASSUME Inv, NEW h \in Handlers, NEW c \in Clients, Arrive(h, c)
    PROVE  Inv'
  <1>1. TypeOK'
    BY DEF Inv, TypeOK, Arrive, Call
  <1>2. LagOK'
    BY DEF Inv, TypeOK, LagOK, Arrive
  <1>3. SweptIsOver'
    BY DEF Inv, SweptIsOver, Arrive
  <1> QED
    BY <1>1, <1>2, <1>3 DEF Inv

LEMMA TickInv ==
    ASSUME Inv, Tick
    PROVE  Inv'
  <1>1. TypeOK'
    <2>1. clock' \in 0 .. MaxClock
      BY DEF Inv, TypeOK, Tick
    <2>2. ages' \in [Clients -> [Last -> 0 .. Window]]
      BY OlderTyped DEF Inv, TypeOK, Tick
    <2> QED
      BY <2>1, <2>2 DEF Inv, TypeOK, Tick
  <1>2. LagOK'
    <2> SUFFICES ASSUME NEW h \in Handlers, call[h] # Idle
                 PROVE  call[h].now <= clock + 1 /\ clock + 1 <= call[h].now + MaxLag
      BY DEF LagOK, Tick
    <2>1. call[h].now \in Nat /\ clock \in Nat
      BY WaitingCall DEF Inv, TypeOK
    <2> QED
      BY <2>1 DEF Inv, LagOK, Tick
  <1>3. SweptIsOver'
    <2> SUFFICES ASSUME NEW c \in Clients,
                        clients[c] = NoWindow, full[c] # NoWindow,
                        full[c].windowStart + 2 * Window < clock
                 PROVE  full[c].windowStart + 2 * Window < clock + 1
      BY DEF SweptIsOver, Inv, Tick
    <2>1. full[c] \in State /\ clock \in Nat
      BY DEF Inv, TypeOK
    <2> QED
      BY <2>1 DEF State
  <1> QED
    BY <1>1, <1>2, <1>3 DEF Inv

LEMMA AllowInv ==
    ASSUME Inv, NEW h \in Handlers, Allow(h)
    PROVE  Inv'
  <1> DEFINE c == call[h].client
             now == call[h].now
             map == [clients EXCEPT ![c] = Charged(@, now)]
  <1>1. /\ c \in Clients /\ now \in Nat /\ clock \in Nat
        /\ now <= clock /\ clock <= now + MaxLag
    BY WaitingCall DEF Inv, TypeOK, LagOK, Allow
  <1>2. /\ clients' = IF Renews(clients[c], now) THEN Swept(map, now) ELSE map
        /\ full' = [full EXCEPT ![c] = Charged(@, now)]
        /\ call' = [call EXCEPT ![h] = Idle]
        /\ clock' = clock
    BY DEF Allow
  <1>3. /\ clients \in [Clients -> State \cup {NoWindow}]
      /\ full \in [Clients -> State \cup {NoWindow}]
    BY DEF Inv, TypeOK
  <1>4. Charged(clients[c], now) \in State /\ Charged(full[c], now) \in State
    BY <1>1, <1>3, ChargedIsState
  <1>5. map \in [Clients -> State \cup {NoWindow}]
    BY <1>1, <1>3, <1>4
  <1>6. clients' \in [Clients -> State \cup {NoWindow}]
    BY <1>2, <1>5 DEF Swept
  \* What the sweep leaves of an entry.
  <1>7. \A d \in Clients :
           \/ clients'[d] = map[d]
           \/ clients'[d] = NoWindow /\ map[d] # NoWindow /\ Stale(map[d], now)
    BY <1>2, <1>5 DEF Swept, Entries
  <1>8. TypeOK'
    <2>1. full' \in [Clients -> State \cup {NoWindow}]
      BY <1>2, <1>3, <1>4
    <2>2. call' \in [Handlers -> {Idle} \cup Call]
      BY <1>2 DEF Inv, TypeOK
    <2>3. ages' \in [Clients -> [Last -> 0 .. Window]]
      <3>1. ages \in [Clients -> [Last -> 0 .. Window]]
        BY DEF Inv, TypeOK
      <3>2. Passing(ages[c]) \in [Last -> 0 .. Window]
        BY <1>1, <3>1, PassingTyped
      <3>3. [ages EXCEPT ![c] = Passing(@)] \in [Clients -> [Last -> 0 .. Window]]
        BY <1>1, <3>1, <3>2
      <3> QED
        BY <3>1, <3>3 DEF Allow
    <2> QED
      BY <1>2, <1>6, <2>1, <2>2, <2>3 DEF Inv, TypeOK
  <1>9. LagOK'
    BY <1>2 DEF Inv, TypeOK, LagOK
  <1>10. SweptIsOver'
    <2> SUFFICES ASSUME NEW d \in Clients
                 PROVE  \/ clients'[d] = full'[d]
                        \/ /\ clients'[d] = NoWindow
                           /\ full'[d] # NoWindow
                           /\ full'[d].windowStart + 2 * Window < clock
      BY <1>2 DEF SweptIsOver
    <2>1. CASE d = c
      <3>1. Charged(clients[c], now) = Charged(full[c], now)
        <4>1. CASE clients[c] = full[c]
          BY <4>1
        <4>2. CASE clients[c] # full[c]
          <5>1. /\ clients[c] = NoWindow /\ full[c] # NoWindow
                /\ full[c].windowStart + 2 * Window < clock
            BY <1>1, <4>2 DEF Inv, SweptIsOver
          <5>2. full[c] \in State
            BY <1>1, <1>3, <5>1
          <5>3. Renews(full[c], now)
            BY <1>1, <5>1, <5>2, OldEntryRenews
          <5>4. Renews(clients[c], now)
            BY <5>1 DEF Renews
          <5> QED
            BY <5>3, <5>4 DEF Charged
        <4> QED
          BY <4>1, <4>2
      <3>2. map[c] = full'[c] /\ map[c] \in State
        BY <1>1, <1>2, <1>3, <1>4, <3>1
      <3>3. CASE clients'[c] = map[c]
        BY <2>1, <3>2, <3>3
      <3>4. CASE clients'[c] # map[c]
        <4>1. clients'[c] = NoWindow /\ map[c] # NoWindow /\ Stale(map[c], now)
          BY <1>1, <1>7, <3>4
        <4>2. map[c].windowStart + 2 * Window < clock
          BY <1>1, <3>2, <4>1 DEF Stale, State
        <4> QED
          BY <2>1, <3>2, <4>1, <4>2
      <3> QED
        BY <3>3, <3>4
    <2>2. CASE d # c
      <3>1. map[d] = clients[d] /\ full'[d] = full[d]
        BY <1>2, <1>3, <2>2
      <3>2. CASE clients'[d] = map[d]
        BY <3>1, <3>2 DEF Inv, SweptIsOver
      <3>3. CASE clients'[d] # map[d]
        <4>1. clients'[d] = NoWindow /\ clients[d] # NoWindow /\ Stale(clients[d], now)
          BY <1>7, <3>1, <3>3
        <4>2. full[d] = clients[d] /\ clients[d] \in State
          BY <1>3, <4>1 DEF Inv, SweptIsOver
        <4>3. full[d].windowStart + 2 * Window < clock
          BY <1>1, <4>1, <4>2 DEF Stale, State
        <4> QED
          BY <3>1, <4>1, <4>2, <4>3
      <3> QED
        BY <3>2, <3>3
    <2> QED
      BY <2>1, <2>2
  <1> QED
    BY <1>8, <1>9, <1>10 DEF Inv

LEMMA InvIsInductive == Inv /\ [Next]_vars => Inv'
  <1> SUFFICES ASSUME Inv, [Next]_vars PROVE Inv'
    OBVIOUS
  <1>1. ASSUME NEW h \in Handlers, Allow(h) PROVE Inv'
    BY <1>1, AllowInv
  <1>2. ASSUME NEW h \in Handlers, NEW c \in Clients, Arrive(h, c) PROVE Inv'
    BY <1>2, ArriveInv
  <1>3. CASE Tick
    BY <1>3, TickInv
  <1>4. CASE UNCHANGED vars
    BY <1>4 DEF vars, Inv, TypeOK, LagOK, SweptIsOver
  <1> QED
    BY <1>1, <1>2, <1>3, <1>4 DEF Next

LEMMA InvHidesSweep == Inv => EvictionIsInvisible
  <1> SUFFICES ASSUME Inv, NEW c \in Clients, NEW now \in Stamps
               PROVE  /\ Verdict(clients[c], now) = Verdict(full[c], now)
                      /\ Charged(clients[c], now) = Charged(full[c], now)
    BY DEF EvictionIsInvisible
  <1>1. now \in Nat /\ clock \in Nat /\ clock <= now + MaxLag
    <2>1. CASE now = clock
      BY <2>1 DEF Inv, TypeOK
    <2>2. CASE now # clock
      <3>1. PICK h \in Handlers : call[h] # Idle /\ now = call[h].now
        BY <2>2 DEF Stamps
      <3> QED
        BY <3>1, WaitingCall DEF Inv, LagOK, TypeOK
    <2> QED
      BY <2>1, <2>2
  <1>2. CASE clients[c] = full[c]
    BY <1>2
  <1>3. CASE clients[c] # full[c]
    <2>1. /\ clients[c] = NoWindow /\ full[c] # NoWindow
          /\ full[c].windowStart + 2 * Window < clock
      BY <1>3 DEF Inv, SweptIsOver
    <2>2. full[c] \in State
      BY <2>1 DEF Inv, TypeOK
    <2>3. Renews(full[c], now)
      BY <1>1, <2>1, <2>2, OldEntryRenews
    <2>4. Renews(clients[c], now)
      BY <2>1 DEF Renews
    <2> QED
      BY <2>3, <2>4 DEF Verdict, Charged
  <1> QED
    BY <1>2, <1>3

\* No sequence of requests brings the limiter into a state with an entry that
\* is not one: newIPRateLimiter, Allow (http.go:71-118).
THEOREM LimiterTypeCorrect == Spec => []TypeOK
  <1>1. Inv => TypeOK
    BY DEF Inv
  <1> QED
    BY <1>1, InitInv, InvIsInductive, PTL DEF Spec

\* The sweep of Allow (http.go:102-109) never changes the answer to a request,
\* not even to one that read the clock a whole window before it got the mutex.
THEOREM SweepForgivesNobody == Spec => []EvictionIsInvisible
  BY InitInv, InvIsInductive, InvHidesSweep, PTL DEF Spec

------------------------------------------------------------------------------
(* The bursts.  An entry of the complete map began a window at w and counts n   *)
(* requests, so the ages of a client's last requests fall into windows: the     *)
(* first n into this one, the next Limit at most into the one before, and so    *)
(* on.  A request of a window came with a time of that window and passed no     *)
(* later than MaxLag after it, and the one that opened it earlier than that.    *)

\* The request at position i of the ages, if it is not over yet, passed by t.
PassedBy(last, now, i, t) == last[i] < Window => now - last[i] <= t

\* The requests of the windows before position n: the one at n opened a window
\* and passed by t, all earlier ones before t.
Within(last, now, i, n, t) ==
    /\ i >= n => PassedBy(last, now, i, t)
    /\ i > n => PassedBy(last, now, i, t - 1)

\* What an entry says of the ages.
AgesFit(last, now, w, n) ==
    \A i \in Last :
        /\ PassedBy(last, now, i, w + Window + MaxLag - 1)
        /\ Within(last, now, i, n, w + MaxLag)
        /\ Within(last, now, i, n + Limit, w - Window + MaxLag)
        /\ Within(last, now, i, n + 2 * Limit, w - 2 * Window + MaxLag)

BurstsFit ==
    \A c \in Clients :
        IF full[c] = NoWindow THEN \A i \in Last : ages[c][i] = Window
        ELSE /\ full[c].windowStart <= clock /\ full[c].count \in 1 .. Limit
             /\ AgesFit(ages[c], clock, full[c].windowStart, full[c].count)

\* Time passes.
LEMMA OlderFit ==
    ASSUME NEW last \in [Last -> 0 .. Window], NEW now \in Nat, NEW w \in Nat,
           NEW n \in 1 .. Limit, AgesFit(last, now, w, n)
    PROVE  AgesFit(Older(last), now + 1, w, n)
<1>1. ASSUME NEW i \in Last, NEW t \in Int, PassedBy(last, now, i, t)
      PROVE  PassedBy(Older(last), now + 1, i, t)
  <2>1. last[i] \in 0 .. Window
           /\ Older(last)[i] = IF last[i] < Window THEN last[i] + 1 ELSE Window
    BY DEF Older
  <2> QED  BY <1>1, <2>1 DEF PassedBy
<1> QED  BY <1>1 DEF AgesFit, Within

\* The ages after a request passed.
LEMMA PassingAges ==
    ASSUME NEW last \in [Last -> 0 .. Window], NEW now \in Nat, NEW i \in Last, NEW t \in Int
    PROVE  /\ i = 1 => (PassedBy(Passing(last), now, i, t) <=> now <= t)
           /\ i # 1 => (PassedBy(Passing(last), now, i, t) <=> PassedBy(last, now, i - 1, t))
  BY LastPositions DEF Passing, PassedBy

\* One more request passes in the window of the entry.
LEMMA PassingFits ==
    ASSUME NEW last \in [Last -> 0 .. Window], NEW now \in Nat, NEW w \in Nat,
           NEW n \in 1 .. Limit, AgesFit(last, now, w, n),
           NEW s \in Nat, now <= s + MaxLag, s < w + Window
    PROVE  AgesFit(Passing(last), now, w, n + 1)
<1> SUFFICES ASSUME NEW i \in Last
             PROVE  /\ PassedBy(Passing(last), now, i, w + Window + MaxLag - 1)
                    /\ Within(Passing(last), now, i, n + 1, w + MaxLag)
                    /\ Within(Passing(last), now, i, n + 1 + Limit, w - Window + MaxLag)
                    /\ Within(Passing(last), now, i, n + 1 + 2 * Limit,
                              w - 2 * Window + MaxLag)
  BY DEF AgesFit
<1>1. CASE i = 1
  BY <1>1, PassingAges DEF Within
<1>2. CASE i # 1
  <2>1. i \in Nat /\ i - 1 \in Last
    BY <1>2, LastPositions
  <2>2. ASSUME NEW k \in Nat, NEW t \in Int, Within(last, now, i - 1, k, t)
        PROVE  Within(Passing(last), now, i, k + 1, t)
    BY <1>2, <2>1, <2>2, PassingAges DEF Within
  <2>3. PassedBy(Passing(last), now, i, w + Window + MaxLag - 1)
    BY <1>2, <2>1, PassingAges DEF AgesFit
  <2> QED  BY <2>1, <2>2, <2>3 DEF AgesFit
<1> QED  BY <1>1, <1>2

\* A request opens the next window: what was said of a window is said of the one
\* before it.
LEMMA RenewingFits ==
    ASSUME NEW last \in [Last -> 0 .. Window], NEW now \in Nat, NEW w \in Nat,
           NEW n \in 1 .. Limit, AgesFit(last, now, w, n),
           NEW s \in Nat, now <= s + MaxLag, s >= w + Window
    PROVE  AgesFit(Passing(last), now, s, 1)
<1> SUFFICES ASSUME NEW i \in Last
             PROVE  /\ PassedBy(Passing(last), now, i, s + Window + MaxLag - 1)
                    /\ Within(Passing(last), now, i, 1, s + MaxLag)
                    /\ Within(Passing(last), now, i, 1 + Limit, s - Window + MaxLag)
                    /\ Within(Passing(last), now, i, 1 + 2 * Limit, s - 2 * Window + MaxLag)
  BY DEF AgesFit
<1>1. CASE i = 1
  BY <1>1, PassingAges DEF Within
<1>2. CASE i # 1
  <2>1. i \in Nat /\ i - 1 \in Last /\ i >= 1 /\ last[i - 1] \in 0 .. Window
    BY <1>2, LastPositions
  \* What passed by some time has passed by any later time.
  <2>2. ASSUME NEW t \in Int, NEW u \in Int, t <= u, PassedBy(last, now, i - 1, t)
        PROVE  PassedBy(Passing(last), now, i, u)
    BY <1>2, <2>1, <2>2, PassingAges DEF PassedBy
  <2>3. PassedBy(Passing(last), now, i, s + MaxLag - 1)
    BY <2>1, <2>2 DEF AgesFit
  <2>4. /\ i >= 1 + Limit => PassedBy(Passing(last), now, i, s - Window + MaxLag)
        /\ i > 1 + Limit => PassedBy(Passing(last), now, i, s - Window + MaxLag - 1)
    <3>1. /\ i - 1 >= n => PassedBy(last, now, i - 1, w + MaxLag)
          /\ i - 1 > n => PassedBy(last, now, i - 1, w + MaxLag - 1)
      BY <2>1 DEF AgesFit, Within
    <3> QED  BY <2>1, <2>2, <3>1
  <2>5. /\ i >= 1 + 2 * Limit => PassedBy(Passing(last), now, i, s - 2 * Window + MaxLag)
        /\ i > 1 + 2 * Limit => PassedBy(Passing(last), now, i, s - 2 * Window + MaxLag - 1)
    <3>1. /\ i - 1 >= n + Limit => PassedBy(last, now, i - 1, w - Window + MaxLag)
          /\ i - 1 > n + Limit => PassedBy(last, now, i - 1, w - Window + MaxLag - 1)
      BY <2>1 DEF AgesFit, Within
    <3> QED  BY <2>1, <2>2, <3>1
  <2>6. PassedBy(Passing(last), now, i, s + MaxLag)
        /\ PassedBy(Passing(last), now, i, s + Window + MaxLag - 1)
    BY <1>2, <2>1, <2>3, PassingAges DEF PassedBy
  <2> QED  BY <2>3, <2>4, <2>5, <2>6 DEF Within
<1> QED  BY <1>1, <1>2

\* The first window of a client.
LEMMA OpeningFits ==
    ASSUME NEW last \in [Last -> 0 .. Window], \A i \in Last : last[i] = Window,
           NEW now \in Nat, NEW s \in Nat, now <= s + MaxLag
    PROVE  AgesFit(Passing(last), now, s, 1)
<1> SUFFICES ASSUME NEW i \in Last
             PROVE  /\ PassedBy(Passing(last), now, i, s + Window + MaxLag - 1)
                    /\ Within(Passing(last), now, i, 1, s + MaxLag)
                    /\ Within(Passing(last), now, i, 1 + Limit, s - Window + MaxLag)
                    /\ Within(Passing(last), now, i, 1 + 2 * Limit, s - 2 * Window + MaxLag)
  BY DEF AgesFit
<1>1. CASE i = 1
  BY <1>1, PassingAges DEF Within
<1>2. CASE i # 1
  <2>1. \A t \in Int : PassedBy(Passing(last), now, i, t)
    BY <1>2, LastPositions, PassingAges DEF PassedBy
  <2> QED  BY <2>1 DEF Within
<1> QED  BY <1>1, <1>2

\* The last of Burst + 1 ages is over.
LEMMA BurstIsOver ==
    ASSUME NEW last \in [Last -> 0 .. Window], NEW now \in Nat, NEW w \in Nat,
           NEW n \in 1 .. Limit, AgesFit(last, now, w, n), w <= now
    PROVE  last[Burst + 1] = Window
<1> DEFINE i == Burst + 1
<1>1. i \in Last /\ last[i] \in 0 .. Window
  BY LastPositions
<1>2. CASE MaxLag = 0
  <2>1. i >= n + Limit
    BY <1>2 DEF Burst
  <2>2. PassedBy(last, now, i, w - Window + MaxLag)
    BY <1>1, <2>1 DEF AgesFit, Within
  <2> QED  BY <1>1, <1>2, <2>2 DEF PassedBy
<1>3. CASE MaxLag = 1
  <2>1. i > n + Limit
    BY <1>3 DEF Burst
  <2>2. PassedBy(last, now, i, w - Window + MaxLag - 1)
    BY <1>1, <2>1 DEF AgesFit, Within
  <2> QED  BY <1>1, <1>3, <2>2 DEF PassedBy
<1>4. CASE MaxLag > 1
  <2>1. i >= n + 2 * Limit
    BY <1>4 DEF Burst
  <2>2. PassedBy(last, now, i, w - 2 * Window + MaxLag)
    BY <1>1, <2>1 DEF AgesFit, Within
  <2> QED  BY <1>1, <1>4, <2>2 DEF PassedBy
<1> QED  BY <1>2, <1>3, <1>4

\* An entry is made with a request it lets pass, and counted up with one.
LEMMA AllowFits ==
    ASSUME Inv, BurstsFit, NEW h \in Handlers, Allow(h)
    PROVE  BurstsFit'
<1> DEFINE c == call[h].client
           now == call[h].now
<1>1. /\ c \in Clients /\ now \in Nat /\ clock \in Nat /\ clock' = clock
      /\ now <= clock /\ clock <= now + MaxLag
  BY WaitingCall DEF Inv, TypeOK, LagOK, Allow
<1>2. /\ full \in [Clients -> State \cup {NoWindow}]
      /\ ages \in [Clients -> [Last -> 0 .. Window]]
      /\ ages[c] \in [Last -> 0 .. Window]
  BY <1>1 DEF Inv, TypeOK
<1>3. Verdict(clients[c], now) = Verdict(full[c], now)
  <2>1. now \in Stamps
    BY DEF Stamps, Allow
  <2> QED  BY <1>1, <2>1, InvHidesSweep DEF EvictionIsInvisible
<1>4. /\ full'[c] = Charged(full[c], now)
      /\ ages'[c] = IF Verdict(full[c], now) THEN Passing(ages[c]) ELSE ages[c]
      /\ \A d \in Clients \ {c} : full'[d] = full[d] /\ ages'[d] = ages[d]
  BY <1>1, <1>2, <1>3 DEF Allow
<1>5. Charged(full[c], now) \in State /\ Charged(full[c], now) # NoWindow
  BY <1>1, <1>2, ChargedIsState
<1> DEFINE w == full'[c].windowStart
           n == full'[c].count
           fits == w <= clock /\ n \in 1 .. Limit /\ AgesFit(ages'[c], clock, w, n)
<1>6. CASE full[c] = NoWindow
  <2>1. w = now /\ n = 1 /\ ages'[c] = Passing(ages[c])
    BY <1>4, <1>6 DEF Charged, Verdict, Renews
  <2>2. \A i \in Last : ages[c][i] = Window
    BY <1>1, <1>6 DEF BurstsFit
  <2>3. fits
    BY <1>1, <1>2, <2>1, <2>2, OpeningFits
  <2> QED  BY <1>1, <1>4, <1>5, <2>3 DEF BurstsFit
<1>7. CASE full[c] # NoWindow
  <2> DEFINE v == full[c].windowStart
             k == full[c].count
  <2>1. /\ v \in Nat /\ k \in 1 .. Limit /\ v <= clock
        /\ AgesFit(ages[c], clock, v, k)
    BY <1>1, <1>2, <1>7 DEF BurstsFit, State
  <2>2. CASE Renews(full[c], now)
    <3>1. w = now /\ n = 1 /\ ages'[c] = Passing(ages[c]) /\ now >= v + Window
      BY <1>1, <1>4, <1>7, <2>1, <2>2 DEF Charged, Verdict, Renews
    <3>2. AgesFit(Passing(ages[c]), clock, now, 1)
      BY <1>1, <1>2, <2>1, <3>1, RenewingFits
    <3>3. fits
      BY <1>1, <3>1, <3>2
    <3> QED  BY <1>1, <1>4, <1>5, <3>3 DEF BurstsFit
  <2>3. CASE ~ Renews(full[c], now) /\ k < Limit
    <3>1. w = v /\ n = k + 1 /\ ages'[c] = Passing(ages[c]) /\ now < v + Window
      BY <1>1, <1>2, <1>4, <1>7, <2>1, <2>3 DEF Charged, Verdict, Renews, State
    <3>2. AgesFit(Passing(ages[c]), clock, v, k + 1)
      BY <1>1, <1>2, <2>1, <3>1, PassingFits
    <3>3. fits
      BY <2>1, <2>3, <3>1, <3>2
    <3> QED  BY <1>1, <1>4, <1>5, <3>3 DEF BurstsFit
  <2>4. CASE ~ Renews(full[c], now) /\ ~ k < Limit
    <3>1. full'[c] = full[c] /\ ages'[c] = ages[c]
      BY <1>4, <2>4 DEF Charged, Verdict
    <3> QED  BY <1>1, <1>4, <3>1 DEF BurstsFit
  <2> QED  BY <2>2, <2>3, <2>4
<1> QED  BY <1>6, <1>7

LEMMA BurstsFitInductive == Inv /\ BurstsFit /\ [Next]_vars => BurstsFit'
<1> SUFFICES ASSUME Inv, BurstsFit, [Next]_vars  PROVE BurstsFit'
  OBVIOUS
<1>1. ASSUME NEW h \in Handlers, Allow(h)  PROVE BurstsFit'
  BY <1>1, AllowFits
<1>2. ASSUME NEW h \in Handlers, NEW c \in Clients, Arrive(h, c)  PROVE BurstsFit'
  BY <1>2 DEF Arrive, BurstsFit
<1>3. CASE Tick
  <2> SUFFICES ASSUME NEW c \in Clients
               PROVE  IF full[c] = NoWindow THEN \A i \in Last : ages'[c][i] = Window
                      ELSE /\ full[c].windowStart <= clock + 1 /\ full[c].count \in 1 .. Limit
                           /\ AgesFit(ages'[c], clock + 1, full[c].windowStart,
                                      full[c].count)
    BY <1>3 DEF Tick, BurstsFit
  <2>1. /\ clock \in Nat /\ ages[c] \in [Last -> 0 .. Window]
        /\ full[c] \in State \cup {NoWindow} /\ ages'[c] = Older(ages[c])
    BY <1>3 DEF Inv, TypeOK, Tick
  <2>2. CASE full[c] = NoWindow
    BY <2>1, <2>2 DEF BurstsFit, Older
  <2>3. CASE full[c] # NoWindow
    <3>1. /\ full[c].windowStart \in Nat /\ full[c].windowStart <= clock
          /\ full[c].count \in 1 .. Limit
          /\ AgesFit(ages[c], clock, full[c].windowStart, full[c].count)
      BY <2>1, <2>3 DEF BurstsFit, State
    <3> QED  BY <2>1, <2>3, <3>1, OlderFit
  <2> QED  BY <2>2, <2>3
<1>4. CASE UNCHANGED vars
  BY <1>4 DEF vars, BurstsFit
<1> QED  BY <1>1, <1>2, <1>3, <1>4 DEF Next

\* However late its requests get the mutex, and whatever was swept, a client gets
\* no more than Burst requests through Allow (http.go:91-118) in any window of
\* time: the limit is off by less than a factor of three, and by less than two
\* when no request waits.
THEOREM BurstsAreBounded == Spec => []BurstIsBounded
<1>1. Init => BurstsFit
  BY DEF Init, BurstsFit
<1>2. Inv /\ BurstsFit => BurstIsBounded
  <2> SUFFICES ASSUME Inv, BurstsFit, NEW c \in Clients
               PROVE  ages[c][Burst + 1] = Window
    BY DEF BurstIsBounded
  <2>1. /\ clock \in Nat /\ ages[c] \in [Last -> 0 .. Window]
        /\ full[c] \in State \cup {NoWindow}
    BY DEF Inv, TypeOK
  <2>2. CASE full[c] = NoWindow
    BY <2>2, LastPositions DEF BurstsFit
  <2>3. CASE full[c] # NoWindow
    BY <2>1, <2>3, BurstIsOver DEF BurstsFit, State
  <2> QED  BY <2>2, <2>3
<1> QED  BY <1>1, <1>2, InitInv, InvIsInductive, BurstsFitInductive, PTL DEF Spec

------------------------------------------------------------------------------
(* The two halves together.                                                  *)

\* While the limiter counts, no request is let through, and the other way
\* round: what is proved of each holds of the specification that TLC runs.
LEMMA HalvesOfRequests == MCSpec => Spec /\ A!Spec
<1>1. MCInit => Init /\ A!Init
  BY DEF MCInit
<1>2. [MCNext]_<<part, vars, accessVars>> => [Next]_vars
  BY DEF MCNext
<1>3. [MCNext]_<<part, vars, accessVars>> => [A!Next]_(A!vars)
  BY DEF MCNext, accessVars, A!vars, A!roleVars
<1> QED  BY <1>1, <1>2, <1>3, PTL DEF MCSpec, Spec, A!Spec
=============================================================================
