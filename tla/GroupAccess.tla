----------------------------- MODULE GroupAccess -----------------------------
(***************************************************************************)
(* Who may read and change the todos of a group: the requests of both HTTP   *)
(* services over the Memberships, which go on changing meanwhile.            *)
(* Every request reads the membership in one statement, the todos in         *)
(* another, and acts on both afterwards; a stream of /events does so for as   *)
(* long as it is open; a command takes effect when the data sink gets to it. *)
(* Nothing of this runs in one transaction.                                  *)
(*                                                                          *)
(* A command to create may name any todo_id, one in use as well: the data    *)
(* sink then leaves the row as it is.  Titles are left out.                  *)
(***************************************************************************)
EXTENDS Naturals, FiniteSets

CONSTANTS
    Users, Groups, NoUser,   \* those of Memberships
    Requests,    \* requests for todos under way at a time
    Todos, NoTodo,
    MaxPublished \* bound on the commands that wait to be applied

NoTodoAssumption == NoTodo \notin Todos /\ MaxPublished \in Nat

VARIABLES
    created_by, live, role,   \* those of Memberships
    todos,       \* the rows of table todos
    req,         \* each request: what it is for and how far it got
    shown,       \* the board it last sent
    published,   \* commands that are accepted and not applied
    held         \* history: roles its user had in its group since it began

G == INSTANCE Memberships

roleVars == <<created_by, live, role>>
vars == <<roleVars, todos, req, shown, published, held>>

None == "none"
Idle == [op |-> "idle"]
Commands == {"create", "update", "delete"}
Pages == {"/api/v1/todos", "/ui/workspace", "/events"}
Nothing == [todos |-> {}, editable |-> {}, sent |-> FALSE]

Rows == [author : Users, group : Groups, deleted : BOOLEAN]

TypeOK ==
    /\ G!TypeOK
    /\ \A t \in Todos : todos[t] = Idle \/ todos[t] \in Rows
    /\ \A r \in Requests : req[r] # Idle =>
         /\ req[r].op \in Commands \cup Pages
         /\ req[r].at \in {"member", "role", "todo", "accept", "list", "open"}
         /\ req[r].seen \in G!Roles \cup {None}
    /\ \A r \in Requests : shown[r].editable \subseteq shown[r].todos
    /\ \A c \in published : c.op \in Commands
    /\ held \in [Requests -> SUBSET G!Roles]

Init ==
    /\ G!Init
    /\ todos = [t \in Todos |-> Idle]
    /\ req = [r \in Requests |-> Idle]
    /\ shown = [r \in Requests |-> Nothing]
    /\ published = {}
    /\ held = [r \in Requests |-> {}]

Live(t) == todos[t] # Idle /\ ~todos[t].deleted

\* CanModerateMessages; the renderer of the streamer has its own copy.
CanModerateMessages(rl) == rl \in {"owner", "admin"}
canEdit_others(rl, u, t) == rl \in {"owner", "admin", "member"}
canEdit(rl, u, t) == rl \in {"owner", "admin"} \/ todos[t].author = u

Goto(r, where) == req' = [req EXCEPT ![r].at = where]
End(r) == req' = [req EXCEPT ![r] = Idle] /\ shown' = [shown EXCEPT ![r] = Nothing]
User(r) == req[r].user
Group(r) == req[r].group
RoleNow(r) == role[Group(r)][User(r)]

-----------------------------------------------------------------------------
(* A request with a valid token.                                             *)
Begin(r, u, g, op, t) ==
    /\ req[r] = Idle
    /\ CASE op \in Pages -> t = NoTodo
         [] op = "create" -> t \in Todos
         [] OTHER -> t \in Todos /\ todos[t] # Idle
    /\ req' = [req EXCEPT ![r] = [op |-> op, user |-> u, group |-> g, todo |-> t,
                                  seen |-> None, at |-> "member"]]
    /\ UNCHANGED <<roleVars, todos, shown, published>>

\* EnsureMemberRole, before a command.
EnsureMemberRole(r) ==
    /\ req[r] # Idle /\ req[r].op \in Commands /\ req[r].at = "member"
    /\ IF RoleNow(r) = None THEN End(r)
       ELSE /\ req' = [req EXCEPT ![r].seen = RoleNow(r),
                         ![r].at = IF req[r].op = "create" THEN "accept" ELSE "todo"]
            /\ UNCHANGED shown
    /\ UNCHANGED <<roleVars, todos, published>>

\* Mutant: the todo may be of another group than the role.
MayChange_anyGroup(rl, u, g, t) ==
    Live(t) /\ (CanModerateMessages(rl) \/ todos[t].author = u)

\* What the handler asks of the todo: it is there, it is of the group the role
\* was read for, and the user moderates that group or wrote it.
MayChange(rl, u, g, t) ==
    /\ Live(t) /\ todos[t].group = g
    /\ CanModerateMessages(rl) \/ todos[t].author = u

GetTodoByID(r) ==
    /\ req[r] # Idle /\ req[r].op \in Commands /\ req[r].at = "todo"
    /\ IF MayChange(req[r].seen, User(r), Group(r), req[r].todo) 
       THEN Goto(r, "accept") /\ UNCHANGED shown ELSE End(r)
    /\ UNCHANGED <<roleVars, todos, published>>

\* Accept publishes the command; the wait for it changes nothing.
Accept(r) ==
    /\ req[r] # Idle /\ req[r].op \in Commands /\ req[r].at = "accept"
    /\ Cardinality(published) < MaxPublished
    /\ published' = published \cup
         {[op |-> req[r].op, user |-> User(r), group |-> Group(r),
           todo |-> req[r].todo, held |-> held[r]]}
    /\ End(r)
    /\ UNCHANGED <<roleVars, todos>>

\* The data sink applies it, whatever has become of the group.
Apply(c) ==
    /\ c \in published
    /\ published' = published \ {c}
    /\ todos' = CASE c.op = "create" /\ todos[c.todo] = Idle ->
                       [todos EXCEPT ![c.todo] = [author |-> c.user,
                          group |-> c.group, deleted |-> FALSE]]
                  [] c.op = "delete" -> [todos EXCEPT ![c.todo].deleted = TRUE]
                  [] OTHER -> todos
    /\ UNCHANGED <<roleVars, req, shown>>

-----------------------------------------------------------------------------
(* The pages.                                                                *)

\* IsUserInGroup, before /api/v1/todos and /events.
IsUserInGroup(r) ==
    /\ req[r] # Idle /\ req[r].op \in {"/api/v1/todos", "/events"}
    /\ req[r].at = "member"
    /\ IF RoleNow(r) = None THEN End(r)
       ELSE /\ Goto(r, IF req[r].op = "/events" THEN "role" ELSE "list")
            /\ UNCHANGED shown
    /\ UNCHANGED <<roleVars, todos, published>>

\* GetMembershipRole, once per stream: it fails for a group that is gone.
GetMembershipRole(r) ==
    /\ req[r] # Idle /\ req[r].op = "/events" /\ req[r].at = "role"
    /\ IF RoleNow(r) = None THEN End(r)
       ELSE /\ req' = [req EXCEPT ![r].seen = RoleNow(r), ![r].at = "open"]
            /\ UNCHANGED shown
    /\ UNCHANGED <<roleVars, todos, published>>

\* Mutant: the group that was asked for is shown, listed or not.
ActiveGroup_asAsked(r) == TRUE

\* /ui/workspace shows a group only if it is among those of the user.
ActiveGroup(r) == RoleNow(r) # None

ListGroupsForUser(r) ==
    /\ req[r] # Idle /\ req[r].op = "/ui/workspace" /\ req[r].at = "member"
    /\ IF ~ActiveGroup(r) THEN End(r)
       ELSE /\ req' = [req EXCEPT ![r].seen = RoleNow(r), ![r].at = "list"]
            /\ UNCHANGED shown
    /\ UNCHANGED <<roleVars, todos, published>>

\* ListGroupTodos and renderTodoList.
Board(r) ==
    LET list == { t \in Todos : Live(t) /\ todos[t].group = Group(r) } IN
    [todos |-> list, sent |-> TRUE,
     editable |-> { t \in list : canEdit(req[r].seen, User(r), t) }]

SendPage(r) ==
    /\ req[r] # Idle /\ req[r].at = "list" /\ ~shown[r].sent
    /\ shown' = [shown EXCEPT ![r] = Board(r)]
    /\ UNCHANGED <<roleVars, todos, req, published>>

\* The list at the start of a stream and after every event.
SendPatch(r) ==
    /\ req[r] # Idle /\ req[r].at = "open"
    /\ shown' = [shown EXCEPT ![r] = Board(r)]
    /\ UNCHANGED <<roleVars, todos, req, published>>

\* A page is closed, a stream ends.
Close(r) ==
    /\ req[r] # Idle /\ shown[r].sent
    /\ End(r)
    /\ UNCHANGED <<roleVars, todos, published>>

\* A statement or the publish fails: an error is answered.
Fail(r) ==
    /\ req[r] # Idle /\ ~shown[r].sent
    /\ End(r)
    /\ UNCHANGED <<roleVars, todos, published>>

RolesChange == G!Next /\ UNCHANGED <<todos, req, shown, published>>

Remember ==
    held' = [r \in Requests |->
      IF req'[r] = Idle THEN {}
      ELSE (held[r] \cup {role'[req'[r].group][req'[r].user]}) \ {None}]

Next ==
    /\ \/ RolesChange
       \/ \E r \in Requests :
            \/ \E u \in Users, g \in Groups,
                  op \in Commands \cup Pages, t \in Todos \cup {NoTodo} :
                 Begin(r, u, g, op, t)
            \/ EnsureMemberRole(r) \/ GetTodoByID(r) \/ Accept(r)
            \/ IsUserInGroup(r) \/ GetMembershipRole(r) \/ ListGroupsForUser(r)
            \/ SendPage(r) \/ SendPatch(r) \/ Close(r) \/ Fail(r)
       \/ \E c \in published : Apply(c)
    /\ Remember

Spec == Init /\ [][Next]_vars
-----------------------------------------------------------------------------
\* A command to change a todo was accepted from its author, or from somebody who
\* had moderated the todo's own group while the request ran.  The role may be
\* gone by then, and another may have been given; it was never of another group.
ChangesWereAllowed ==
    \A c \in published : c.op # "create" =>
      /\ todos[c.todo].group = c.group
      /\ todos[c.todo].author = c.user \/ c.held \cap {"owner", "admin"} # {}

\* Whoever is shown a board was a member of its group while the request ran,
\* although the group may have been deleted between the two statements.
ReadersWereMembers ==
    \A r \in Requests : shown[r].sent => held[r] # {}

\* The board and the API agree: as long as the user's role is the one the board
\* was made with, the buttons are at exactly the todos the API lets it change.
ButtonsWork ==
    \A r \in Requests :
      shown[r].sent /\ req[r].op # "/api/v1/todos" /\ RoleNow(r) = req[r].seen =>
        \A t \in shown[r].todos : Live(t) =>
          (t \in shown[r].editable <=> MayChange(RoleNow(r), User(r), Group(r), t))
=============================================================================
