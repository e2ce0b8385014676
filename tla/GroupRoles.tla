------------------------------ MODULE GroupRoles ------------------------------
(***************************************************************************)
(* Groups and the roles of their members: the group operations of           *)
(* identity.Service over PostgresRepository, called by the handlers of the  *)
(* command API.  Every operation but CreateGroup reads the actor's role in  *)
(* one statement and writes in another, with other requests in between.     *)
(* An unknown username changes nothing, so all users here are registered;   *)
(* nothing ever removes a user.                                             *)
(***************************************************************************)
EXTENDS Naturals

CONSTANTS Users, Groups, Handlers, NoUser

ASSUME NoUserAssumption == NoUser \notin Users

Roles == {"owner", "admin", "member"}
None == "none"      \* no row in group_members

\* Mutant: owner is a valid role to ask for.
Grantable_any == Roles

\* The roles a request may ask for: IsValidRole, and never owner.
Grantable == Roles \ {"owner"}

canManageMembers(role) == role \in {"owner", "admin"}
canManageRoles(role) == role = "owner"

VARIABLES
    created_by,   \* groups.created_by, kept when the group is gone
    live,         \* the rows of table groups
    role,         \* group_members.role
    request       \* what each handler is doing

vars == <<created_by, live, role, request>>

Idle == [op |-> "idle"]

\* seen: the role the actor had when it was read.
Request == [op : {"delete", "add", "update"}, actor : Users, group : Groups,
            target : Users, grant : Grantable, seen : Roles]

TypeOK ==
    /\ created_by \in [Groups -> Users \cup {NoUser}]
    /\ live \in SUBSET Groups
    /\ role \in [Groups -> [Users -> Roles \cup {None}]]
    /\ request \in [Handlers -> {Idle} \cup Request]

Init ==
    /\ created_by = [g \in Groups |-> NoUser]
    /\ live = {}
    /\ role = [g \in Groups |-> [u \in Users |-> None]]
    /\ request = [h \in Handlers |-> Idle]

\* Service.CreateGroup: one transaction inserts the group, under an id never
\* used before, and its creator as owner.
CreateGroup(u, g) ==
    /\ created_by[g] = NoUser
    /\ created_by' = [created_by EXCEPT ![g] = u]
    /\ live' = live \cup {g}
    /\ role' = [role EXCEPT ![g][u] = "owner"]
    /\ UNCHANGED request

\* Mutant: an admin may add admins.
Allowed_adminsPromote(r) ==
    \/ r.op = "delete" /\ r.seen = "owner"
    \/ r.op = "add" /\ canManageMembers(r.seen)
    \/ r.op = "update" /\ canManageRoles(r.seen)

\* The checks of the three operations on the role that was read.
Allowed(r) ==
    \/ r.op = "delete" /\ r.seen = "owner"
    \/ /\ r.op = "add"
       /\ canManageMembers(r.seen)
       /\ r.seen = "owner" \/ r.grant # "admin"
    \/ r.op = "update" /\ canManageRoles(r.seen)

\* A handler reads the actor's role and the checks pass (otherwise it answers
\* 400, 403 or 404 and nothing changes).
Check(h, r) ==
    /\ request[h] = Idle
    /\ role[r.group][r.actor] = r.seen
    /\ Allowed(r)
    /\ request' = [request EXCEPT ![h] = r]
    /\ UNCHANGED <<created_by, live, role>>

Answer(h) == request' = [request EXCEPT ![h] = Idle]

\* DELETE FROM groups; the foreign key removes the members.
DeleteGroup(h) ==
    LET g == request[h].group
    IN  /\ request[h].op = "delete"
        /\ live' = live \ {g}
        /\ role' = [role EXCEPT ![g] = [u \in Users |-> None]]
        /\ Answer(h)
        /\ UNCHANGED created_by

\* Mutant: no foreign key on group_members.
AddMember_anyGroup(h) ==
    LET r == request[h]
    IN  /\ r.op = "add"
        /\ role' = [role EXCEPT ![r.group][r.target] = r.grant]
        /\ Answer(h)
        /\ UNCHANGED <<created_by, live>>

\* INSERT ... ON CONFLICT DO UPDATE SET role; the foreign key refuses a group
\* that is gone.
AddMember(h) ==
    LET r == request[h]
    IN  /\ r.op = "add"
        /\ role' = IF r.group \in live
                   THEN [role EXCEPT ![r.group][r.target] = r.grant]
                   ELSE role
        /\ Answer(h)
        /\ UNCHANGED <<created_by, live>>

\* UPDATE group_members: no row, no change.
UpdateMemberRole(h) ==
    LET r == request[h]
    IN  /\ r.op = "update"
        /\ role' = IF role[r.group][r.target] # None
                   THEN [role EXCEPT ![r.group][r.target] = r.grant]
                   ELSE role
        /\ Answer(h)
        /\ UNCHANGED <<created_by, live>>

\* The statement fails and the handler answers 500.
StatementFails(h) ==
    /\ request[h] # Idle
    /\ Answer(h)
    /\ UNCHANGED <<created_by, live, role>>

Next ==
    \/ \E u \in Users, g \in Groups : CreateGroup(u, g)
    \/ \E h \in Handlers :
         \/ \E r \in Request : Check(h, r)
         \/ DeleteGroup(h) \/ AddMember(h) \/ UpdateMemberRole(h)
         \/ StatementFails(h)

Spec == Init /\ [][Next]_vars

------------------------------------------------------------------------------
\* Nobody but its creator ever owns a group, whatever requests overlap: no
\* operation hands ownership on, and a check that went stale cannot either.
OnlyCreatorOwns ==
    \A g \in Groups, u \in Users : role[g][u] = "owner" => created_by[g] = u

\* An add or a role change that was allowed before its group was deleted and
\* runs after it leaves no member behind.
NoMembersWithoutGroup ==
    \A g \in Groups, u \in Users : role[g][u] # None => g \in live

\* Becoming admin goes back to the creator of the group: the request that did it
\* was checked when its actor was the owner.  An admin cannot make another one,
\* not even by a request that overlaps a change of the actor's own role.
AdminsComeFromCreator ==
    [][\A g \in Groups, u \in Users :
         (role[g][u] # "admin" /\ role'[g][u] = "admin") =>
            \E h \in Handlers :
                /\ request[h] # Idle /\ request'[h] = Idle
                /\ request[h].group = g /\ request[h].actor = created_by[g]]_vars

\* A deleted group never comes back, and neither does any of its members.
GoneStaysGone ==
    [][\A g \in Groups :
         (created_by[g] # NoUser /\ g \notin live) =>
            g \notin live' /\ role'[g] = role[g]]_vars

\* "Only owner can promote/demote role" (README.md:109): a member's role becomes
\* another one only by a request of somebody who was seen to be the owner.
OnlyOwnerChangesRoles ==
    [][\A g \in Groups, u \in Users :
         (role[g][u] # None /\ role'[g][u] \notin {None, role[g][u]}) =>
            \E h \in Handlers :
                request[h] # Idle /\ request'[h] = Idle /\ request[h].seen = "owner"]_vars

\* What everybody else may rely on: between its two statements a request changes
\* nothing, and its second one is a step of Memberships or no change at all.
Abstract == INSTANCE Memberships
ImplementsMemberships == Abstract!Spec
==============================================================================
