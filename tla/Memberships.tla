----------------------------- MODULE Memberships -----------------------------
(***************************************************************************)
(* What the groups promise to everybody who reads them: a group has a creator *)
(* who owns it from the start, roles other than owner come and change, one   *)
(* statement at a time, and a deleted group has no members and never comes   *)
(* back.  GroupRoles implements this.                                        *)
(***************************************************************************)
CONSTANTS Users, Groups, NoUser

Roles == {"owner", "admin", "member"}
None == "none"

VARIABLES created_by, live, role
vars == <<created_by, live, role>>

TypeOK ==
    /\ created_by \in [Groups -> Users \cup {NoUser}]
    /\ live \in SUBSET Groups
    /\ role \in [Groups -> [Users -> Roles \cup {None}]]

Init ==
    /\ created_by = [g \in Groups |-> NoUser]
    /\ live = {}
    /\ role = [g \in Groups |-> [u \in Users |-> None]]

Create(u, g) ==
    /\ created_by[g] = NoUser
    /\ created_by' = [created_by EXCEPT ![g] = u]
    /\ live' = live \cup {g}
    /\ role' = [role EXCEPT ![g][u] = "owner"]

Grant(u, g, rl) ==
    /\ g \in live
    /\ role' = [role EXCEPT ![g][u] = rl]
    /\ UNCHANGED <<created_by, live>>

Delete(g) ==
    /\ live' = live \ {g}
    /\ role' = [role EXCEPT ![g] = [u \in Users |-> None]]
    /\ UNCHANGED created_by

Next ==
    \/ \E u \in Users, g \in Groups : Create(u, g)
    \/ \E u \in Users, g \in Groups, rl \in {"admin", "member"} : Grant(u, g, rl)
    \/ \E g \in live : Delete(g)

Spec == Init /\ [][Next]_vars
=============================================================================
