------------------------------ MODULE MCRequests ------------------------------
(* What a request has to pass, for TLC: the rate limiter of its client and    *)
(* the checks of membership and role.  The limiter knows nothing of groups,   *)
(* so they share no variable and one of them, chosen at the start, moves.     *)
EXTENDS RateLimiter, TLC

CONSTANTS Users, Groups, NoUser, Requests, Todos, NoTodo, MaxPublished
VARIABLES part, created_by, live, role, todos, req, shown, published, held
accessVars == <<created_by, live, role, todos, req, shown, published, held>>

A == INSTANCE GroupAccess
ASSUME A!NoTodoAssumption

\* A bound: at most one of the groups has roles that were granted, so that a user
\* may own, moderate, belong to, or be a stranger to either group.
OneGroupGrows ==
    Cardinality({g \in Groups : \E u \in Users :
      role[g][u] \in {"admin", "member"}}) <= 1

MCInit == part \in {"limiter", "access"} /\ Init /\ A!Init

MCNext ==
    \/ part = "limiter" /\ Next /\ UNCHANGED <<part, accessVars>>
    \/ part = "access" /\ A!Next /\ OneGroupGrows' /\ UNCHANGED <<part, vars>>

MCSpec == MCInit /\ [][MCNext]_<<part, vars, accessVars>>

\* A change was accepted from the author or from a moderator of the todo's group.
ChangesWereAllowed == A!ChangesWereAllowed

\* Who is shown a board was a member while the request ran.
ReadersWereMembers == A!ReadersWereMembers

\* The buttons of a board are at the todos the API lets the user change.
ButtonsWork == A!ButtonsWork

Symmetry == { f @@ g : f \in Permutations(Users), g \in Permutations(Groups) }
===============================================================================
