------------------------------ MODULE MCIdentity ------------------------------
(* Both halves of the identity service for TLC.  Groups and sessions share no *)
(* variable, so whatever holds of every behaviour of each holds of their      *)
(* interleavings: one of them, chosen at the start, moves.                    *)
EXTENDS GroupRoles, TLC

CONSTANTS Tokens, NoToken
VARIABLES part, users, tok, handed, call
sessionVars == <<users, tok, handed, call>>

S == INSTANCE Sessions
ASSUME SessionsAssumption == S!NoneAssumption

MCInit == part \in {"groups", "sessions"} /\ Init /\ S!Init

MCNext ==
    \/ part = "groups" /\ Next /\ UNCHANGED <<part, sessionVars>>
    \/ part = "sessions" /\ S!Next /\ UNCHANGED <<part, vars>>

MCSpec == MCInit /\ [][MCNext]_<<part, vars, sessionVars>>

\* A refresh token that has a successor is revoked (Service.Refresh).
PredecessorIsRevoked == S!PredecessorIsRevoked

Symmetry == Permutations(Users) \cup Permutations(Groups)
              \cup Permutations(Handlers) \cup Permutations(Tokens)
===============================================================================
