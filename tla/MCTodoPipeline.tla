---------------------------- MODULE MCTodoPipeline ----------------------------
(* Instances of TodoPipeline for TLC.                                         *)
EXTENDS TodoPipeline, TLC

CONSTANTS u1, u2, g1, g2, t1, t2

\* Every request on one todo of one group: unknown actions, missing titles,
\* moderators and plain members.
AllRequests == Request

\* The requests that pass Service.Accept, by plain members.
MemberRequests ==
    { r \in Request : r.action \in Supported /\ r.titled /\ ~ r.moderator }

\* The same, and requests that only a foreign publisher gets into the stream.
MixedRequests ==
    MemberRequests \cup
    { r \in Request : r.action \notin Supported /\ r.titled /\ ~ r.moderator }

Symmetry == Permutations(Users) \cup Permutations(Groups) \cup Permutations(Todos)
    \cup Permutations(Handlers) \cup Permutations(Engines) \cup Permutations(Sinks)
===============================================================================
