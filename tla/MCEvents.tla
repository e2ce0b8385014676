------------------------------- MODULE MCEvents -------------------------------
(* The two ways an event comes to the screen for TLC: through the fan-out of  *)
(* its group, and as a list of todos from the projection.  The fan-out only   *)
(* passes events on and the lists only read tables, so they share no variable *)
(* and one of them, chosen at the start, moves.                               *)
EXTENDS BoardReads, TLC

CONSTANTS Conns, Streams, Subs, None, MaxFailures
VARIABLES part, byGroup, subscribers, sub, live, pc, stream, held, failures
fanoutVars == <<byGroup, subscribers, sub, live, pc, stream, held, failures>>

F == INSTANCE GroupFanout
ASSUME FanoutAssumption == F!NoneAssumption

MCInit == part \in {"lists", "fan-out"} /\ Init /\ F!Init

\* The lists may come to rest; the fan-out must not.
MCNext ==
    \/ part = "lists" /\ Next /\ UNCHANGED <<part, fanoutVars>>
    \/ part = "fan-out" /\ F!Next /\ UNCHANGED <<part, vars>>
    \/ part = "lists" /\ UNCHANGED <<part, vars, fanoutVars>>

MCSpec == MCInit /\ [][MCNext]_<<part, vars, fanoutVars>>

\* A served connection is a subscriber of its stream, whose subscription is open.
ServedHasFanout == F!ServedHasFanout

\* An open subscription of GroupFanout has exactly one owner.
NoLostSubscription == F!NoLostSubscription

\* A group that everybody has left leaves no stream and no subscription behind.
NothingLeftAtRest == F!NothingLeftAtRest

Symmetry == { f @@ g : f \in Permutations(Clients), g \in Permutations(Sinks) }
              \cup Permutations(Conns)
===============================================================================
