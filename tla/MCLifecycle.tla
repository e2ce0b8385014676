----------------------------- MODULE MCLifecycle -----------------------------
(* Processes from start to end, for TLC: the two services that share a        *)
(* schema or the two workers, and the load generator with and without streams.*)
(* The load generator takes the services for requests that succeed or fail,   *)
(* so these share no variable and one of them, chosen at the start, moves.    *)
EXTENDS Startup, FiniteSets, TLC

CONSTANTS
    first, second,
    Users, SetupConcurrency, EnableSSE, MaxProbes, MaxActions, MaxConnects

Readers == first :> "command-api" @@ second :> "sse-streamer"
Workers == first :> "domain-engine" @@ second :> "data-sink"
Pairs == {Readers, Workers}

VARIABLES main, probes, expired, results, users, vu, todos, flight, target, sse,
          accounts, created, live, late, gaveUp, acted, connected
loadVars == <<main, probes, expired, results, users, vu, todos, flight, target, sse,
              accounts, created, live, late, gaveUp, acted, connected>>

L == INSTANCE LoadGenerator WITH
       tries <- probes, made <- created, MaxTries <- MaxProbes
ASSUME L!SizeAssumption

VARIABLE part
Parts == {"services", "load on todos", "load on streams"}

MCInit ==
    /\ part \in Parts
    /\ Init /\ L!Init
    /\ \A b \in DOMAIN up : up[b]
    /\ part # "services" => kindOf = Readers

MCNext ==
    \/ /\ part = "services"
       /\ Next
       /\ UNCHANGED <<part, loadVars>>
    \/ /\ part # "services"
       /\ L!Next
       /\ part = "load on todos" =>
            /\ \A u \in Users : sse'[u] \in {"off", "head"}
            /\ Cardinality({u \in Users : acted'[u] > 1}) <= 1
       /\ part = "load on streams" =>
            /\ \A u \in Users : acted'[u] <= 1
            /\ Cardinality({u \in Users : connected'[u] > 1}) <= 1
       /\ UNCHANGED <<part, vars>>

MCFairness ==
    \/ part = "services" /\ Fairness
    \/ part # "services" /\ L!Fairness

MCSpec == MCInit /\ [][MCNext]_<<part, vars, loadVars>> /\ MCFairness

\* A user's list of todos differs from the service only by lost answers.
ListMatchesService == part # "services" => L!ListMatchesService

\* Every service becomes ready for good, in whatever order they start.
EveryServiceGetsReady == part = "services" => EveryServiceReady

\* The load generator comes to its end, whatever happens to its requests.
RunEnds == part # "services" => L!RunEnds
==============================================================================
