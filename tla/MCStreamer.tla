------------------------------ MODULE MCStreamer ------------------------------
(* The connections of the streamer for TLC: the leases of its users, and the  *)
(* locks they share with the scrapes.  The leases are followed through the    *)
(* critical sections they are changed in, the locks through everything that   *)
(* takes them; the two models share no variable and one of them, chosen at    *)
(* the start, moves.                                                         *)
EXTENDS UserStreams, TLC

CONSTANTS Scrapers, Goroutines, Streams
VARIABLES part, path, held
lockVars == <<path, held>>

M == INSTANCE Metrics
ASSUME StreamsAssumption == M!StreamsAssumption

MCInit == part \in {"users", "locks"} /\ Init /\ M!Init

\* The users may come to rest, so the run is not checked for deadlock; that nobody
\* is kept waiting for a lock is EveryScrapeEnds.
MCNext ==
    \/ part = "users" /\ Next /\ UNCHANGED <<part, lockVars>>
    \/ part = "locks" /\ M!Next /\ UNCHANGED <<part, vars>>

MCFairness ==
    \/ part = "users" /\ Fairness
    \/ part = "locks" /\ M!Fairness

MCSpec == MCInit /\ [][MCNext]_<<part, vars, lockVars>> /\ MCFairness

\* A scrape that has begun comes to its end: the locks of Metrics are never waited
\* for in a circle.
EveryScrapeEnds == M!EveryScrapeEnds
===============================================================================
