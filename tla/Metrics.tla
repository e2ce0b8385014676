------------------------------- MODULE Metrics -------------------------------
(***************************************************************************)
(* The locks of the streamer's registries and streams, and everything that   *)
(* takes them: a scrape of the metrics, the connections, the calls of        *)
(* /events/disconnect, the callbacks of the subscriptions and the refreshes. *)
(*                                                                          *)
(* Whoever runs has a path before it, the Lock and Unlock calls of the code  *)
(* it runs, in their order; it has a lock between the two, whatever comes    *)
(* there.  What is done under the locks is UserStreams and GroupFanout; here  *)
(* every outcome of it is a path of its own.                                 *)
(***************************************************************************)
EXTENDS Naturals, Sequences, SequencesExt

CONSTANTS
    Scrapers,           \* requests for /metrics
    Goroutines,         \* everything else that runs
    Streams             \* groupStream objects

Procs == Scrapers \cup Goroutines
\* The lock of the metrics registry, userStreams.mu, groupStreams.mu, and mu of
\* each groupStream.
Registries == {"registry", "userStreams", "groupStreams"}
Locks == Registries \cup Streams

\* What is assumed of them where this module is instantiated.
StreamsAssumption ==
    /\ IsFiniteSet(Streams)
    /\ Streams \cap Registries = {}

VARIABLES
    path,     \* what each process has before it
    held      \* the processes that have each lock

vars == <<path, held>>

Lock(l) == [call |-> "lock", of |-> l]
Unlock(l) == [call |-> "unlock", of |-> l]
Under(l) == <<Lock(l), Unlock(l)>>
\* The loop of /events for a stream, which goes on until the client or the user
\* ends it.
Serve(s) == [call |-> "serve", of |-> s]

------------------------------------------------------------------------------
(* The paths.                                                                *)

Count == Under("userStreams")
CountGroups == Under("groupStreams")

\* The streams are collected under the lock of the registry, and asked when it is
\* free again.
subscriberCounts(found) ==
    [i \in 1 .. 2 * Len(found) |->
        IF i % 2 = 1 THEN Lock(found[(i + 1) \div 2]) ELSE Unlock(found[i \div 2])]
CountSubscribers(found) == Under("groupStreams") \o subscriberCounts(found)

\* Registry.Handler copies the collectors and asks them in the order of their names.
Handler ==
    { Under("registry") \o CountGroups \o CountSubscribers(found) \o Count :
        found \in UNION { SetToSeqs(S) : S \in SUBSET Streams } }

\* There is a subscription, or one is made and stored, or turns out to be one too
\* many.
ensureSubscription(s) == {Under(s), Under(s) \o Under(s)}
ensureSubscriptionFails(s) == Under(s)

\* Mutant: the lock is kept for the whole of it.
addSubscriber_underLock(s) ==
    { <<Lock(s)>> \o e \o <<Unlock(s)>> : e \in ensureSubscription(s) }

addSubscriber(s) == { Under(s) \o e : e \in ensureSubscription(s) }

\* If there is no subscription, the connection takes itself out of the stream.
addSubscriberFails(s) == Under(s) \o ensureSubscriptionFails(s) \o Under(s)

\* Whoever is not the last does not go to the registry.
removeSubscriber(s) == Under(s)
unsubscribe(s) == {removeSubscriber(s), removeSubscriber(s) \o Under("groupStreams")}

\* Subscribe, with the stream it finds in the registry or makes.
Subscribe(s) == { Under("groupStreams") \o a : a \in addSubscriber(s) }
SubscribeFails(s) == Under("groupStreams") \o addSubscriberFails(s)

\* A connection is turned away, cannot be subscribed, or is served.
Replace == Under("userStreams")
Release == Under("userStreams")
Connection ==
    {Replace \o Release}
    \cup { Replace \o SubscribeFails(s) \o Release : s \in Streams }
    \cup UNION { { Replace \o a \o <<Serve(s)>> : a \in Subscribe(s) } : s \in Streams }

Cancel == Under("userStreams")
broadcast(s) == Under(s)
scheduleSnapshot(s) == Under(s)
\* Nothing is sent when nobody is left or the list fails.
runSnapshotRefresh(s) == {Under(s), Under(s) \o broadcast(s)}

Others ==
    Connection \cup {Cancel}
    \cup UNION { {broadcast(s) \o scheduleSnapshot(s)} \cup runSnapshotRefresh(s) :
                   s \in Streams }

------------------------------------------------------------------------------
TypeOK ==
    /\ path \in [Procs -> Seq([call : {"lock", "unlock", "serve"}, of : Locks])]
    /\ held \in [Locks -> SUBSET Procs]

Init ==
    /\ path = [p \in Procs |-> <<>>]
    /\ held = [l \in Locks |-> {}]

Start(p) ==
    /\ path[p] = <<>>
    /\ \E new \in IF p \in Scrapers THEN Handler ELSE Others :
         path' = [path EXCEPT ![p] = new]
    /\ UNCHANGED held

NextCallIs(p, call) == path[p] # <<>> /\ Head(path[p]).call = call
Here(p) == Head(path[p]).of

\* A mutex lets one in, which is not the one that has it.  The metrics registry has
\* a read-write lock, and nobody writes to it once the program serves.
Free(l) == l = "registry" \/ held[l] = {}

Take(p) ==
    /\ NextCallIs(p, "lock") /\ Free(Here(p))
    /\ held' = [held EXCEPT ![Here(p)] = @ \cup {p}]
    /\ path' = [path EXCEPT ![p] = Tail(@)]

Give(p) ==
    /\ NextCallIs(p, "unlock")
    /\ held' = [held EXCEPT ![Here(p)] = @ \ {p}]
    /\ path' = [path EXCEPT ![p] = Tail(@)]

End(p) ==
    /\ NextCallIs(p, "serve")
    /\ \E u \in unsubscribe(Here(p)) : path' = [path EXCEPT ![p] = u \o Release]
    /\ UNCHANGED held

Next == \E p \in Procs : Start(p) \/ Take(p) \/ Give(p) \/ End(p)

\* Goroutines run, and a mutex starves nobody; nobody has to scrape, to connect or
\* to close a stream.
Fairness == \A p \in Procs : SF_vars(Take(p)) /\ WF_vars(Give(p))

Spec == Init /\ [][Next]_vars /\ Fairness
-----------------------------------------------------------------------------
\* A scrape that has begun comes to its end: whoever it waits for, in the registries
\* or in the streams, is not waiting for a lock that is kept meanwhile, by somebody
\* else or by itself (main.go:398-536, 541-672; metrics.go:47-69).
EveryScrapeEnds == \A s \in Scrapers : path[s] # <<>> ~> path[s] = <<>>
=============================================================================
