----------------------------- MODULE UserStreams -----------------------------
(***************************************************************************)
(* One event stream per user: the userStreamRegistry of the SSE streamer    *)
(* and the connections to /events and /events/disconnect that use it.  A    *)
(* new connection takes over the user's lease under the lock and cancels    *)
(* the connection it replaced after the unlock; a connection that ends      *)
(* releases the lease only if it is still its own.                          *)
(*                                                                          *)
(* A connection stands for its stream id: ids are taken from the clock in   *)
(* nanoseconds and are assumed to differ.                                   *)
(***************************************************************************)
EXTENDS Naturals

CONSTANTS Users, Conns, Disconnects, None

ASSUME NoneAssumption == None \notin Conns /\ None \notin Users

VARIABLES
    pc,          \* how far each connection to /events has come
    user,        \* the subject of its token
    cancelled,   \* its context is cancelled
    previous,    \* the connection it has replaced and still has to cancel
    byUser,      \* the lease of each user
    disconnect   \* the lease a call of /events/disconnect took out, if any

vars == <<pc, user, cancelled, previous, byUser, disconnect>>

TypeOK ==
    /\ pc \in [Conns -> {"new", "replaced", "open", "leaving", "closed"}]
    /\ user \in [Conns -> Users \cup {None}]
    /\ cancelled \in [Conns -> BOOLEAN]
    /\ previous \in [Conns -> Conns \cup {None}]
    /\ byUser \in [Users -> Conns \cup {None}]
    /\ disconnect \in [Disconnects -> Conns \cup {None}]

Init ==
    /\ pc = [c \in Conns |-> "new"]
    /\ user = [c \in Conns |-> None]
    /\ cancelled = [c \in Conns |-> FALSE]
    /\ previous = [c \in Conns |-> None]
    /\ byUser = [u \in Users |-> None]
    /\ disconnect = [d \in Disconnects |-> None]

\* Mutant: the map is read after it was written.
Replace_readsLate(c, u) ==
    /\ pc[c] = "new"
    /\ pc' = [pc EXCEPT ![c] = "replaced"]
    /\ user' = [user EXCEPT ![c] = u]
    /\ byUser' = [byUser EXCEPT ![u] = c]
    /\ previous' = [previous EXCEPT ![c] = byUser'[u]]
    /\ UNCHANGED <<cancelled, disconnect>>

\* The token is valid: Replace.
Replace(c, u) ==
    /\ pc[c] = "new"
    /\ pc' = [pc EXCEPT ![c] = "replaced"]
    /\ user' = [user EXCEPT ![c] = u]
    /\ previous' = [previous EXCEPT ![c] = byUser[u]]
    /\ byUser' = [byUser EXCEPT ![u] = c]
    /\ UNCHANGED <<cancelled, disconnect>>

\* Mutant: the result of Replace is dropped.
CancelPrevious_never(c) ==
    /\ pc[c] = "replaced"
    /\ pc' = [pc EXCEPT ![c] = "open"]
    /\ previous' = [previous EXCEPT ![c] = None]
    /\ UNCHANGED <<user, cancelled, byUser, disconnect>>

\* if cancelPrev != nil { cancelPrev() }
CancelPrevious(c) ==
    /\ pc[c] = "replaced"
    /\ pc' = [pc EXCEPT ![c] = "open"]
    /\ cancelled' = [x \in Conns |-> cancelled[x] \/ x = previous[c]]
    /\ previous' = [previous EXCEPT ![c] = None]
    /\ UNCHANGED <<user, byUser, disconnect>>

\* The connection ends: its context is done, or one of the checks before the
\* loop fails.  The deferred cancelStream runs first.
Leave(c) ==
    /\ pc[c] = "open"
    /\ pc' = [pc EXCEPT ![c] = "leaving"]
    /\ cancelled' = [cancelled EXCEPT ![c] = TRUE]
    /\ UNCHANGED <<user, previous, byUser, disconnect>>

\* Mutant: the id is not compared.
Release_any(c) ==
    /\ pc[c] = "leaving"
    /\ pc' = [pc EXCEPT ![c] = "closed"]
    /\ byUser' = [byUser EXCEPT ![user[c]] = None]
    /\ UNCHANGED <<user, cancelled, previous, disconnect>>

\* The deferred Release.
Release(c) ==
    /\ pc[c] = "leaving"
    /\ pc' = [pc EXCEPT ![c] = "closed"]
    /\ byUser' = [byUser EXCEPT ![user[c]] = IF @ = c THEN None ELSE @]
    /\ UNCHANGED <<user, cancelled, previous, disconnect>>

\* The client goes away: the context of the request is cancelled.
HangUp(c) ==
    /\ pc[c] \in {"replaced", "open"}
    /\ ~ cancelled[c]
    /\ cancelled' = [cancelled EXCEPT ![c] = TRUE]
    /\ UNCHANGED <<pc, user, previous, byUser, disconnect>>

\* Cancel takes the lease out under the lock,
TakeLease(d, u) ==
    /\ disconnect[d] = None
    /\ byUser[u] # None
    /\ disconnect' = [disconnect EXCEPT ![d] = byUser[u]]
    /\ byUser' = [byUser EXCEPT ![u] = None]
    /\ UNCHANGED <<pc, user, cancelled, previous>>

\* and cancels it after the unlock.
CancelLease(d) ==
    /\ disconnect[d] # None
    /\ cancelled' = [cancelled EXCEPT ![disconnect[d]] = TRUE]
    /\ disconnect' = [disconnect EXCEPT ![d] = None]
    /\ UNCHANGED <<pc, user, previous, byUser>>

Next ==
    \/ \E c \in Conns :
         \/ \E u \in Users : Replace(c, u)
         \/ CancelPrevious(c) \/ Leave(c) \/ Release(c) \/ HangUp(c)
    \/ \E d \in Disconnects :
         (\E u \in Users : TakeLease(d, u)) \/ CancelLease(d)

Spec == Init /\ [][Next]_vars

\* Goroutines run on; a connection must end once its context is done, and no
\* client need hang up or disconnect.
Fairness ==
    /\ \A c \in Conns :
         WF_vars(CancelPrevious(c) \/ (cancelled[c] /\ Leave(c)) \/ Release(c))
    /\ \A d \in Disconnects : WF_vars(CancelLease(d))

FairSpec == Spec /\ Fairness

------------------------------------------------------------------------------
\* The stream of c goes on: it is in the handler and nobody has cancelled it.
Active(c) == pc[c] \in {"replaced", "open"} /\ ~ cancelled[c]

\* Somebody is about to cancel c.
CancelPending(c) ==
    \/ \E x \in Conns : previous[x] = c
    \/ \E d \in Disconnects : disconnect[d] = c

\* A stream that goes on holds its user's lease, or its cancellation is on the
\* way: a user never keeps two streams, and the gauge of online users misses
\* nobody, however replacements, releases and disconnects overlap.
ActiveIsLeased ==
    \A c \in Conns : Active(c) => byUser[user[c]] = c \/ CancelPending(c)

\* The lease of a user is a connection of that user which has not ended.
LeaseIsOpen ==
    \A u \in Users :
        byUser[u] # None =>
            user[byUser[u]] = u /\ pc[byUser[u]] \in {"replaced", "open", "leaving"}

\* A pending cancellation is never for the connection that holds the lease.
CancelMissesLease ==
    \A c \in Conns : CancelPending(c) => byUser[user[c]] # c

\* The lease stays with the newest connection of its user: a late Release or Cancel
\* leaves no stale one behind, and a cancel computed before a reconnect cannot hit
\* the new stream.
LeaseIsKept == LeaseIsOpen /\ CancelMissesLease

\* Whoever lost the lease while its stream was going ends, in the end.
ReplacedEnds ==
    \A c \in Conns :
        (pc[c] = "open" /\ byUser[user[c]] # c) ~> pc[c] = "closed"
==============================================================================
