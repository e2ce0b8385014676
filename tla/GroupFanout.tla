----------------------------- MODULE GroupFanout -----------------------------
(***************************************************************************)
(* The groupStreamRegistry of the SSE streamer for one group: connections   *)
(* share one groupStream, and that stream one NATS subscription.  The        *)
(* registry and each stream have a lock of their own; between two critical   *)
(* sections anybody may run, and the calls of the NATS client are made with  *)
(* no lock held.  Every critical section and every such call is one action.  *)
(***************************************************************************)
EXTENDS Naturals, FiniteSets

CONSTANTS
    Conns,       \* connections to /events for the group
    Streams,     \* groupStream objects
    Subs,        \* NATS subscriptions
    None,
    MaxFailures  \* bound on failed calls of js.Subscribe

NoneAssumption == None \notin Streams /\ None \notin Subs /\ MaxFailures \in Nat

VARIABLES
    byGroup,      \* registry.byGroup[groupID]
    subscribers,  \* stream.subscribers
    sub,          \* stream.sub
    live,         \* subscriptions the NATS client keeps open
    pc, stream,   \* where each connection is, and on which stream
    held,         \* a subscription it has in a local variable
    failures

vars == <<byGroup, subscribers, sub, live, pc, stream, held, failures>>

Steps == {"idle", "found", "added", "subscribing", "install", "surplus", "undo",
          "served", "stopping", "unlink"}

TypeOK ==
    /\ byGroup \in Streams \cup {None}
    /\ subscribers \in [Streams -> SUBSET Conns]
    /\ sub \in [Streams -> Subs \cup {None}]
    /\ live \in SUBSET Subs
    /\ pc \in [Conns -> Steps]
    /\ stream \in [Conns -> Streams \cup {None}]
    /\ held \in [Conns -> Subs \cup {None}]
    /\ failures \in 0 .. MaxFailures

Init ==
    /\ byGroup = None
    /\ subscribers = [s \in Streams |-> {}]
    /\ sub = [s \in Streams |-> None]
    /\ live = {}
    /\ pc = [c \in Conns |-> "idle"]
    /\ stream = [c \in Conns |-> None]
    /\ held = [c \in Conns |-> None]
    /\ failures = 0

Goto(c, step) == pc' = [pc EXCEPT ![c] = step]

\* A stream object nothing refers to any more, as good as a new one.
Unused(s) ==
    /\ byGroup # s /\ subscribers[s] = {} /\ sub[s] = None
    /\ \A c \in Conns : stream[c] # s

\* Subscribe finds the group's stream or makes one.
FindStream(c, s) ==
    /\ pc[c] = "idle"
    /\ IF byGroup = None THEN Unused(s) ELSE s = byGroup
    /\ byGroup' = s
    /\ stream' = [stream EXCEPT ![c] = s]
    /\ Goto(c, "found")
    /\ UNCHANGED <<subscribers, sub, live, held, failures>>

\* addSubscriber enters the connection into the stream.
AddSubscriber(c) ==
    /\ pc[c] = "found"
    /\ subscribers' = [subscribers EXCEPT ![stream[c]] = @ \cup {c}]
    /\ Goto(c, "added")
    /\ UNCHANGED <<byGroup, sub, live, stream, held, failures>>

\* ensureSubscription looks whether there is a subscription.
CheckSubscription(c) ==
    /\ pc[c] = "added"
    /\ Goto(c, IF sub[stream[c]] # None THEN "served" ELSE "subscribing")
    /\ UNCHANGED <<byGroup, subscribers, sub, live, stream, held, failures>>

\* js.Subscribe.
SubscribeNats(c, n) ==
    /\ pc[c] = "subscribing"
    /\ n \notin live
    /\ live' = live \cup {n}
    /\ held' = [held EXCEPT ![c] = n]
    /\ Goto(c, "install")
    /\ UNCHANGED <<byGroup, subscribers, sub, stream, failures>>

SubscribeNatsFails(c) ==
    /\ pc[c] = "subscribing"
    /\ failures < MaxFailures
    /\ failures' = failures + 1
    /\ Goto(c, "undo")
    /\ UNCHANGED <<byGroup, subscribers, sub, live, stream, held>>

\* Mutant: no second look at the subscription.
Install_overwrites(c) ==
    /\ pc[c] = "install"
    /\ sub' = [sub EXCEPT ![stream[c]] = held[c]]
    /\ held' = [held EXCEPT ![c] = None]
    /\ Goto(c, "served")
    /\ UNCHANGED <<byGroup, subscribers, live, stream, failures>>

\* It keeps the subscription unless another connection was faster.
Install(c) ==
    /\ pc[c] = "install"
    /\ IF sub[stream[c]] = None
       THEN /\ sub' = [sub EXCEPT ![stream[c]] = held[c]]
            /\ held' = [held EXCEPT ![c] = None]
            /\ Goto(c, "served")
       ELSE Goto(c, "surplus") /\ UNCHANGED <<sub, held>>
    /\ UNCHANGED <<byGroup, subscribers, live, stream, failures>>

DropSurplus(c) ==
    /\ pc[c] = "surplus"
    /\ live' = live \ {held[c]}
    /\ held' = [held EXCEPT ![c] = None]
    /\ Goto(c, "served")
    /\ UNCHANGED <<byGroup, subscribers, sub, stream, failures>>

\* addSubscriber takes the connection out again; Subscribe returns the error.
Undo(c) ==
    /\ pc[c] = "undo"
    /\ subscribers' = [subscribers EXCEPT ![stream[c]] = @ \ {c}]
    /\ stream' = [stream EXCEPT ![c] = None]
    /\ Goto(c, "idle")
    /\ UNCHANGED <<byGroup, sub, live, held, failures>>

\* Mutant: whoever leaves takes the subscription.
RemoveSubscriber_stopsAlways(c) ==
    LET s == stream[c]
    IN  /\ pc[c] = "served"
        /\ subscribers' = [subscribers EXCEPT ![s] = @ \ {c}]
        /\ held' = [held EXCEPT ![c] = sub[s]]
        /\ sub' = [sub EXCEPT ![s] = None]
        /\ Goto(c, "stopping")
        /\ UNCHANGED <<byGroup, live, stream, failures>>

\* The connection ends: removeSubscriber takes it out, and the last one takes
\* the subscription with it.
RemoveSubscriber(c) ==
    LET s == stream[c]
        left == subscribers[s] \ {c}
    IN  /\ pc[c] = "served"
        /\ subscribers' = [subscribers EXCEPT ![s] = left]
        /\ IF left = {}
           THEN /\ held' = [held EXCEPT ![c] = sub[s]]
                /\ sub' = [sub EXCEPT ![s] = None]
                /\ Goto(c, "stopping")
                /\ UNCHANGED stream
           ELSE /\ stream' = [stream EXCEPT ![c] = None]
                /\ Goto(c, "idle")
                /\ UNCHANGED <<held, sub>>
        /\ UNCHANGED <<byGroup, live, failures>>

StopSubscription(c) ==
    /\ pc[c] = "stopping"
    /\ live' = live \ {held[c]}
    /\ held' = [held EXCEPT ![c] = None]
    /\ Goto(c, "unlink")
    /\ UNCHANGED <<byGroup, subscribers, sub, stream, failures>>

\* Mutant: the stream stays in the registry.
Unlink_never(c) ==
    /\ pc[c] = "unlink"
    /\ stream' = [stream EXCEPT ![c] = None]
    /\ Goto(c, "idle")
    /\ UNCHANGED <<byGroup, subscribers, sub, live, held, failures>>

\* unsubscribe takes the stream out of the registry if it is still there.
Unlink(c) ==
    /\ pc[c] = "unlink"
    /\ byGroup' = IF byGroup = stream[c] THEN None ELSE byGroup
    /\ stream' = [stream EXCEPT ![c] = None]
    /\ Goto(c, "idle")
    /\ UNCHANGED <<subscribers, sub, live, held, failures>>

Next ==
    \E c \in Conns :
        \/ \E s \in Streams : FindStream(c, s)
        \/ AddSubscriber(c) \/ CheckSubscription(c)
        \/ \E n \in Subs : SubscribeNats(c, n)
        \/ SubscribeNatsFails(c) \/ Install(c) \/ DropSurplus(c) \/ Undo(c)
        \/ RemoveSubscriber(c) \/ StopSubscription(c) \/ Unlink(c)

Spec == Init /\ [][Next]_vars

------------------------------------------------------------------------------
\* What the gauge of the group streams reads.
CountGroups == Cardinality({byGroup} \ {None})

\* A connection that was told it is subscribed gets events: it is among the
\* subscribers of its stream, whose subscription is open, however the arrival
\* and the departure of others overlap with its own.
ServedHasFanout ==
    \A c \in Conns :
        pc[c] = "served" =>
            /\ c \in subscribers[stream[c]]
            /\ sub[stream[c]] \in live

\* Every open subscription is the one of a stream, or in the hands of exactly
\* one connection that will install or close it: none is closed twice or lost.
NoLostSubscription ==
    \A n \in live :
        Cardinality({ s \in Streams : sub[s] = n } \cup { c \in Conns : held[c] = n }) = 1

\* While js.Subscribe does not fail, a group that everybody has left leaves
\* nothing behind, in whatever order they came and went: no entry in the
\* registry (which the gauge of streams counts) and no open subscription.
NothingLeftAtRest ==
    failures = 0 /\ (\A c \in Conns : pc[c] = "idle") => CountGroups = 0 /\ live = {}
==============================================================================
