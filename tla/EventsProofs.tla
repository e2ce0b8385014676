----------------------------- MODULE EventsProofs -----------------------------
(***************************************************************************)
(* For any connections, stream objects and subscriptions of the fan-out: who  *)
(* is served hears events, no subscription is lost or closed twice, and a     *)
(* group that everybody has left leaves nothing behind.  For any clients and  *)
(* sinks: who waited for its own command reads it, and a board that waited    *)
(* misses only what no sink had settled.                                     *)
(***************************************************************************)
EXTENDS MCEvents, FiniteSetTheorems, WellFoundedInduction, TLAPS

(* The fan-out.                                                              *)

\* A connection is registered with its stream from addSubscriber to
\* removeSubscriber, and has a subscription in its hands only between a call of
\* the NATS client and what follows it.
Registered == {"added", "subscribing", "install", "surplus", "undo", "served"}

ConnsOK ==
    \A c \in Conns :
        /\ stream[c] = None <=> pc[c] = "idle"
        /\ held[c] # None <=> pc[c] \in {"install", "surplus", "stopping"}
        /\ \A s \in Streams :
             c \in subscribers[s] <=> stream[c] = s /\ pc[c] \in Registered

\* A connection gives its own subscription up only for one its stream has; that
\* stream keeps it as long as the connection is registered.
StreamKeepsSub ==
    \A c \in Conns : pc[c] \in {"surplus", "served"} => sub[stream[c]] # None

\* The subscriptions of streams, and those in hands, are open and all different.
OwnersDiffer ==
    /\ \A s \in Streams : sub[s] # None =>
         /\ sub[s] \in live
         /\ \A t \in Streams : sub[t] = sub[s] => t = s
    /\ \A c \in Conns : held[c] # None =>
         /\ held[c] \in live
         /\ \A d \in Conns : held[d] = held[c] => d = c
         /\ \A s \in Streams : sub[s] # held[c]

\* What is open has an owner.
OpenIsOwned ==
    \A n \in live : \/ \E s \in Streams : sub[s] = n
                    \/ \E c \in Conns : held[c] = n

\* Without failures, the registry's stream is in use by somebody, and a stream
\* that has a subscription has a subscriber.
InUse ==
    /\ \A c \in Conns : pc[c] = "undo" => failures > 0
    /\ failures = 0 =>
         /\ byGroup # None => \E c \in Conns : stream[c] = byGroup
         /\ \A s \in Streams : sub[s] # None => subscribers[s] # {}

FInv == F!TypeOK /\ ConnsOK /\ StreamKeepsSub /\ OwnersDiffer /\ OpenIsOwned /\ InUse

LEMMA FanoutInit == F!Init => FInv
  BY FanoutAssumption
  DEF F!NoneAssumption, F!Init, FInv, F!TypeOK, F!Steps, ConnsOK, StreamKeepsSub,
      OwnersDiffer, OpenIsOwned, InUse, Registered

-----------------------------------------------------------------------------
LEMMA FanoutStep == ASSUME FInv, F!Next PROVE FInv'
<1> USE FanoutAssumption
    DEF F!NoneAssumption, FInv, F!TypeOK, F!Steps, F!Goto, ConnsOK, Registered,
        StreamKeepsSub, OwnersDiffer, OpenIsOwned, InUse
<1>0. PICK c \in Conns :
        \/ \E s \in Streams : F!FindStream(c, s)
        \/ F!AddSubscriber(c) \/ F!CheckSubscription(c)
        \/ \E n \in Subs : F!SubscribeNats(c, n)
        \/ F!SubscribeNatsFails(c) \/ F!Install(c) \/ F!DropSurplus(c) \/ F!Undo(c)
        \/ F!RemoveSubscriber(c) \/ F!StopSubscription(c) \/ F!Unlink(c)
      BY DEF F!Next
<1>1. CASE \E s \in Streams : F!FindStream(c, s)  BY <1>1 DEF F!FindStream, F!Unused
<1>2. CASE F!AddSubscriber(c)  BY <1>2 DEF F!AddSubscriber
<1>3. CASE F!CheckSubscription(c)  BY <1>3 DEF F!CheckSubscription
<1>4. CASE \E n \in Subs : F!SubscribeNats(c, n)  BY <1>4 DEF F!SubscribeNats
<1>5. CASE F!SubscribeNatsFails(c)  BY <1>5 DEF F!SubscribeNatsFails
<1>6. CASE F!Install(c)  BY <1>6 DEF F!Install
<1>7. CASE F!DropSurplus(c)  BY <1>7 DEF F!DropSurplus
<1>8. CASE F!Undo(c)  BY <1>8 DEF F!Undo
<1>9. CASE F!RemoveSubscriber(c)  BY <1>9 DEF F!RemoveSubscriber
<1>10. CASE F!StopSubscription(c)  BY <1>10 DEF F!StopSubscription
<1>11. CASE F!Unlink(c)  BY <1>11 DEF F!Unlink
<1> QED  BY <1>0, <1>1, <1>2, <1>3, <1>4, <1>5, <1>6, <1>7, <1>8, <1>9, <1>10, <1>11

LEMMA FanoutInvariance == F!Spec => []FInv
<1>1. FInv /\ UNCHANGED F!vars => FInv'
  BY DEF FInv, F!TypeOK, ConnsOK, StreamKeepsSub, OwnersDiffer, OpenIsOwned, InUse, F!vars
<1> QED  BY FanoutInit, FanoutStep, <1>1, PTL DEF F!Spec

\* Registry, streams and connections keep their types, and no more subscriptions
\* fail than may.
THEOREM FanoutTypesCorrect == F!Spec => []F!TypeOK
<1>1. FInv => F!TypeOK
  BY DEF FInv
<1> QED  BY FanoutInvariance, <1>1, PTL

\* The two copies of FiniteSets agree.
LEMMA SameCardinality == \A T : F!Cardinality(T) = Cardinality(T)
  BY DEF F!Cardinality, Cardinality

\* A connection that was told it is subscribed is among the subscribers of its
\* stream, and the stream's subscription is open (groupStreamRegistry.Subscribe).
THEOREM ServedIsHeard == F!Spec => []ServedHasFanout
<1>1. FInv => ServedHasFanout
  BY DEF FInv, F!TypeOK, ConnsOK, Registered, StreamKeepsSub, OwnersDiffer,
         ServedHasFanout, F!ServedHasFanout
<1> QED  BY FanoutInvariance, <1>1, PTL

\* Every open subscription belongs to one stream or one connection and to no
\* other, so it is closed once (ensureSubscription, removeSubscriber).
THEOREM SubscriptionsAreOwned == F!Spec => []NoLostSubscription
<1>1. ASSUME FInv, NEW n \in live
      PROVE  Cardinality({s \in Streams : sub[s] = n} \cup {c \in Conns : held[c] = n}) = 1
  <2> DEFINE owners == {s \in Streams : sub[s] = n} \cup {c \in Conns : held[c] = n}
  <2>1. n # None
    BY <1>1, FanoutAssumption DEF FInv, F!TypeOK, F!NoneAssumption
  <2>2. PICK o : owners = {o}
    <3>1. CASE \E s \in Streams : sub[s] = n
      <4>1. PICK s \in Streams : sub[s] = n  BY <3>1
      <4>2. owners = {s}  BY <1>1, <2>1, <4>1 DEF FInv, OwnersDiffer
      <4> QED  BY <4>2
    <3>2. CASE \E c \in Conns : held[c] = n
      <4>1. PICK c \in Conns : held[c] = n  BY <3>2
      <4>2. owners = {c}  BY <1>1, <2>1, <4>1 DEF FInv, OwnersDiffer
      <4> QED  BY <4>2
    <3> QED  BY <1>1, <3>1, <3>2 DEF FInv, OpenIsOwned
  <2> QED  BY <2>2, FS_Singleton
<1>2. FInv => NoLostSubscription
  BY <1>1, SameCardinality DEF NoLostSubscription, F!NoLostSubscription
<1> QED  BY FanoutInvariance, <1>2, PTL

\* When nobody is connected, and no js.Subscribe failed, the registry is empty and
\* no subscription is open, in whatever order the connections came and went.
THEOREM NothingIsLeft == F!Spec => []NothingLeftAtRest
<1>1. ASSUME FInv, failures = 0, \A c \in Conns : pc[c] = "idle"
      PROVE  byGroup = None /\ live = {}
  <2>1. byGroup = None
    BY <1>1 DEF FInv, F!TypeOK, ConnsOK, InUse
  <2>2. \A s \in Streams : subscribers[s] = {} /\ sub[s] = None
    BY <1>1 DEF FInv, F!TypeOK, ConnsOK, Registered, InUse
  <2>3. \A c \in Conns : held[c] = None
    BY <1>1 DEF FInv, ConnsOK
  <2> QED
    BY <1>1, <2>1, <2>2, <2>3, FanoutAssumption
    DEF FInv, F!TypeOK, OpenIsOwned, F!NoneAssumption
<1>2. {None} \ {None} = {}
  OBVIOUS
<1>3. FInv => NothingLeftAtRest
  BY <1>1, <1>2, FS_EmptySet, SameCardinality DEF NothingLeftAtRest, F!NothingLeftAtRest,
     F!CountGroups
<1> QED  BY FanoutInvariance, <1>3, PTL
-----------------------------------------------------------------------------
(* Reading after waiting.                                                    *)

Above(T, k) == { m \in T : m > k }
Newest(T) == { k \in T : Cardinality(Above(T, k)) < Limit }

\* Of a finite set of todos, one that is not among the newest has Limit newer ones
\* that are.
LEMMA NewestAreShown ==
    ASSUME NEW T \in SUBSET Nat, IsFiniteSet(T), NEW n \in T
    PROVE  Shows(Newest(T), n)
<1> DEFINE list == Newest(T)
           above(k) == Above(T, k)
           shown == Above(list, n)
           hidden == { k \in T : k > n /\ k \notin list }
<1> SUFFICES ASSUME n \notin list, ~ (Cardinality(shown) >= Limit)
             PROVE  FALSE
  BY DEF Shows, Above
<1>1. shown \in SUBSET T /\ \A k \in T : k \in Nat /\ above(k) \in SUBSET T
  BY DEF Newest, Above
<1>2. ASSUME NEW S, S \in SUBSET T  PROVE IsFiniteSet(S) /\ Cardinality(S) \in Nat
  BY <1>2, FS_Subset, FS_CardinalityType
<1>3. \A k \in T : k \in list <=> Cardinality(above(k)) < Limit
  BY DEF Newest
<1>5. hidden # {}
  <2>1. SUFFICES ASSUME hidden = {}  PROVE FALSE  OBVIOUS
  <2>2. shown = above(n)  BY <1>1, <2>1 DEF Above, Newest
  <2> QED  BY <1>3, <2>2, <1>1, <1>2, BoundsAssumption
\* Some hidden todo has the fewest above it, so all above it are shown.
<1>6. PICK k \in hidden : \A j \in hidden : ~ (j > k)
  <2> DEFINE sets == { above(j) : j \in hidden }
  <2>1. sets \subseteq FiniteSubsetsOf(T) /\ sets # {}
    BY <1>1, <1>2, <1>5 DEF FiniteSubsetsOf
  <2>2. PICK A \in sets : \A B \in sets : ~ (<<B, A>> \in StrictSubsetOrdering(T))
    <3> HIDE DEF sets
    <3> QED  BY <2>1, FS_StrictSubsetOrderingWellFounded, WFMin
  <2>3. PICK k \in hidden : A = above(k)
    BY <2>2
  <2>4. ASSUME NEW j \in hidden, j > k  PROVE FALSE
    <3>1. \A m \in T : m > j => m > k
      BY <1>1, <2>4
    <3>2. above(j) \subseteq above(k) /\ j \in above(k) /\ j \notin above(j)
      <4>1. j \in T /\ ~ (j > j)  BY <1>1
      <4> QED  BY <2>4, <3>1, <4>1 DEF Above
    <3>3. <<above(j), above(k)>> \in StrictSubsetOrdering(T)
      BY <3>2, <1>1 DEF StrictSubsetOrdering
    <3> QED  BY <2>2, <2>3, <3>3
  <2> QED  BY <2>3, <2>4
<1>7. above(k) \subseteq shown
  <2>1. ASSUME NEW m \in T, m > k  PROVE m > n /\ m \in list
    <3>1. m > n  BY <1>1, <1>6, <2>1
    <3> QED  BY <1>6, <2>1, <3>1
  <2> QED  BY <2>1 DEF Above
<1>8. Cardinality(above(k)) <= Cardinality(shown)
  <2> HIDE DEF shown
  <2> QED  BY <1>1, <1>2, <1>7, FS_Subset
<1>9. Cardinality(shown) \in Nat /\ Cardinality(above(k)) \in Nat
  <2> HIDE DEF shown
  <2> QED  BY <1>1, <1>2, <1>6
<1> QED
  <2>1. ~ (Cardinality(above(k)) < Limit)  BY <1>3, <1>6
  <2> HIDE DEF shown
  <2> QED  BY <2>1, <1>8, <1>9, BoundsAssumption

\* What is acknowledged, or handled and about to be, is in the tables, and
\* whatever a sink has or has applied is among the messages given out so far.
WorkerOK(w, done, given) ==
    /\ w.inbox \in Seq(given)
    /\ w.done \in BOOLEAN
    /\ w.done = TRUE => w.inbox # <<>> /\ Current(w) \in done

Given == 1 .. queue.next

TablesOK ==
    /\ published \in Nat
    /\ todos = todo_events
    /\ todos \in SUBSET Nat /\ IsFiniteSet(todos)
    /\ queue = [next |-> queue.next, due |-> queue.due, acked |-> queue.acked]
    /\ queue.next \in Nat /\ queue.due \subseteq Given
    /\ queue.acked \subseteq todos /\ todos \subseteq Given
    /\ DOMAIN sinks = Sinks
    /\ \A s \in Sinks : WorkerOK(sinks[s], todos, Given)

\* The offset of the group is an event that was applied.
OffsetOK ==
    /\ offset = NoRow \/ offset \in todos
    /\ notified \in Nat /\ pendingSeq \in Nat
    /\ refresh # Idle => refresh.target \in Nat

\* A client was told that its command is applied only when it was.
ClientOK(c) ==
    /\ client[c].pc \in {"answered", "shown"} => client[c].applied \in BOOLEAN
    /\ client[c].pc = "answered" /\ client[c].applied = TRUE => client[c].event \in todos
    /\ client[c].pc = "shown" /\ client[c].applied = TRUE =>
         Shows(client[c].list, client[c].event)

ClientsOK == DOMAIN client = Clients /\ \A c \in Clients : ClientOK(c)

BInv == TablesOK /\ OffsetOK /\ ClientsOK /\ BoardMissesOnlyOpenEvents

LEMMA ListShows ==
    ASSUME TablesOK, NEW n \in todos  PROVE Shows(ListGroupTodos, n)
<1>1. ListGroupTodos = Newest(todos)
  BY DEF ListGroupTodos, Newest, Above
<1> QED  BY <1>1, NewestAreShown DEF TablesOK

\* What each step of a sink makes of its inbox.
LEMMA ReceiverIsOK ==
    ASSUME NEW w, NEW done, NEW given, WorkerOK(w, done, given), NEW n \in given
    PROVE  WorkerOK(Receives(w, n), done, given)
<1>1. w.inbox \in Seq(given)
  BY DEF WorkerOK
<1> DEFINE longer == Append(w.inbox, n)
<1>2. longer \in Seq(given) /\ longer # <<>> /\ (w.inbox # <<>> => Head(longer) = Head(w.inbox))
  <2>1. longer \in Seq(given) /\ Len(longer) = Len(w.inbox) + 1 /\ longer[1] = Head(longer)
    BY <1>1
  <2>2. w.inbox # <<>> => Len(w.inbox) >= 1 /\ longer[1] = w.inbox[1] /\ w.inbox[1] = Head(w.inbox)
    BY <1>1
  <2>3. Len(w.inbox) \in Nat
    BY <1>1
  <2>4. longer # <<>>
    BY <2>1, <2>3
  <2> QED
    <3> HIDE DEF longer
    <3> QED  BY <2>1, <2>2, <2>4
<1>3. Receives(w, n).inbox = longer /\ Receives(w, n).done = w.done
  BY DEF Receives, WorkerOK
<1> QED
  <2> HIDE DEF longer
  <2> QED  BY <1>2, <1>3 DEF WorkerOK, Current

LEMMA WorkerSteps ==
    ASSUME NEW w, NEW done, NEW given, WorkerOK(w, done, given), w.inbox # <<>>
    PROVE  /\ Current(w) \in given
           /\ WorkerOK(Works(w), done \cup {Current(w)}, given)
           /\ WorkerOK(Returns(w), done, given)
<1>1. w.inbox \in Seq(given) /\ w.done \in BOOLEAN
  BY DEF WorkerOK
<1>2. Head(w.inbox) \in given /\ Tail(w.inbox) \in Seq(given)
  BY <1>1
<1> QED  BY <1>1, <1>2 DEF WorkerOK, Current, Works, Returns

LEMMA IdleIsOK == ASSUME NEW done, NEW given PROVE WorkerOK(IdleWorker, done, given)
  BY DEF IdleWorker, WorkerOK

LEMMA WorkersGrow ==
    ASSUME NEW w, NEW done, NEW given, WorkerOK(w, done, given),
           NEW more, done \subseteq more, NEW further, given \subseteq further
    PROVE  WorkerOK(w, more, further)
  BY DEF WorkerOK

LEMMA BoardInit == Init => BInv
<1> SUFFICES ASSUME Init PROVE BInv  OBVIOUS
<1>1. TablesOK
  BY IdleIsOK, FS_EmptySet DEF Init, TablesOK, NewConsumer, Given
<1>2. OffsetOK /\ ClientsOK
  BY DEF Init, OffsetOK, ClientsOK, ClientOK, Idle
<1>3. BoardMissesOnlyOpenEvents
  BY DEF Init, BoardMissesOnlyOpenEvents
<1> QED  BY <1>1, <1>2, <1>3 DEF BInv

\* The tables only grow, and no step acknowledges what they lack.
LEMMA TablesStep ==
    ASSUME TablesOK, [Next]_vars  PROVE TablesOK' /\ todos \subseteq todos'
<1>1. CASE published' \in Nat /\ UNCHANGED <<sinkVars, dbVars>>
  BY <1>1 DEF TablesOK, Given, sinkVars, dbVars
<1>2. ASSUME NEW s \in Sinks, NEW n \in 1 .. published, SinkTake(s, n)
      PROVE  TablesOK' /\ todos \subseteq todos'
  <2>1. /\ n \in Nat /\ n >= 1
        /\ n = queue.next + 1 \/ n \in queue.due
        /\ queue'.next = IF n = queue.next + 1 THEN n ELSE queue.next
        /\ queue'.due = queue.due \ {n} /\ queue'.acked = queue.acked
        /\ queue' = [next |-> queue'.next, due |-> queue'.due, acked |-> queue'.acked]
    BY <1>2 DEF TablesOK, SinkTake, Delivered, Deliverable
  <2>2. queue'.next \in Nat /\ n \in Given' /\ Given \subseteq Given'
    BY <2>1 DEF TablesOK, Given
  <2>3. \A t \in Sinks : WorkerOK(sinks[t], todos, Given')
    BY <2>2, WorkersGrow DEF TablesOK
  <2>4. WorkerOK(Receives(sinks[s], n), todos, Given')
    BY <2>2, <2>3, ReceiverIsOK
  <2>5. UNCHANGED <<published, dbVars>> /\ sinks' = [sinks EXCEPT ![s] = Receives(@, n)]
    BY <1>2 DEF SinkTake
  <2>6. \A t \in Sinks : WorkerOK(sinks'[t], todos, Given')
    BY <2>3, <2>4, <2>5 DEF TablesOK
  <2> QED  BY <2>1, <2>2, <2>5, <2>6 DEF TablesOK, dbVars
<1>3. ASSUME NEW s \in Sinks, SinkCommit(s)  PROVE TablesOK' /\ todos \subseteq todos'
  <2> DEFINE n == Current(sinks[s])
  <2>1. n \in Given /\ WorkerOK(Works(sinks[s]), todos \cup {n}, Given)
    BY <1>3, WorkerSteps DEF TablesOK, SinkCommit, Handling, WorkerOK, Current
  <2>2. \A t \in Sinks : WorkerOK(sinks[t], todos \cup {n}, Given)
    BY WorkersGrow DEF TablesOK
  <2>3. IsFiniteSet(todos \cup {n})
    BY FS_AddElement DEF TablesOK
  <2>4. /\ todos' = todos \cup {n} /\ todo_events' = todo_events \cup {n}
        /\ sinks' = [sinks EXCEPT ![s] = Works(@)]
        /\ UNCHANGED <<published, queue>> /\ Given' = Given
    BY <1>3 DEF SinkCommit, InsertEvent, Given
  <2>5. /\ todos' \in SUBSET Nat /\ todos' \subseteq Given' /\ queue'.acked \subseteq todos'
        /\ todos' = todo_events'
    BY <2>1, <2>4 DEF TablesOK, Given
  <2>6. \A t \in Sinks : WorkerOK(sinks'[t], todos', Given')
    <3> HIDE DEF n
    <3> QED  BY <2>1, <2>2, <2>4 DEF TablesOK
  <2> HIDE DEF n
  <2> QED  BY <2>3, <2>4, <2>5, <2>6 DEF TablesOK
<1>4. ASSUME NEW s \in Sinks, SinkAck(s)  PROVE TablesOK' /\ todos \subseteq todos'
  <2>1. WorkerOK(Returns(sinks[s]), todos, Given) /\ Current(sinks[s]) \in todos
    BY <1>4, WorkerSteps DEF TablesOK, SinkAck, Acking, WorkerOK, Current
  <2> QED  BY <1>4, <2>1 DEF TablesOK, Given, SinkAck, Settled, dbVars
<1>5. ASSUME NEW s \in Sinks, SinkFails(s)  PROVE TablesOK' /\ todos \subseteq todos'
  <2>1. /\ WorkerOK(Returns(sinks[s]), todos, Given)
        /\ {Current(sinks[s])} \subseteq Given
    BY <1>5, WorkerSteps DEF TablesOK, SinkFails, Handling, WorkerOK, Current
  <2> QED  BY <1>5, <2>1 DEF TablesOK, Given, SinkFails, Requeued, dbVars
<1>6. ASSUME NEW s \in Sinks, SinkCrash(s)  PROVE TablesOK' /\ todos \subseteq todos'
  <2>1. Held(sinks[s]) \subseteq Given
    BY DEF TablesOK, WorkerOK, Held
  <2> QED  BY <1>6, <2>1, IdleIsOK DEF TablesOK, Given, SinkCrash, Requeued, dbVars
<1>7. \/ SinkStep
      \/ published' \in Nat /\ UNCHANGED <<sinkVars, dbVars>>
  BY DEF TablesOK, Next, vars, Post, CommandApplied, CommandLate, ListTodos,
     ScheduleSnapshot,
         RunSnapshotRefresh, OffsetReached, OffsetLate, SendList
<1> QED  BY <1>1, <1>2, <1>3, <1>4, <1>5, <1>6, <1>7 DEF SinkStep

\* Only an event that is applied moves the offset.
LEMMA OffsetStep ==
    ASSUME BInv, [Next]_vars, todos \subseteq todos'  PROVE OffsetOK'
<1> USE DEF BInv, TablesOK, OffsetOK
<1>1. CASE UNCHANGED <<offset, notified, pendingSeq, refresh>>
  BY <1>1
<1>2. ASSUME NEW s \in Sinks, SinkCommit(s)  PROVE OffsetOK'
  <2>1. /\ UNCHANGED <<notified, pendingSeq, refresh>>
        /\ todos' = todos \cup {Current(sinks[s])}
        /\ \/ offset' = Current(sinks[s]) \/ offset' = offset
    BY <1>2 DEF SinkCommit, InsertEvent, Larger, streamVars
  <2> QED  BY <2>1
<1>3. CASE ScheduleSnapshot \/ RunSnapshotRefresh
  BY <1>3 DEF ScheduleSnapshot, RunSnapshotRefresh, dbVars
<1>4. CASE OffsetReached \/ OffsetLate
  BY <1>4 DEF OffsetReached, OffsetLate, SendList, dbVars
<1>5. \/ UNCHANGED <<offset, notified, pendingSeq, refresh>>
      \/ \E s \in Sinks : SinkCommit(s)
      \/ ScheduleSnapshot \/ RunSnapshotRefresh \/ OffsetReached \/ OffsetLate
  BY DEF Next, vars, dbVars, streamVars, SinkStep, SinkTake, SinkAck, SinkFails, SinkCrash,
     Post, CommandApplied, CommandLate, ListTodos
<1> QED  BY <1>1, <1>2, <1>3, <1>4, <1>5

LEMMA ClientsStep ==
    ASSUME BInv, [Next]_vars, todos \subseteq todos'  PROVE ClientsOK'
<1> USE DEF BInv, ClientsOK, ClientOK
<1>1. CASE UNCHANGED client
  BY <1>1
<1>2. ASSUME NEW c \in Clients, Post(c)  PROVE ClientsOK'
  BY <1>2 DEF Post
<1>3. ASSUME NEW c \in Clients, CommandApplied(c)  PROVE ClientsOK'
  BY <1>3 DEF CommandApplied, dbVars, TablesOK
<1>4. ASSUME NEW c \in Clients, CommandLate(c)  PROVE ClientsOK'
  BY <1>4 DEF CommandLate
<1>5. ASSUME NEW c \in Clients, ListTodos(c)  PROVE ClientsOK'
  <2>1. client[c].applied = TRUE => Shows(ListGroupTodos, client[c].event)
    BY <1>5, ListShows DEF ListTodos
  <2> QED  BY <1>5, <2>1 DEF ListTodos
<1>6. \/ UNCHANGED client
      \/ \E c \in Clients : Post(c) \/ CommandApplied(c) \/ CommandLate(c) \/ ListTodos(c)
  BY DEF Next, vars, SinkStep, SinkTake, SinkCommit, SinkAck, SinkFails, SinkCrash,
         ScheduleSnapshot, RunSnapshotRefresh, OffsetReached, OffsetLate, SendList
<1> QED  BY <1>1, <1>2, <1>3, <1>4, <1>5, <1>6

\* The wait is what counts: the offset is an event that was given to a sink, and
\* with it every event before it.
LEMMA BoardStep ==
    ASSUME BInv, [Next]_vars  PROVE BoardMissesOnlyOpenEvents'
<1>1. CASE UNCHANGED board
  BY <1>1 DEF BInv, BoardMissesOnlyOpenEvents
<1>2. CASE OffsetReached
  <2>1. refresh.target \in Nat /\ GetGroupProjectionOffset >= refresh.target
    BY <1>2 DEF OffsetReached, BInv, OffsetOK
  <2>2. refresh.target <= queue.next
    <3>1. CASE offset = NoRow
      BY <2>1, <3>1 DEF GetGroupProjectionOffset, BInv, TablesOK
    <3>2. CASE offset # NoRow
      <4>1. offset \in 1 .. queue.next /\ offset >= refresh.target
        BY <2>1, <3>2 DEF GetGroupProjectionOffset, BInv, OffsetOK, TablesOK, Given
      <4> QED  BY <2>1, <4>1 DEF BInv, TablesOK
    <3> QED  BY <3>1, <3>2
  <2>3. \A n \in queue.acked : Shows(ListGroupTodos, n)
    BY ListShows DEF BInv, TablesOK
  <2>4. \A n \in 1 .. refresh.target : n \in Open \/ n \in queue.acked
    BY <2>1, <2>2 DEF Open, BInv, TablesOK
  <2>5. /\ board'.target = refresh.target /\ board'.list = ListGroupTodos
        /\ board'.open = Open \cap (1 .. refresh.target)
    BY <1>2 DEF OffsetReached, SendList
  <2> QED  BY <2>3, <2>4, <2>5 DEF BoardMissesOnlyOpenEvents
<1>3. CASE OffsetLate
  BY <1>3 DEF OffsetLate, SendList, BoardMissesOnlyOpenEvents
<1>4. UNCHANGED board \/ OffsetReached \/ OffsetLate
  BY DEF Next, vars, streamVars, SinkStep, SinkTake, SinkCommit, SinkAck, SinkFails,
         SinkCrash, Post, CommandApplied, CommandLate, ListTodos, ScheduleSnapshot,
         RunSnapshotRefresh
<1> QED  BY <1>1, <1>2, <1>3, <1>4

LEMMA BoardInvariance == Spec => []BInv
<1>1. BInv /\ [Next]_vars => BInv'
  BY TablesStep, OffsetStep, ClientsStep, BoardStep DEF BInv
<1> QED  BY BoardInit, <1>1, PTL DEF Spec

\* A client that was answered because its command is applied finds the todo in its
\* next list, or Limit newer ones (waitForCommandProjection, ListGroupTodos).
THEOREM WritesAreRead == Spec => []ReadYourWrites
<1>1. BInv => ReadYourWrites
  BY DEF BInv, ClientsOK, ClientOK, ReadYourWrites
<1> QED  BY BoardInvariance, <1>1, PTL

\* A board that waited until the offset reached its target shows every event up to
\* it, or Limit newer ones, except those that some sink had been given and none had
\* settled (waitForProjectionOffset, runSnapshotRefresh).
THEOREM BoardsMissOpenEventsOnly == Spec => []BoardMissesOnlyOpenEvents
<1>1. BInv => BoardMissesOnlyOpenEvents
  BY DEF BInv
<1> QED  BY BoardInvariance, <1>1, PTL

------------------------------------------------------------------------------
(* The two halves together.                                                  *)

\* While lists are read the fan-out stands still, and the other way round: what
\* is proved of each holds of the specification that TLC runs.
LEMMA HalvesOfEvents == MCSpec => Spec /\ F!Spec
<1>1. MCInit => Init /\ F!Init
  BY DEF MCInit
<1>2. [MCNext]_<<part, vars, fanoutVars>> => [Next]_vars
  BY DEF MCNext
<1>3. [MCNext]_<<part, vars, fanoutVars>> => [F!Next]_(F!vars)
  BY DEF MCNext, fanoutVars, F!vars
<1> QED  BY <1>1, <1>2, <1>3, PTL DEF MCSpec, Spec, F!Spec
=============================================================================
