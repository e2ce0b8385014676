---------------------------- MODULE StreamerProofs ----------------------------
(***************************************************************************)
(* The connections of the streamer, for any users, connections, streams,     *)
(* calls of /events/disconnect and scrapes.                                  *)
(*   UserStreams: a user never keeps two streams, a lease is never stale, and *)
(* a cancellation that is on its way never hits the connection that holds the *)
(* lease.                                                                    *)
(*   Metrics: whoever waits for a lock waits for somebody who gives it back.  *)
(***************************************************************************)
EXTENDS MCStreamer, TLAPS, SequenceTheorems, FiniteSetTheorems

-----------------------------------------------------------------------------
(* The leases of the users.                                                  *)


\* Only a connection that came through Replace has a user, and only one that
\* has not cancelled its predecessor yet remembers it.
HandlersOK ==
    \A c \in Conns :
        /\ pc[c] # "new" => user[c] \in Users
        /\ previous[c] # None => pc[c] = "replaced"

\* Whoever is about to be cancelled has connected before.
PendingIsKnown == \A c \in Conns : CancelPending(c) => pc[c] # "new"

Inv ==
    /\ TypeOK /\ HandlersOK /\ PendingIsKnown
    /\ LeaseIsOpen /\ CancelMissesLease /\ ActiveIsLeased

LEMMA InitInv == Init => Inv
  BY NoneAssumption
  DEF Init, Inv, TypeOK, HandlersOK, PendingIsKnown, LeaseIsOpen,
      CancelMissesLease, ActiveIsLeased, CancelPending, Active

-----------------------------------------------------------------------------
\* The new connection takes the lease; the one it replaces is pending.
LEMMA ReplaceInv ==
    ASSUME Inv, NEW c \in Conns, NEW u \in Users, Replace(c, u)
    PROVE  Inv'
  <1> USE NoneAssumption
  <1>1. TypeOK'
    BY DEF Inv, TypeOK, Replace
  <1>2. HandlersOK'
    BY DEF Inv, TypeOK, HandlersOK, Replace
  <1>3. /\ byUser[u] # c
        /\ byUser[u] # None => user[byUser[u]] = u /\ pc[byUser[u]] # "new"
    BY DEF Inv, LeaseIsOpen, Replace
  <1>4. \A x \in Conns : CancelPending(x)' => CancelPending(x) \/ x = byUser[u]
    BY DEF Inv, TypeOK, CancelPending, Replace
  <1>5. ~ CancelPending(c)'
    BY <1>3, <1>4 DEF Inv, PendingIsKnown, Replace
  <1>6. PendingIsKnown'
    BY <1>3, <1>4, <1>5 DEF Inv, TypeOK, PendingIsKnown, Replace
  <1>7. LeaseIsOpen'
    BY DEF Inv, TypeOK, LeaseIsOpen, Replace
  <1>8. CancelMissesLease'
    <2> SUFFICES ASSUME NEW x \in Conns, CancelPending(x)'
                 PROVE  byUser'[user'[x]] # x
      BY DEF CancelMissesLease
    <2>1. x # c /\ user'[x] = user[x] /\ user[x] \in Users
      BY <1>3, <1>4, <1>5 DEF Inv, TypeOK, HandlersOK, PendingIsKnown, Replace
    <2>2. CASE user[x] = u
      BY <2>1, <2>2 DEF Inv, TypeOK, Replace
    <2>3. CASE user[x] # u
      BY <1>3, <1>4, <2>1, <2>3 DEF Inv, TypeOK, CancelMissesLease, Replace
    <2> QED BY <2>2, <2>3
  <1>9. ActiveIsLeased'
    <2> SUFFICES ASSUME NEW x \in Conns, Active(x)'
                 PROVE  byUser'[user'[x]] = x \/ CancelPending(x)'
      BY DEF ActiveIsLeased
    <2>1. CASE x = c
      BY <2>1 DEF Inv, TypeOK, Replace
    <2>2. CASE x # c
      <3>1. Active(x) /\ user'[x] = user[x] /\ user[x] \in Users
        BY <2>2 DEF Inv, TypeOK, HandlersOK, Active, Replace
      <3>2. CASE CancelPending(x)
        BY <3>2 DEF Inv, TypeOK, HandlersOK, CancelPending, Replace
      <3>3. CASE byUser[user[x]] = x
        BY <3>1, <3>3 DEF Inv, TypeOK, CancelPending, Replace
      <3> QED BY <3>1, <3>2, <3>3 DEF Inv, ActiveIsLeased
    <2> QED BY <2>1, <2>2
  <1> QED BY <1>1, <1>2, <1>6, <1>7, <1>8, <1>9 DEF Inv

\* No other step gives a lease away, and a pending cancellation only goes when
\* it is carried out.
LEMMA OtherStepsInv ==
    ASSUME Inv,
           \/ \E c \in Conns :
                CancelPrevious(c) \/ Leave(c) \/ Release(c) \/ HangUp(c)
           \/ \E d \in Disconnects :
                (\E u \in Users : TakeLease(d, u)) \/ CancelLease(d)
    PROVE  Inv'
  <1> USE NoneAssumption
  <1>1. ASSUME NEW c \in Conns, CancelPrevious(c) PROVE Inv'
    <2>1. TypeOK' /\ HandlersOK'
      BY <1>1 DEF Inv, TypeOK, HandlersOK, CancelPrevious
    <2>2. \A x \in Conns :
            /\ CancelPending(x)' => CancelPending(x)
            /\ CancelPending(x) => CancelPending(x)' \/ x = previous[c]
      BY <1>1 DEF Inv, TypeOK, CancelPending, CancelPrevious
    <2>3. PendingIsKnown' /\ LeaseIsOpen' /\ CancelMissesLease'
      BY <1>1, <2>2 DEF Inv, TypeOK, PendingIsKnown, LeaseIsOpen, CancelMissesLease,
           CancelPrevious
    <2>4. ActiveIsLeased'
      BY <1>1, <2>2 DEF Inv, TypeOK, ActiveIsLeased, Active, CancelPrevious
    <2> QED BY <2>1, <2>3, <2>4 DEF Inv
  <1>2. ASSUME NEW c \in Conns, Leave(c) \/ HangUp(c) PROVE Inv'
    <2>1. TypeOK' /\ HandlersOK'
      BY <1>2 DEF Inv, TypeOK, HandlersOK, Leave, HangUp
    <2>2. \A x \in Conns : CancelPending(x)' <=> CancelPending(x)
      BY <1>2 DEF CancelPending, Leave, HangUp
    <2>3. PendingIsKnown' /\ LeaseIsOpen' /\ CancelMissesLease'
      BY <1>2, <2>2 DEF Inv, TypeOK, PendingIsKnown, LeaseIsOpen, CancelMissesLease,
           Leave, HangUp
    <2>4. ActiveIsLeased'
      BY <1>2, <2>2 DEF Inv, TypeOK, ActiveIsLeased, Active, Leave, HangUp
    <2> QED BY <2>1, <2>3, <2>4 DEF Inv
  <1>3. ASSUME NEW c \in Conns, Release(c) PROVE Inv'
    <2>1. user[c] \in Users
      BY <1>3 DEF Inv, HandlersOK, Release
    <2>2. TypeOK' /\ HandlersOK'
      BY <1>3, <2>1 DEF Inv, TypeOK, HandlersOK, Release
    <2>3. \A x \in Conns : CancelPending(x)' <=> CancelPending(x)
      BY <1>3 DEF CancelPending, Release
    <2>4. \A v \in Users : byUser'[v] = IF byUser[v] = c THEN None ELSE byUser[v]
      BY <1>3, <2>1 DEF Inv, TypeOK, LeaseIsOpen, Release
    <2>5. PendingIsKnown' /\ LeaseIsOpen'
      BY <1>3, <2>3, <2>4 DEF Inv, TypeOK, PendingIsKnown, LeaseIsOpen, Release
    <2>6. CancelMissesLease'
      BY <1>3, <2>3, <2>4
      DEF Inv, TypeOK, HandlersOK, PendingIsKnown, CancelMissesLease, Release
    <2>7. ActiveIsLeased'
      BY <1>3, <2>3, <2>4
      DEF Inv, TypeOK, HandlersOK, ActiveIsLeased, Active, Release
    <2> QED BY <2>2, <2>5, <2>6, <2>7 DEF Inv
  <1>4. ASSUME NEW d \in Disconnects, NEW u \in Users, TakeLease(d, u) PROVE Inv'
    <2>1. TypeOK' /\ HandlersOK'
      BY <1>4 DEF Inv, TypeOK, HandlersOK, TakeLease
    <2>2. \A x \in Conns : CancelPending(x)' <=> CancelPending(x) \/ x = byUser[u]
      BY <1>4 DEF Inv, TypeOK, CancelPending, TakeLease
    <2>3. user[byUser[u]] = u /\ pc[byUser[u]] # "new"
      BY <1>4 DEF Inv, LeaseIsOpen, TakeLease
    <2>4. PendingIsKnown' /\ LeaseIsOpen'
      BY <1>4, <2>2, <2>3 DEF Inv, TypeOK, PendingIsKnown, LeaseIsOpen, TakeLease
    <2>5. CancelMissesLease'
      BY <1>4, <2>2, <2>3
      DEF Inv, TypeOK, HandlersOK, PendingIsKnown, CancelMissesLease, TakeLease
    <2>6. ActiveIsLeased'
      BY <1>4, <2>2
      DEF Inv, TypeOK, HandlersOK, ActiveIsLeased, Active, TakeLease
    <2> QED BY <2>1, <2>4, <2>5, <2>6 DEF Inv
  <1>5. ASSUME NEW d \in Disconnects, CancelLease(d) PROVE Inv'
    <2>1. TypeOK' /\ HandlersOK'
      BY <1>5 DEF Inv, TypeOK, HandlersOK, CancelLease
    <2>2. \A x \in Conns :
            /\ CancelPending(x)' => CancelPending(x)
            /\ CancelPending(x) => CancelPending(x)' \/ x = disconnect[d]
      BY <1>5 DEF Inv, TypeOK, CancelPending, CancelLease
    <2>3. PendingIsKnown' /\ LeaseIsOpen' /\ CancelMissesLease'
      BY <1>5, <2>2 DEF Inv, TypeOK, PendingIsKnown, LeaseIsOpen, CancelMissesLease,
           CancelLease
    <2>4. ActiveIsLeased'
      BY <1>5, <2>2 DEF Inv, TypeOK, ActiveIsLeased, Active, CancelLease
    <2> QED BY <2>1, <2>3, <2>4 DEF Inv
  <1> QED BY <1>1, <1>2, <1>3, <1>4, <1>5

LEMMA NextInv == Inv /\ [Next]_vars => Inv'
  <1> SUFFICES ASSUME Inv, [Next]_vars PROVE Inv'
    OBVIOUS
  <1>1. CASE UNCHANGED vars
    BY <1>1 DEF Inv, TypeOK, HandlersOK, PendingIsKnown, LeaseIsOpen, CancelMissesLease,
         ActiveIsLeased, CancelPending, Active, vars
  <1>2. CASE \E c \in Conns, u \in Users : Replace(c, u)
    BY <1>2, ReplaceInv
  <1> QED BY <1>1, <1>2, OtherStepsInv DEF Next

LEMMA Invariance == Spec => []Inv
  <1> QED BY InitInv, NextInv, PTL DEF Spec

-----------------------------------------------------------------------------
\* Leases, connections and pending cancellations keep their types.
THEOREM LeaseTypesCorrect == Spec => []TypeOK
  <1>1. Inv => TypeOK BY DEF Inv
  <1> QED BY Invariance, <1>1, PTL

\* A stream that goes on holds the lease of its user or is about to be cancelled,
\* however connects, disconnects and their late cancellations overlap.
THEOREM OneStreamPerUser == Spec => []ActiveIsLeased
  <1>1. Inv => ActiveIsLeased BY DEF Inv
  <1> QED BY Invariance, <1>1, PTL

\* Whatever Release or Cancel comes late, the lease in byUser is a connection of
\* that user which has not ended, and a cancel computed before a reconnect never
\* hits the new stream.
THEOREM LeasesAreKept == Spec => []LeaseIsKept
  <1>1. Inv => LeaseIsKept BY DEF Inv, LeaseIsKept
  <1> QED BY Invariance, <1>1, PTL

-----------------------------------------------------------------------------
(* The locks behind the metrics.                                             *)

Calls == [call : {"lock", "unlock", "serve"}, of : M!Locks]

\* Who runs s has at most one lock at any time: each call of Lock is followed at
\* once by that of Unlock, and no Unlock comes without its Lock, unless it is the
\* first call.
OneAtATime(s) ==
    /\ s \in Seq(Calls)
    /\ \A i \in 1 .. Len(s) :
         s[i].call = "lock" => i < Len(s) /\ s[i + 1] = M!Unlock(s[i].of)
    /\ \A i \in 2 .. Len(s) :
         s[i].call = "unlock" => s[i - 1] = M!Lock(s[i].of)

\* A path from its beginning.
Whole(s) == OneAtATime(s) /\ (s # <<>> => s[1].call # "unlock")

USE StreamsAssumption DEF M!StreamsAssumption

LEMMA LockNames ==
    /\ {"registry", "userStreams", "groupStreams"} \subseteq M!Locks
    /\ Streams \subseteq M!Locks
  BY DEF M!Locks, M!Registries

LEMMA CallTypes ==
    ASSUME NEW l \in M!Locks
    PROVE  /\ M!Lock(l) \in Calls /\ M!Unlock(l) \in Calls /\ M!Serve(l) \in Calls
           /\ M!Lock(l).call = "lock" /\ M!Lock(l).of = l
           /\ M!Unlock(l).call = "unlock" /\ M!Unlock(l).of = l
           /\ M!Serve(l).call = "serve"
  BY DEF Calls, M!Lock, M!Unlock, M!Serve

LEMMA UnderIsWhole == ASSUME NEW l \in M!Locks PROVE Whole(M!Under(l))
  BY CallTypes DEF Whole, OneAtATime, M!Under

LEMMA ServeIsWhole == ASSUME NEW l \in M!Locks PROVE Whole(<<M!Serve(l)>>)
  BY CallTypes DEF Whole, OneAtATime

LEMMA NothingIsWhole == Whole(<<>>)
  BY DEF Whole, OneAtATime

\* One path after the other.
LEMMA BothAreWhole ==
    ASSUME NEW s, NEW t, Whole(s), Whole(t)
    PROVE  Whole(s \o t)
<1>1. s \in Seq(Calls) /\ t \in Seq(Calls) /\ s \o t \in Seq(Calls)
  BY DEF Whole, OneAtATime
<1>2. /\ Len(s \o t) = Len(s) + Len(t) /\ Len(s) \in Nat /\ Len(t) \in Nat
      /\ \A i \in 1 .. Len(s) : (s \o t)[i] = s[i]
      /\ \A i \in Len(s) + 1 .. Len(s) + Len(t) : (s \o t)[i] = t[i - Len(s)]
  BY <1>1
<1>3. ASSUME NEW i \in 1 .. Len(s \o t), (s \o t)[i].call = "lock"
      PROVE  i < Len(s \o t) /\ (s \o t)[i + 1] = M!Unlock((s \o t)[i].of)
  <2>1. CASE i <= Len(s)
    <3>1. i < Len(s) /\ s[i + 1] = M!Unlock(s[i].of)
      BY <1>2, <1>3, <2>1 DEF Whole, OneAtATime
    <3> QED  BY <1>2, <2>1, <3>1
  <2>2. CASE i > Len(s)
    <3> DEFINE j == i - Len(s)
    <3>1. j \in 1 .. Len(t) /\ (s \o t)[i] = t[j]
      BY <1>2, <2>2
    <3>2. j < Len(t) /\ t[j + 1] = M!Unlock(t[j].of)
      BY <1>3, <3>1 DEF Whole, OneAtATime
    <3>3. (s \o t)[i + 1] = t[j + 1]
      BY <1>2, <2>2, <3>2
    <3> QED  BY <1>2, <3>1, <3>2, <3>3
  <2> QED  BY <1>2, <2>1, <2>2
<1>4. ASSUME NEW i \in 2 .. Len(s \o t), (s \o t)[i].call = "unlock"
      PROVE  (s \o t)[i - 1] = M!Lock((s \o t)[i].of)
  <2>1. CASE i <= Len(s)
    <3>1. s[i - 1] = M!Lock(s[i].of)
      BY <1>2, <1>4, <2>1 DEF Whole, OneAtATime
    <3> QED  BY <1>2, <2>1, <3>1
  <2>2. CASE i > Len(s)
    <3> DEFINE j == i - Len(s)
    <3>1. j \in 1 .. Len(t) /\ (s \o t)[i] = t[j]
      BY <1>2, <2>2
    <3>2. t # <<>> /\ j # 1
      BY <1>1, <1>4, <3>1 DEF Whole
    <3>3. t[j - 1] = M!Lock(t[j].of)
      BY <1>4, <3>1, <3>2 DEF Whole, OneAtATime
    <3>4. (s \o t)[i - 1] = t[j - 1]
      BY <1>2, <2>2, <3>1, <3>2
    <3> QED  BY <3>1, <3>3, <3>4
  <2> QED  BY <1>2, <2>1, <2>2
<1>5. s \o t # <<>> => (s \o t)[1].call # "unlock"
  <2>1. CASE s = <<>>
    BY <1>1, <2>1 DEF Whole
  <2>2. CASE s # <<>>
    BY <1>1, <1>2, <2>2 DEF Whole
  <2> QED  BY <2>1, <2>2
<1> QED  BY <1>1, <1>3, <1>4, <1>5 DEF Whole, OneAtATime

\* Asking one stream after the other, in whatever order they were found.
LEMMA CountsAreWhole ==
    ASSUME NEW found \in Seq(Streams)
    PROVE  Whole(M!subscriberCounts(found))
<1> DEFINE s == M!subscriberCounts(found)
<1>1. Len(found) \in Nat /\ \A j \in 1 .. Len(found) : found[j] \in M!Locks
  BY LockNames
<1>2. ASSUME NEW i \in 1 .. 2 * Len(found)
      PROVE  /\ i % 2 = 1 => /\ (i + 1) \div 2 \in 1 .. Len(found) /\ i < 2 * Len(found)
                             /\ (i + 1) % 2 = 0
             /\ i % 2 # 1 => /\ i \div 2 \in 1 .. Len(found) /\ i - 1 \in 1 .. 2 * Len(found)
                             /\ (i - 1) % 2 = 1 /\ ((i - 1) + 1) \div 2 = i \div 2
  BY <1>1
<1>3. ASSUME NEW i \in 1 .. 2 * Len(found)
      PROVE  s[i] = IF i % 2 = 1 THEN M!Lock(found[(i + 1) \div 2])
                                 ELSE M!Unlock(found[i \div 2])
  BY DEF M!subscriberCounts
<1>4. \A i \in 1 .. 2 * Len(found) : s[i] \in Calls
  BY <1>1, <1>2, <1>3, CallTypes
<1>5. s \in Seq(Calls) /\ Len(s) = 2 * Len(found)
  BY <1>1, <1>4 DEF M!subscriberCounts
<1>6. ASSUME NEW i \in 1 .. Len(s), s[i].call = "lock"
      PROVE  i < Len(s) /\ s[i + 1] = M!Unlock(s[i].of)
  <2>1. i % 2 = 1 /\ s[i].of = found[(i + 1) \div 2]
    BY <1>1, <1>2, <1>3, <1>5, <1>6, CallTypes
  <2>2. i + 1 \in 1 .. Len(s) /\ (i + 1) % 2 # 1
    BY <1>2, <1>5, <2>1
  <2> QED  BY <1>3, <1>5, <2>1, <2>2
<1>7. ASSUME NEW i \in 2 .. Len(s), s[i].call = "unlock"
      PROVE  s[i - 1] = M!Lock(s[i].of)
  <2>1. i % 2 # 1 /\ s[i].of = found[i \div 2]
    BY <1>1, <1>2, <1>3, <1>5, <1>7, CallTypes
  <2>2. s[i - 1] = M!Lock(found[((i - 1) + 1) \div 2])
    BY <1>2, <1>3, <1>5, <2>1
  <2> QED  BY <1>2, <1>5, <2>1, <2>2
<1>8. s # <<>> => s[1].call # "unlock"
  <2>1. CASE Len(found) = 0
    BY <1>5, <2>1
  <2>2. CASE Len(found) # 0
    <3>1. 1 \in 1 .. 2 * Len(found) /\ 1 % 2 = 1 /\ (1 + 1) \div 2 \in 1 .. Len(found)
      BY <1>1, <2>2
    <3> QED  BY <1>1, <1>3, <3>1, CallTypes
  <2> QED  BY <2>1, <2>2
<1> QED  BY <1>5, <1>6, <1>7, <1>8 DEF Whole, OneAtATime

\* The streams that were found, one after the other.
LEMMA FoundInOrder ==
    ASSUME NEW S \in SUBSET Streams, NEW found \in M!SetToSeqs(S)
    PROVE  found \in Seq(Streams)
<1>1. M!IsFiniteSet(Streams) <=> IsFiniteSet(Streams)
  BY DEF M!IsFiniteSet, IsFiniteSet
<1>2. M!Cardinality(S) = Cardinality(S)
  BY DEF M!Cardinality, Cardinality
<1>3. IsFiniteSet(S) /\ Cardinality(S) \in Nat
  BY <1>1, FS_Subset, FS_CardinalityType
<1>4. found \in [1 .. Cardinality(S) -> S]
  BY <1>2 DEF M!SetToSeqs
<1> QED  BY <1>3, <1>4

\* No path takes a lock while it has one.
LEMMA PathsAreWhole ==
    /\ \A new \in M!Handler \cup M!Others : Whole(new)
    /\ \A s \in M!Locks : \A u \in M!unsubscribe(s) : Whole(u \o M!Release)
<1>1. \A l \in M!Locks : Whole(M!Under(l)) /\ Whole(<<M!Serve(l)>>)
  BY UnderIsWhole, ServeIsWhole
<1>2. \A s, t : Whole(s) /\ Whole(t) => Whole(s \o t)
  BY BothAreWhole
<1>3. /\ Whole(M!Count) /\ Whole(M!CountGroups) /\ Whole(M!Replace) /\ Whole(M!Release)
      /\ Whole(M!Cancel) /\ Whole(M!Under("registry")) /\ Whole(M!Under("groupStreams"))
  BY <1>1, LockNames DEF M!Count, M!CountGroups, M!Replace, M!Release, M!Cancel
<1>4. ASSUME NEW new \in M!Handler  PROVE Whole(new)
  <2>1. PICK found \in UNION { M!SetToSeqs(S) : S \in SUBSET Streams } :
          new = M!Under("registry") \o M!CountGroups \o M!CountSubscribers(found) \o M!Count
    BY <1>4 DEF M!Handler
  <2>2. Whole(M!CountSubscribers(found))
    BY <1>2, <1>3, FoundInOrder, CountsAreWhole DEF M!CountSubscribers
  <2> QED  BY <1>2, <1>3, <2>1, <2>2
<1>5. ASSUME NEW s \in M!Locks
      PROVE  /\ \A a \in M!addSubscriber(s) \cup {M!addSubscriberFails(s)} : Whole(a)
             /\ \A u \in M!unsubscribe(s) : Whole(u)
             /\ Whole(M!broadcast(s) \o M!scheduleSnapshot(s))
             /\ \A r \in M!runSnapshotRefresh(s) : Whole(r)
  <2>1. Whole(M!Under(s)) /\ Whole(M!Under(s) \o M!Under(s))
    BY <1>1, <1>2
  <2>2. \A a \in M!addSubscriber(s) \cup {M!addSubscriberFails(s)} : Whole(a)
    <3>1. \A e \in M!ensureSubscription(s) : Whole(M!Under(s) \o e)
      BY <1>2, <2>1 DEF M!ensureSubscription
    <3>2. Whole(M!addSubscriberFails(s))
      BY <1>2, <2>1 DEF M!addSubscriberFails, M!ensureSubscriptionFails
    <3> QED  BY <3>1, <3>2 DEF M!addSubscriber
  <2>3. \A u \in M!unsubscribe(s) : Whole(u)
    BY <1>2, <1>3, <2>1 DEF M!unsubscribe, M!removeSubscriber
  <2> QED  BY <2>1, <2>2, <2>3 DEF M!broadcast, M!scheduleSnapshot, M!runSnapshotRefresh
<1>6. ASSUME NEW s \in Streams
      PROVE  Whole(M!SubscribeFails(s)) /\ \A a \in M!Subscribe(s) : Whole(a)
  BY <1>2, <1>3, <1>5, LockNames DEF M!Subscribe, M!SubscribeFails
<1>7. ASSUME NEW new \in M!Connection  PROVE Whole(new)
  <2>1. CASE new = M!Replace \o M!Release
    BY <1>2, <1>3, <2>1
  <2>2. CASE \E s \in Streams : new = M!Replace \o M!SubscribeFails(s) \o M!Release
    BY <1>2, <1>3, <1>6, <2>2
  <2>3. CASE \E s \in Streams : \E a \in M!Subscribe(s) :
               new = M!Replace \o a \o <<M!Serve(s)>>
    BY <1>1, <1>2, <1>3, <1>6, LockNames, <2>3
  <2> QED  BY <1>7, <2>1, <2>2, <2>3 DEF M!Connection
<1>8. ASSUME NEW new \in M!Others  PROVE Whole(new)
  <2>1. \/ new \in M!Connection \/ new = M!Cancel
        \/ \E s \in Streams : \/ new = M!broadcast(s) \o M!scheduleSnapshot(s)
                              \/ new \in M!runSnapshotRefresh(s)
    BY <1>8 DEF M!Others
  <2> QED  BY <1>3, <1>5, <1>7, <2>1, LockNames
<1> QED  BY <1>2, <1>3, <1>4, <1>5, <1>8

-----------------------------------------------------------------------------
\* A process has exactly the lock that it is about to give back.
HeldToGive ==
    \A p \in M!Procs, l \in M!Locks :
        p \in held[l] <=> path[p] # <<>> /\ Head(path[p]) = M!Unlock(l)

MInv ==
    /\ path = [p \in M!Procs |-> path[p]] /\ \A p \in M!Procs : OneAtATime(path[p])
    /\ held \in [M!Locks -> SUBSET M!Procs]
    /\ HeldToGive

\* The call that comes first, and what is left after it.
LEMMA FirstCall ==
    ASSUME NEW s, OneAtATime(s), s # <<>>
    PROVE  /\ Head(s) = s[1] /\ s[1] \in Calls /\ OneAtATime(Tail(s))
           /\ s[1].call = "lock" => Tail(s) # <<>> /\ Head(Tail(s)) = M!Unlock(s[1].of)
           /\ s[1].call # "lock" => (Tail(s) # <<>> => Head(Tail(s)).call # "unlock")
<1>1. /\ s \in Seq(Calls) /\ Len(s) \in Nat /\ Len(s) >= 1 /\ Head(s) = s[1]
      /\ Tail(s) \in Seq(Calls) /\ Len(Tail(s)) = Len(s) - 1
      /\ \A i \in 1 .. Len(s) - 1 : Tail(s)[i] = s[i + 1]
      /\ s[1] \in Calls
  BY HeadTailProperties DEF OneAtATime
<1>2. ASSUME NEW i \in 1 .. Len(Tail(s))
      PROVE  /\ Tail(s)[i].call = "lock" =>
                  i < Len(Tail(s)) /\ Tail(s)[i + 1] = M!Unlock(Tail(s)[i].of)
             /\ i # 1 /\ Tail(s)[i].call = "unlock" =>
                  Tail(s)[i - 1] = M!Lock(Tail(s)[i].of)
  <2>1. /\ s[i + 1].call = "lock" => i + 1 < Len(s) /\ s[i + 2] = M!Unlock(s[i + 1].of)
        /\ s[i + 1].call = "unlock" => s[i] = M!Lock(s[i + 1].of)
    <3>1. i + 1 \in 2 .. Len(s) /\ (i + 1) + 1 = i + 2 /\ (i + 1) - 1 = i
      BY <1>1
    <3> QED  BY <3>1 DEF OneAtATime
  <2> QED  BY <1>1, <2>1
<1>3. OneAtATime(Tail(s))
  BY <1>1, <1>2 DEF OneAtATime
<1>4. ASSUME s[1].call = "lock"
      PROVE  Tail(s) # <<>> /\ Head(Tail(s)) = M!Unlock(s[1].of)
  <2>1. 1 < Len(s) /\ s[2] = M!Unlock(s[1].of)
    BY <1>1, <1>4 DEF OneAtATime
  <2>2. Len(Tail(s)) >= 1 /\ Tail(s)[1] = s[2]
    BY <1>1, <2>1
  <2>3. Tail(s) # <<>> /\ Head(Tail(s)) = Tail(s)[1]
    BY <1>1, <2>2
  <2> QED  BY <2>1, <2>2, <2>3
<1>5. ASSUME s[1].call # "lock", Tail(s) # <<>>
      PROVE  Head(Tail(s)).call # "unlock"
  <2>1. 2 \in 2 .. Len(s) /\ Head(Tail(s)) = s[2]
    BY <1>1, <1>5
  <2>2. s[2].call = "unlock" => s[1] = M!Lock(s[2].of)
    BY <2>1 DEF OneAtATime
  <2> QED  BY <1>5, <2>1, <2>2 DEF M!Lock
<1> QED  BY <1>1, <1>3, <1>4, <1>5

\* Who neither has a lock before a step nor after it.
LEMMA QuietStep ==
    ASSUME MInv, NEW p \in M!Procs, NEW new, OneAtATime(new),
           path' = [path EXCEPT ![p] = new], UNCHANGED held,
           path[p] # <<>> => Head(path[p]).call # "unlock",
           new # <<>> => Head(new).call # "unlock"
    PROVE  MInv'
<1>1. path'[p] = new /\ \A q \in M!Procs \ {p} : path'[q] = path[q]
  BY DEF MInv
<1>2. path' = [q \in M!Procs |-> path'[q]] /\ \A q \in M!Procs : OneAtATime(path'[q])
  BY <1>1 DEF MInv
<1>3. \A l \in M!Locks : M!Unlock(l).call = "unlock"
  BY DEF M!Unlock
<1>4. HeldToGive'
  BY <1>1, <1>3 DEF MInv, HeldToGive
<1> QED  BY <1>2, <1>4 DEF MInv, OneAtATime, Calls

LEMMA TakeInv == ASSUME MInv, NEW p \in M!Procs, M!Take(p) PROVE MInv'
<1> DEFINE s == path[p]
           l == s[1].of
<1>1. /\ s # <<>> /\ OneAtATime(s) /\ Head(s) = s[1] /\ s[1] \in Calls
      /\ s[1].call = "lock" /\ OneAtATime(Tail(s))
      /\ Tail(s) # <<>> /\ Head(Tail(s)) = M!Unlock(l)
  BY FirstCall DEF MInv, M!Take, M!NextCallIs
<1>2. /\ l \in M!Locks /\ held' = [held EXCEPT ![l] = held[l] \cup {p}]
      /\ path' = [path EXCEPT ![p] = Tail(s)]
  BY <1>1 DEF M!Take, M!Here, Calls
<1>3. path'[p] = Tail(s) /\ \A q \in M!Procs \ {p} : path'[q] = path[q]
  BY <1>2 DEF MInv
<1>4. \A m \in M!Locks : M!Unlock(m) = M!Unlock(l) => m = l
  BY <1>2 DEF M!Unlock
<1>5. \A m \in M!Locks : p \notin held[m]
  <2>1. \A m : M!Unlock(m).call = "unlock"
    BY DEF M!Unlock
  <2> QED  BY <1>1, <2>1 DEF MInv, HeldToGive
<1>6. HeldToGive'
  BY <1>1, <1>2, <1>3, <1>4, <1>5 DEF MInv, HeldToGive
<1>7. path' = [q \in M!Procs |-> path'[q]] /\ \A q \in M!Procs : OneAtATime(path'[q])
  BY <1>1, <1>2, <1>3 DEF MInv
<1>8. held' \in [M!Locks -> SUBSET M!Procs]
  BY <1>2 DEF MInv
<1> QED  BY <1>6, <1>7, <1>8 DEF MInv, OneAtATime, Calls

LEMMA GiveInv == ASSUME MInv, NEW p \in M!Procs, M!Give(p) PROVE MInv'
<1> DEFINE s == path[p]
           l == s[1].of
<1>1. /\ s # <<>> /\ OneAtATime(s) /\ Head(s) = s[1] /\ s[1] \in Calls
      /\ s[1].call = "unlock" /\ OneAtATime(Tail(s))
      /\ Tail(s) # <<>> => Head(Tail(s)).call # "unlock"
  BY FirstCall DEF MInv, M!Give, M!NextCallIs
<1>2. /\ l \in M!Locks /\ held' = [held EXCEPT ![l] = held[l] \ {p}]
      /\ path' = [path EXCEPT ![p] = Tail(s)]
  BY <1>1 DEF M!Give, M!Here, Calls
<1>3. path'[p] = Tail(s) /\ \A q \in M!Procs \ {p} : path'[q] = path[q]
  BY <1>2 DEF MInv
<1>4. \A m \in M!Locks : m # l => p \notin held[m]
  <2>1. \A m : M!Unlock(m).of = m
    BY DEF M!Unlock
  <2> QED  BY <1>1, <2>1 DEF MInv, HeldToGive
<1>5. \A m \in M!Locks : M!Unlock(m).call = "unlock"
  BY DEF M!Unlock
<1>6. HeldToGive'
  BY <1>1, <1>2, <1>3, <1>4, <1>5 DEF MInv, HeldToGive
<1>7. path' = [q \in M!Procs |-> path'[q]] /\ \A q \in M!Procs : OneAtATime(path'[q])
  BY <1>1, <1>2, <1>3 DEF MInv
<1>8. held' \in [M!Locks -> SUBSET M!Procs]
  BY <1>2 DEF MInv
<1> QED  BY <1>6, <1>7, <1>8 DEF MInv, OneAtATime, Calls

LEMMA MInitInv == M!Init => MInv
  BY NothingIsWhole DEF M!Init, MInv, HeldToGive, Whole

LEMMA MNextInv == MInv /\ [M!Next]_(M!vars) => MInv'
<1> SUFFICES ASSUME MInv, [M!Next]_(M!vars)  PROVE MInv'
  OBVIOUS
<1>1. ASSUME NEW p \in M!Procs, M!Start(p)  PROVE MInv'
  <2>1. PICK new : Whole(new) /\ path' = [path EXCEPT ![p] = new]
    BY <1>1, PathsAreWhole DEF M!Start
  <2>2. new # <<>> => Head(new).call # "unlock"
    BY <2>1, FirstCall DEF Whole
  <2> QED  BY <1>1, <2>1, <2>2, QuietStep DEF M!Start, Whole
<1>2. ASSUME NEW p \in M!Procs, M!End(p)  PROVE MInv'
  <2>1. /\ path[p] # <<>> /\ Head(path[p]).call = "serve" /\ Head(path[p]).of \in M!Locks
    BY <1>2, FirstCall DEF MInv, M!End, M!NextCallIs, Calls
  <2>2. PICK new : Whole(new) /\ path' = [path EXCEPT ![p] = new]
    BY <1>2, <2>1, PathsAreWhole DEF M!End, M!Here
  <2>3. new # <<>> => Head(new).call # "unlock"
    BY <2>2, FirstCall DEF Whole
  <2> QED  BY <1>2, <2>1, <2>2, <2>3, QuietStep DEF M!End, Whole
<1>3. CASE UNCHANGED M!vars
  BY <1>3 DEF M!vars, MInv, HeldToGive, OneAtATime, Calls
<1> QED  BY <1>1, <1>2, <1>3, TakeInv, GiveInv DEF M!Next

LEMMA MInvariance == M!Init /\ [][M!Next]_(M!vars) => []MInv
BY MInitInv, MNextInv, PTL

\* Everybody runs along calls for locks there are, and only who runs has one.
THEOREM LockTypesCorrect == M!Init /\ [][M!Next]_(M!vars) => []M!TypeOK
<1>1. MInv => M!TypeOK
  BY DEF MInv, M!TypeOK, OneAtATime, Calls
<1> QED  BY MInvariance, <1>1, PTL

\* It is held up at a lock that another, or it itself, has.
Waits(p) == M!NextCallIs(p, "lock") /\ ~ M!Free(M!Here(p))

\* Whoever waits for a lock waits for somebody else, who is about to give it back.
NobodyWaitsForAWaiter ==
    \A p \in M!Procs : Waits(p) =>
        /\ held[M!Here(p)] # {}
        /\ \A q \in held[M!Here(p)] :
             q # p /\ M!NextCallIs(q, "unlock") /\ M!Here(q) = M!Here(p)

\* Scrapes, connections, callbacks and refreshes never wait for each other in a
\* circle, nor for themselves: on none of the paths of the code is a lock taken while
\* another is held, or the same one (main.go:401-444, 480-536, 538-689;
\* metrics.go:47-69).
THEOREM NoCircularWait == M!Init /\ [][M!Next]_(M!vars) => []NobodyWaitsForAWaiter
<1>1. ASSUME MInv, NEW p \in M!Procs, Waits(p), NEW q \in held[M!Here(p)]
      PROVE  q # p /\ M!NextCallIs(q, "unlock") /\ M!Here(q) = M!Here(p)
  <2>1. /\ path[p] # <<>> /\ Head(path[p]).call = "lock" /\ M!Here(p) \in M!Locks
    BY <1>1, FirstCall DEF Waits, M!NextCallIs, M!Here, MInv, Calls
  <2>2. q \in M!Procs /\ path[q] # <<>> /\ Head(path[q]) = M!Unlock(M!Here(p))
    BY <1>1, <2>1 DEF MInv, HeldToGive
  <2> QED  BY <2>1, <2>2 DEF M!NextCallIs, M!Here, M!Unlock
<1>2. MInv => NobodyWaitsForAWaiter
  BY <1>1 DEF NobodyWaitsForAWaiter, Waits, M!Free
<1> QED  BY MInvariance, <1>2, PTL

-----------------------------------------------------------------------------
(* The two halves together.                                                  *)

\* What is proved of the leases and of the locks holds of the specification that
\* TLC runs, whichever of them moves.
LEMMA HalvesOfStreamer == MCSpec => Spec /\ M!Init /\ [][M!Next]_(M!vars)
<1>1. MCInit => Init /\ M!Init
  BY DEF MCInit
<1>2. [MCNext]_<<part, vars, lockVars>> => [Next]_vars
  BY DEF MCNext, vars
<1>3. [MCNext]_<<part, vars, lockVars>> => [M!Next]_(M!vars)
  BY DEF MCNext, lockVars, M!vars
<1> QED  BY <1>1, <1>2, <1>3, PTL DEF MCSpec, Spec
=============================================================================
