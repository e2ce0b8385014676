------------------------ MODULE SnapshotRefreshProofs ------------------------
(***************************************************************************)
(* For any connections, timers and refreshes, any number of events and any   *)
(* capacity of the channels: a scheduled refresh is never forgotten, and when *)
(* nothing is under way any more an open connection has been sent everything, *)
(* but for the four ways to lose a change that the model records.            *)
(***************************************************************************)
EXTENDS SnapshotRefresh, TLAPS

\* The timer in use is not one that is about to be stopped.
TimerIsKept == refreshTimer \notin stopping

\* No list shows events that were not applied.
ListsAreApplied ==
    /\ DOMAIN channel = Conns
    /\ \A c \in Conns : best[c] <= projected
    /\ \A r \in Runs : run[r].pc = "listed" => run[r].todos <= projected

\* Something under way will bring event n, or a later one, to the boards.
UnderWay(n) ==
    \/ callback >= n
    \/ pendingSeq >= n
    \/ \E r \in Runs : \/ run[r].pc = "waiting" /\ run[r].target >= n
                       \/ run[r].pc = "listed" /\ run[r].todos >= n

\* While somebody is subscribed, the last event delivered is under way, or it is
\* applied (which is enough for who has yet to list the first board) and the open
\* connections have been sent it.
LastIsCovered ==
    Subscribers # {} /\ lags = 0 /\ ~ gap =>
        \/ UnderWay(delivered)
        \/ /\ delivered <= projected
           /\ \A c \in Conns \ missed : conn[c] = "open" => delivered <= best[c]

Inv == TypeOK /\ TimerIsKept /\ SnapshotIsOwed /\ ListsAreApplied /\ LastIsCovered

\* What a connection does with its channel.
LEMMA ChannelSteps ==
    /\ <<>> \in Seq(Seqs) /\ Len(<<>>) <= Capacity
    /\ \A s \in Seq(Seqs) : s # <<>> =>
         /\ Head(s) \in Seqs /\ Tail(s) \in Seq(Seqs)
         /\ Len(Tail(s)) <= Len(s)
  BY ParametersAssumption

LEMMA InitInv == Init => Inv
<1> SUFFICES ASSUME Init PROVE Inv  OBVIOUS
<1>1. TypeOK
  <2>1. /\ published \in Seqs /\ projected \in 0 .. published
        /\ delivered \in 0 .. published
        /\ callback \in Seqs /\ pendingSeq \in Seqs /\ lags \in 0 .. MaxLags
    BY ParametersAssumption DEF Init, Seqs
  <2>2. \A c \in Conns : channel[c] \in Seq(Seqs) /\ Len(channel[c]) <= Capacity
    BY ChannelSteps DEF Init
  <2>3. /\ board \in [Conns -> Seqs] /\ best \in [Conns -> Seqs]
        /\ conn \in [Conns -> {"out", "joined", "open", "gone"}]
    BY ParametersAssumption DEF Init, Seqs
  <2> QED  BY <2>1, <2>2, <2>3 DEF Init, TypeOK
<1>2. TimerIsKept /\ SnapshotIsOwed /\ ListsAreApplied /\ LastIsCovered
  BY DEF Init, TimerIsKept, SnapshotIsOwed, ListsAreApplied, LastIsCovered, Subscribers,
         Idle
<1> QED  BY <1>1, <1>2 DEF Inv

-----------------------------------------------------------------------------
(* The helpers.                                                              *)

\* A refresh under way: what it waits for, and what it has listed.
LEMMA RunIsTyped ==
    ASSUME TypeOK, NEW r \in Runs
    PROVE  /\ run[r].pc = "waiting" => run[r].target \in Seqs
           /\ run[r].pc = "listed" => run[r].todos \in Seqs
           /\ run[r] = Idle => run[r].pc = "idle"
  BY DEF TypeOK, Idle

\* A timer that is started is the current one, or one that nobody will stop.
LEMMA StartedTimer ==
    ASSUME TypeOK, TimerIsKept, CurrentTimer # None
    PROVE  CurrentTimer \in Timers /\ CurrentTimer \notin stopping
<1>1. CASE refreshTimer # None
  BY <1>1 DEF CurrentTimer, TypeOK, TimerIsKept
<1>2. CASE refreshTimer = None
  <2> DEFINE unused == Timers \ (armed \cup stopping)
  <2>1. unused # {} /\ CurrentTimer = CHOOSE t \in unused : TRUE
    BY <1>2 DEF CurrentTimer
  <2>2. CurrentTimer \in unused
    BY <2>1
  <2> QED  BY <2>2
<1> QED  BY <1>1, <1>2

\* A broadcast reaches every subscriber that is not recorded to have missed it.
LEMMA BroadcastReaches ==
    ASSUME TypeOK, DOMAIN channel = Conns, NEW m \in Seqs, Broadcast(m)
    PROVE  /\ \A c \in Conns : channel'[c] \in Seq(Seqs) /\ Len(channel'[c]) <= Capacity
           /\ DOMAIN channel' = Conns
           /\ missed \subseteq missed' /\ missed' \in SUBSET Conns
           /\ \A c \in Subscribers \ missed' : channel'[c] # channel[c]
<1>1. ASSUME NEW c \in Conns, Len(channel[c]) # Capacity
      PROVE  /\ Append(channel[c], m) \in Seq(Seqs)
             /\ Len(Append(channel[c], m)) <= Capacity
             /\ Append(channel[c], m) # channel[c]
  BY <1>1, ParametersAssumption DEF TypeOK, Seqs
<1> QED
  BY <1>1 DEF Broadcast, TypeOK, Subscribers

-----------------------------------------------------------------------------
(* Types.                                                                    *)

LEMMA TypesStep ==
    ASSUME TypeOK, ListsAreApplied, TimerIsKept, Next
    PROVE  TypeOK' /\ ListsAreApplied'
<1> USE ParametersAssumption DEF TypeOK, ListsAreApplied, Seqs
<1>1. CASE Publish  BY <1>1 DEF Publish, timerVars, connVars, missVars
<1>2. CASE Project  BY <1>2, RunIsTyped DEF Project, timerVars, connVars, missVars
<1>3. ASSUME NEW c \in Conns, Join(c)  PROVE TypeOK' /\ ListsAreApplied'
  <2>1. delivered' \in 0 .. published
    BY <1>3 DEF Join
  <2>2. gap' \in BOOLEAN
    <3>1. (gap \/ projected < published) \in BOOLEAN  OBVIOUS
    <3>2. gap' = (gap \/ projected < published) \/ gap' = gap
      BY <1>3, Zenon DEF Join
    <3> QED  BY <3>1, <3>2, Zenon DEF TypeOK
  <2> QED  BY <1>3, <2>1, <2>2 DEF Join, streamVars, timerVars
<1>4. ASSUME NEW c \in Conns, ShowInitial(c)  PROVE TypeOK' /\ ListsAreApplied'
  <2> DEFINE listed == /\ board' = [board EXCEPT ![c] = projected]
                       /\ best' = [best EXCEPT ![c] = projected]
                       /\ lags' = lags
             failed == /\ board' = board /\ best' = best
                       /\ lags < MaxLags /\ lags' = lags + 1
  <2>1. /\ UNCHANGED <<streamVars, delivered, callback, timerVars, run, channel>>
        /\ UNCHANGED <<missed, gap>> /\ conn' = [conn EXCEPT ![c] = "open"]
        /\ listed \/ failed
    BY <1>4 DEF ShowInitial
  <2> HIDE DEF listed, failed
  <2>2. CASE listed
    <3>1. /\ board' \in [Conns -> Seqs] /\ best' \in [Conns -> Seqs]
          /\ \A d \in Conns : best'[d] <= projected /\ lags' \in 0 .. MaxLags
      BY <2>2 DEF listed
    <3> QED  BY <2>1, <3>1 DEF streamVars, timerVars
  <2>3. CASE failed
    BY <2>1, <2>3 DEF failed, streamVars, timerVars
  <2> QED  BY <2>1, <2>2, <2>3
<1>5. ASSUME NEW c \in Conns, ShowNext(c)  PROVE TypeOK' /\ ListsAreApplied'
  <2>1. /\ Head(channel[c]) \in Seqs /\ Tail(channel[c]) \in Seq(Seqs)
        /\ Len(Tail(channel[c])) <= Capacity
    BY <1>5, ChannelSteps DEF ShowNext
  <2> QED  BY <1>5, <2>1 DEF ShowNext, streamVars, timerVars, missVars
<1>6. ASSUME NEW c \in Conns, Leave(c)  PROVE TypeOK' /\ ListsAreApplied'
  <2>1. \A d \in Conns : channel'[d] \in Seq(Seqs) /\ Len(channel'[d]) <= Capacity
    BY <1>6, ChannelSteps DEF Leave
  <2>2. /\ pendingSeq' \in Seqs /\ refreshTimer' \in Timers \cup {None}
        /\ stopping' \in SUBSET Timers
    BY <1>6 DEF Leave
  <2> QED  BY <1>6, <2>1, <2>2 DEF Leave, streamVars, missVars
<1>7. ASSUME NEW t \in Timers, StopTimer(t)  PROVE TypeOK' /\ ListsAreApplied'
  BY <1>7 DEF StopTimer, streamVars, connVars, missVars
<1>8. CASE DeliverEvent
  BY <1>8, BroadcastReaches DEF DeliverEvent, streamVars, timerVars
<1>9. CASE ScheduleSnapshot
  BY <1>9, StartedTimer DEF ScheduleSnapshot, streamVars, connVars, missVars
<1>10. ASSUME NEW t \in Timers, Fire(t)  PROVE TypeOK' /\ ListsAreApplied'
  BY <1>10 DEF Fire, streamVars, connVars, missVars
<1>11. ASSUME NEW r \in Runs, BeginRefresh(r)  PROVE TypeOK' /\ ListsAreApplied'
  BY <1>11 DEF BeginRefresh, Idle, streamVars, connVars, missVars
<1>12. ASSUME NEW r \in Runs, ListTodos(r)  PROVE TypeOK' /\ ListsAreApplied'
  BY <1>12 DEF ListTodos, streamVars, timerVars, connVars
<1>13. ASSUME NEW r \in Runs, ListFails(r)  PROVE TypeOK' /\ ListsAreApplied'
  BY <1>13 DEF ListFails, Idle, streamVars, timerVars, connVars
<1>14. ASSUME NEW r \in Runs, SendSnapshot(r)  PROVE TypeOK' /\ ListsAreApplied'
  BY <1>14, BroadcastReaches, RunIsTyped DEF SendSnapshot, Idle, streamVars, timerVars
<1>15. CASE FallSilent  BY <1>15 DEF FallSilent, timerVars, connVars, missVars
<1> QED
  BY <1>1, <1>2, <1>3, <1>4, <1>5, <1>6, <1>7, <1>8, <1>9, <1>10, <1>11, <1>12, <1>13,
     <1>14, <1>15 DEF Next, ConnStep, StreamStep

-----------------------------------------------------------------------------
(* A refresh that is owed.                                                   *)

LEMMA OwedStep ==
    ASSUME TypeOK, TimerIsKept, SnapshotIsOwed, [Next]_vars
    PROVE  TimerIsKept' /\ SnapshotIsOwed'
<1> USE ParametersAssumption DEF TimerIsKept, SnapshotIsOwed
<1>1. CASE UNCHANGED <<timerVars, run>>
  BY <1>1 DEF timerVars
<1>2. ASSUME NEW c \in Conns, Leave(c)  PROVE TimerIsKept' /\ SnapshotIsOwed'
  BY <1>2 DEF Leave, TypeOK
<1>3. ASSUME NEW t \in Timers, StopTimer(t)  PROVE TimerIsKept' /\ SnapshotIsOwed'
  BY <1>3 DEF StopTimer
<1>4. CASE ScheduleSnapshot
  BY <1>4, StartedTimer DEF ScheduleSnapshot
<1>5. ASSUME NEW t \in Timers, Fire(t)  PROVE TimerIsKept' /\ SnapshotIsOwed'
  <2>1. \E r \in Runs : run'[r].pc = "fired"
    BY <1>5 DEF Fire, TypeOK
  <2> QED  BY <1>5, <2>1 DEF Fire
<1>6. ASSUME NEW r \in Runs, BeginRefresh(r)  PROVE TimerIsKept' /\ SnapshotIsOwed'
  BY <1>6 DEF BeginRefresh, TypeOK
\* Only a refresh that has begun changes otherwise.
<1>7. ASSUME NEW r \in Runs, ListTodos(r) \/ ListFails(r) \/ SendSnapshot(r)
      PROVE  TimerIsKept' /\ SnapshotIsOwed'
  <2>1. UNCHANGED timerVars /\ run[r].pc # "fired"
    BY <1>7 DEF ListTodos, ListFails, SendSnapshot
  <2>2. \A q \in Runs : q # r => run'[q] = run[q]
    BY <1>7 DEF ListTodos, ListFails, SendSnapshot, TypeOK
  <2> QED  BY <2>1, <2>2 DEF timerVars
<1>8. Publish \/ FallSilent \/ Project \/ DeliverEvent => UNCHANGED <<timerVars, run>>
  BY DEF Publish, FallSilent, Project, DeliverEvent
<1>9. \A c \in Conns :
        Join(c) \/ ShowInitial(c) \/ ShowNext(c) => UNCHANGED <<timerVars, run>>
  BY DEF Join, ShowInitial, ShowNext
<1>10. CASE UNCHANGED vars
  BY <1>1, <1>10 DEF vars
<1> QED
  BY <1>1, <1>2, <1>3, <1>4, <1>5, <1>6, <1>7, <1>8, <1>9, <1>10
  DEF Next, ConnStep, StreamStep

-----------------------------------------------------------------------------
(* The last event delivered is covered.                                      *)

\* Connections, publishers and the projection.
LEMMA ConnsCovered ==
    ASSUME Inv, UNCHANGED vars \/ Publish \/ FallSilent \/ Project \/ ConnStep
    PROVE  LastIsCovered'
<1> USE DEF Inv, LastIsCovered, UnderWay, Subscribers
<1>1. CASE UNCHANGED vars
  BY <1>1 DEF vars, streamVars, timerVars, connVars, missVars
<1>2. CASE Publish
  BY <1>2 DEF Publish, timerVars, connVars, missVars
<1>3. CASE Project
  BY <1>3 DEF Project, timerVars, connVars, missVars, TypeOK, Seqs
<1>4. ASSUME NEW c \in Conns, Join(c)  PROVE LastIsCovered'
  <2>1. CASE Subscribers = {}
    <3>1. ~ gap' => ~ (projected < published)
      BY <1>4, <2>1, Zenon DEF Join, Subscribers
    <3>2. /\ delivered' = published /\ projected' = projected
          /\ \A d \in Conns : conn'[d] # "open"
      BY <1>4, <2>1 DEF Join, streamVars, TypeOK
    <3>3. ~ gap' => delivered' <= projected'
      BY <3>1, <3>2 DEF TypeOK, Seqs
    <3> QED  BY <3>2, <3>3
  <2>2. CASE Subscribers # {}
    BY <1>4, <2>2 DEF Join, streamVars, timerVars, TypeOK
  <2> QED  BY <2>1, <2>2
<1>5. ASSUME NEW c \in Conns, ShowInitial(c)  PROVE LastIsCovered'
  BY <1>5 DEF ShowInitial, streamVars, timerVars, missVars, TypeOK
<1>6. ASSUME NEW c \in Conns, ShowNext(c)  PROVE LastIsCovered'
  BY <1>6 DEF ShowNext, streamVars, timerVars, missVars
<1>7. ASSUME NEW c \in Conns, Leave(c)  PROVE LastIsCovered'
  <2>1. CASE Subscribers = {c}
    <3>1. Subscribers' = {}
      BY <1>7, <2>1 DEF Leave, TypeOK
    <3> QED  BY <3>1
  <2>2. CASE Subscribers # {c}
    BY <1>7, <2>2 DEF Leave, streamVars, missVars, TypeOK
  <2> QED  BY <2>1, <2>2
<1>8. CASE FallSilent
  BY <1>8 DEF FallSilent, timerVars, connVars, missVars
<1> QED  BY <1>1, <1>2, <1>3, <1>4, <1>5, <1>6, <1>7, <1>8 DEF ConnStep

\* The callback, the timers and the refreshes.
LEMMA StreamCovered == ASSUME Inv, StreamStep PROVE LastIsCovered'
<1> SUFFICES ASSUME Subscribers' # {}, lags' = 0, ~ gap'
             PROVE  LastIsCovered'
  BY DEF LastIsCovered
<1>0. Subscribers' = Subscribers /\ conn' = conn /\ projected' = projected /\ gap' = gap
  BY DEF StreamStep, DeliverEvent, ScheduleSnapshot, Fire, StopTimer, BeginRefresh,
     ListTodos,
         ListFails, SendSnapshot, streamVars, connVars, missVars, Subscribers
<1>1. CASE DeliverEvent
  BY <1>1 DEF DeliverEvent, Inv, TypeOK, Seqs, LastIsCovered, UnderWay
<1>2. CASE \/ ScheduleSnapshot
           \/ \E t \in Timers : Fire(t) \/ StopTimer(t)
           \/ \E r \in Runs : BeginRefresh(r)
  <2>1. UNCHANGED <<delivered, best, missed, lags>>
    BY <1>2 DEF ScheduleSnapshot, Fire, StopTimer, BeginRefresh, connVars, missVars
  <2>2. UnderWay(delivered) => UnderWay(delivered)'
    <3>1. CASE ScheduleSnapshot
      BY <3>1 DEF ScheduleSnapshot, UnderWay, Inv, TypeOK, Seqs
    <3>2. ASSUME NEW t \in Timers, Fire(t) \/ StopTimer(t)
          PROVE  UnderWay(delivered) => UnderWay(delivered)'
      BY <3>2 DEF Fire, StopTimer, UnderWay, Inv, TypeOK, Idle
    <3>3. ASSUME NEW r \in Runs, BeginRefresh(r)
          PROVE  UnderWay(delivered) => UnderWay(delivered)'
      BY <3>3, <1>0 DEF BeginRefresh, UnderWay, Inv, TypeOK
    <3> QED  BY <1>2, <3>1, <3>2, <3>3
  <2> QED  BY <1>0, <2>1, <2>2 DEF Inv, LastIsCovered
<1>3. ASSUME NEW r \in Runs, ListTodos(r)  PROVE LastIsCovered'
  BY <1>0, <1>3, RunIsTyped DEF ListTodos, timerVars, connVars, Inv, LastIsCovered,
     UnderWay, TypeOK, Seqs
<1>4. ASSUME NEW r \in Runs, ListFails(r)  PROVE LastIsCovered'
  BY <1>4 DEF ListFails, Inv, TypeOK
<1>5. ASSUME NEW r \in Runs, SendSnapshot(r)  PROVE LastIsCovered'
  <2> DEFINE sent == run[r].todos
  <2>1. /\ UNCHANGED <<delivered, callback, pendingSeq, lags>>
        /\ missed \subseteq missed'
        /\ sent \in Seqs /\ sent <= projected
        /\ \A c \in Subscribers \ missed' : channel'[c] # channel[c]
    <3>1. Broadcast(sent) /\ sent \in Seqs
      BY <1>5, RunIsTyped DEF SendSnapshot, Inv
    <3> QED  BY <1>5, <3>1, BroadcastReaches DEF SendSnapshot, timerVars, Inv,
                ListsAreApplied
  <2>2. \A c \in Conns :
          best'[c] = IF channel'[c] # channel[c] /\ sent > best[c] THEN sent ELSE best[c]
    BY <1>5 DEF SendSnapshot
  <2>3. \A c \in Conns : best[c] \in Nat
    BY DEF Inv, TypeOK, Seqs
  <2>4. delivered \in Nat /\ sent \in Nat
    BY <2>1 DEF Inv, TypeOK, Seqs
  <2>5. CASE sent >= delivered
    <3>1. \A c \in Conns \ missed' : conn[c] = "open" => delivered <= best'[c]
      <4> SUFFICES ASSUME NEW c \in Conns \ missed', conn[c] = "open"
                   PROVE  delivered <= best'[c]
        OBVIOUS
      <4>1. channel'[c] # channel[c]
        BY <2>1 DEF Subscribers
      <4> QED  BY <2>2, <2>3, <2>4, <2>5, <4>1
    <3>2. delivered <= projected
      BY <2>1, <2>4, <2>5 DEF Inv, TypeOK, Seqs
    <3> QED  BY <1>0, <2>1, <3>1, <3>2 DEF LastIsCovered
  <2>6. CASE ~ (sent >= delivered)
    <3>1. UnderWay(delivered) => UnderWay(delivered)'
      BY <1>5, <2>1, <2>6 DEF SendSnapshot, UnderWay, Inv, TypeOK
    <3>2. \A c \in Conns : delivered <= best[c] => delivered <= best'[c]
      BY <2>2, <2>3, <2>4
    <3> QED  BY <1>0, <2>1, <3>1, <3>2 DEF Inv, LastIsCovered
  <2> QED  BY <2>5, <2>6
<1> QED  BY <1>1, <1>2, <1>3, <1>4, <1>5 DEF StreamStep

-----------------------------------------------------------------------------
LEMMA NextInv == Inv /\ [Next]_vars => Inv'
<1> SUFFICES ASSUME Inv, [Next]_vars  PROVE Inv'  OBVIOUS
<1>1. TypeOK' /\ ListsAreApplied'
  <2>1. CASE Next
    BY <2>1, TypesStep DEF Inv
  <2>2. CASE UNCHANGED vars
    BY <2>2 DEF Inv, TypeOK, ListsAreApplied, vars, streamVars, timerVars, connVars,
       missVars
  <2> QED  BY <2>1, <2>2
<1>2. TimerIsKept' /\ SnapshotIsOwed'
  BY OwedStep DEF Inv
<1>3. LastIsCovered'
  BY ConnsCovered, StreamCovered DEF Next
<1> QED  BY <1>1, <1>2, <1>3 DEF Inv

LEMMA Invariance == Spec => []Inv
  BY InitInv, NextInv, PTL DEF Spec

\* TypeOK holds in every state (groupStream and what runSnapshotRefresh keeps).
THEOREM TypeCorrect == Spec => []TypeOK
<1>1. Inv => TypeOK
  BY DEF Inv
<1> QED  BY Invariance, <1>1, PTL

\* An event that scheduleSnapshot has noted has a timer that will fire or a
\* refresh that will collect it, whatever timer was reset late or stopped late.
THEOREM ScheduledIsOwed == Spec => []SnapshotIsOwed
<1>1. Inv => SnapshotIsOwed
  BY DEF Inv
<1> QED  BY Invariance, <1>1, PTL

\* When nothing is under way any more, every open connection was sent a list with
\* every event, unless a wait ran out, a list failed, its channel was full or the
\* subscription began with an event that was not applied yet.
THEOREM SettledWasSent == Spec => []CurrentSnapshotWasSent
<1>1. ASSUME Inv, Settled, lags = 0, ~ gap, NEW c \in Conns \ missed, conn[c] = "open"
      PROVE  best[c] = projected
  <2>1. c \in Subscribers
    BY <1>1 DEF Subscribers
  <2>2. delivered = published /\ projected = published /\ best[c] <= projected
    BY <1>1, <2>1 DEF Settled, Inv, ListsAreApplied
  <2>3. pendingSeq = 0 /\ callback = 0 /\ \A r \in Runs : run[r].pc = "idle"
    BY <1>1, ParametersAssumption
    DEF Settled, Inv, SnapshotIsOwed, TypeOK, Seqs, Idle
  <2>4. CASE UnderWay(delivered)
    BY <1>1, <2>2, <2>3, <2>4 DEF UnderWay, Inv, TypeOK, Seqs
  <2>5. CASE ~ UnderWay(delivered)
    BY <1>1, <2>1, <2>2, <2>5 DEF Inv, LastIsCovered, TypeOK, Seqs
  <2> QED  BY <2>4, <2>5
<1>2. Inv => CurrentSnapshotWasSent
  BY <1>1 DEF CurrentSnapshotWasSent
<1> QED  BY Invariance, <1>2, PTL
=============================================================================
