--------------------------- MODULE SnapshotRefresh ---------------------------
(***************************************************************************)
(* How a change reaches the boards: one groupStream of the SSE streamer, the *)
(* callback of its NATS subscription, the debounce timer, the snapshot       *)
(* refreshes it starts, and the /events connections that show the result.    *)
(*                                                                          *)
(* A connection that comes right after the last one left may still get the   *)
(* same groupStream (GroupFanout), with the timer and the refreshes of the   *)
(* time before; that is the case modelled for every connection.              *)
(*                                                                          *)
(* The events of the group are numbered; the projection has applied the      *)
(* first projected of them (sinks that work out of order are TodoPipeline's  *)
(* subject), and a list of todos is known by how many events it shows.       *)
(***************************************************************************)
EXTENDS Naturals, Sequences

CONSTANTS
    Conns,        \* connections to /events
    Timers,       \* time.Timer objects
    Runs,         \* goroutines of runSnapshotRefresh
    None,
    MaxEvents,    \* bound on the events of the group
    Capacity,     \* of a subscriber's channel (64 in the code)
    MaxLags       \* bound on waits that run out and lists that fail

ASSUME ParametersAssumption ==
    /\ None \notin Timers
    /\ MaxEvents \in Nat /\ Capacity \in Nat \ {0} /\ MaxLags \in Nat

VARIABLES
    published, projected,   \* events in the stream, events applied to table todos
    silent,       \* no event of the group will be published any more
    delivered,    \* events the subscription has delivered or skipped
    callback,     \* event whose callback still has to schedule a refresh, or 0
    pendingSeq, refreshTimer,
    armed,        \* timers that will fire
    stopping,     \* timers removeSubscriber took out and has not stopped yet
    run,          \* the refreshes under way
    conn,         \* where each connection is
    channel,      \* its messages: a snapshot, or 0 for a plain event
    board,        \* what it shows
    best,         \* the latest snapshot it was sent
    missed,       \* connections whose channel was full for some message
    lags,         \* waits that ran out and lists that failed
    gap           \* a subscription skipped an event that was not projected yet

\* best, missed, lags and gap record the history for the properties.

streamVars == <<published, projected, silent>>
timerVars == <<pendingSeq, refreshTimer, armed, stopping>>
connVars == <<conn, channel, board, best>>
missVars == <<missed, lags, gap>>
vars == <<streamVars, delivered, callback, timerVars, run, connVars, missVars>>

Idle == [pc |-> "idle"]
Seqs == 0 .. MaxEvents

TypeOK ==
    /\ published \in Seqs /\ projected \in 0 .. published /\ silent \in BOOLEAN
    /\ delivered \in 0 .. published
    /\ callback \in Seqs
    /\ pendingSeq \in Seqs
    /\ refreshTimer \in Timers \cup {None}
    /\ armed \in SUBSET Timers
    /\ stopping \in SUBSET Timers
    /\ run \in [Runs -> {Idle, [pc |-> "fired"]} \cup [pc : {"waiting"}, target : Seqs]
                        \cup [pc : {"listed"}, todos : Seqs]]
    /\ conn \in [Conns -> {"out", "joined", "open", "gone"}]
    /\ \A c \in Conns : channel[c] \in Seq(Seqs) /\ Len(channel[c]) <= Capacity
    /\ board \in [Conns -> Seqs]
    /\ best \in [Conns -> Seqs]
    /\ missed \in SUBSET Conns /\ lags \in 0 .. MaxLags /\ gap \in BOOLEAN

Init ==
    /\ published = 0 /\ projected = 0 /\ silent = FALSE
    /\ delivered = 0 /\ callback = 0
    /\ pendingSeq = 0 /\ refreshTimer = None /\ armed = {} /\ stopping = {}
    /\ run = [r \in Runs |-> Idle]
    /\ conn = [c \in Conns |-> "out"]
    /\ channel = [c \in Conns |-> <<>>]
    /\ board = [c \in Conns |-> 0]
    /\ best = [c \in Conns |-> 0]
    /\ missed = {} /\ lags = 0 /\ gap = FALSE

Subscribers == { c \in Conns : conn[c] \in {"joined", "open"} }

\* A message for every subscriber whose channel has room; the others miss it.
Broadcast(m) ==
    LET full == { c \in Subscribers : Len(channel[c]) = Capacity } IN
    /\ channel' = [c \in Conns |->
                     IF c \in Subscribers \ full THEN Append(channel[c], m)
                     ELSE channel[c]]
    /\ missed' = missed \cup full

------------------------------------------------------------------------------
(* The rest of the system.                                                   *)

Publish ==
    /\ published < MaxEvents /\ ~ silent
    /\ published' = published + 1
    /\ UNCHANGED <<projected, silent, delivered, callback, timerVars, run, connVars,
                   missVars>>

\* The last user of the group stops changing its todos.
FallSilent ==
    /\ ~ silent /\ silent' = TRUE
    /\ UNCHANGED <<published, projected, delivered, callback, timerVars, run, connVars,
                   missVars>>

Project ==
    /\ projected < published
    /\ projected' = projected + 1
    /\ UNCHANGED <<published, silent, delivered, callback, timerVars, run, connVars,
                   missVars>>

------------------------------------------------------------------------------
(* A connection.                                                             *)

\* Subscribe; the first connection opens the NATS subscription, with DeliverNew.
Join(c) ==
    /\ conn[c] = "out"
    /\ conn' = [conn EXCEPT ![c] = "joined"]
    /\ IF Subscribers = {}
       THEN delivered' = published /\ gap' = (gap \/ projected < published)
       ELSE UNCHANGED <<delivered, gap>>
    /\ UNCHANGED <<streamVars, callback, timerVars, run, channel, board, best, missed,
                   lags>>

\* The initial board is listed after the subscription.  If that fails the
\* connection goes on with the empty board it has.
ShowInitial(c) ==
    /\ conn[c] = "joined"
    /\ conn' = [conn EXCEPT ![c] = "open"]
    /\ \/ /\ board' = [board EXCEPT ![c] = projected]
          /\ best' = [best EXCEPT ![c] = projected]
          /\ UNCHANGED lags
       \/ lags < MaxLags /\ lags' = lags + 1 /\ UNCHANGED <<board, best>>
    /\ UNCHANGED <<streamVars, delivered, callback, timerVars, run, channel, missed, gap>>

\* The loop of the handler: an event only adds to the feed, a snapshot replaces
\* the board.
ShowNext(c) ==
    /\ conn[c] = "open"
    /\ channel[c] # <<>>
    /\ channel' = [channel EXCEPT ![c] = Tail(@)]
    /\ board' = [board EXCEPT ![c] =
                   IF Head(channel[c]) = 0 THEN @ ELSE Head(channel[c])]
    /\ UNCHANGED <<streamVars, delivered, callback, timerVars, run, conn, best, missVars>>

\* removeSubscriber; the last one clears the timer and what was pending.
Leave(c) ==
    /\ conn[c] = "open"
    /\ conn' = [conn EXCEPT ![c] = "gone"]
    /\ channel' = [channel EXCEPT ![c] = <<>>]
    /\ IF Subscribers = {c}
       THEN /\ pendingSeq' = 0 /\ refreshTimer' = None
            /\ stopping' = stopping \cup ({refreshTimer} \ {None})
       ELSE UNCHANGED <<pendingSeq, refreshTimer, stopping>>
    /\ UNCHANGED <<streamVars, delivered, callback, armed, run, board, best, missVars>>

\* timer.Stop(), after the unlock.
StopTimer(t) ==
    /\ t \in stopping
    /\ armed' = armed \ {t}
    /\ stopping' = stopping \ {t}
    /\ UNCHANGED <<streamVars, delivered, callback, pendingSeq, refreshTimer, run,
                   connVars, missVars>>

------------------------------------------------------------------------------
(* The subscription's callback, the timer and the refresh.                   *)

\* The callback broadcasts the event,
DeliverEvent ==
    /\ Subscribers # {}
    /\ callback = 0
    /\ delivered < published
    /\ delivered' = delivered + 1
    /\ callback' = delivered + 1
    /\ Broadcast(0)
    /\ UNCHANGED <<streamVars, timerVars, run, conn, board, best, lags, gap>>

\* The timer there is, or a new one: any that is not in use.
CurrentTimer ==
    LET unused == Timers \ (armed \cup stopping) IN
    IF refreshTimer # None THEN refreshTimer
    ELSE IF unused = {} THEN None ELSE CHOOSE t \in unused : TRUE

\* Mutant: what was pending first stays the target.
ScheduleSnapshot_firstSeq ==
    /\ callback # 0
    /\ callback' = 0
    /\ pendingSeq' = IF pendingSeq = 0 THEN callback ELSE pendingSeq
    /\ CurrentTimer # None
    /\ refreshTimer' = CurrentTimer
    /\ armed' = armed \cup {CurrentTimer}
    /\ UNCHANGED <<streamVars, delivered, stopping, run, connVars, missVars>>

\* and schedules a snapshot: a new timer, or a longer wait of the one there is,
\* even if that one has fired already.
ScheduleSnapshot ==
    /\ callback # 0
    /\ callback' = 0
    /\ pendingSeq' = IF callback > pendingSeq THEN callback ELSE pendingSeq
    /\ CurrentTimer # None
    /\ refreshTimer' = CurrentTimer
    /\ armed' = armed \cup {CurrentTimer}
    /\ UNCHANGED <<streamVars, delivered, stopping, run, connVars, missVars>>

\* The debounce time is over, since the timer was set or reset last:
\* runSnapshotRefresh starts in a goroutine.
Fire(t) ==
    LET idle == { r \in Runs : run[r] = Idle } IN
    /\ t \in armed /\ idle # {}
    /\ armed' = armed \ {t}
    /\ run' = [run EXCEPT ![CHOOSE r \in idle : TRUE] = [pc |-> "fired"]]
    /\ UNCHANGED <<streamVars, delivered, callback, pendingSeq, refreshTimer, stopping,
                   connVars, missVars>>

\* Mutant: the pending event is not cleared.
BeginRefresh_keepsPending(r) ==
    /\ run[r].pc = "fired"
    /\ run' = [run EXCEPT ![r] = IF Subscribers = {} THEN Idle
                                 ELSE [pc |-> "waiting", target |-> pendingSeq]]
    /\ refreshTimer' = None
    /\ UNCHANGED <<streamVars, delivered, callback, pendingSeq, armed, stopping,
                   connVars, missVars>>

\* Its critical section: whatever timer is the current one, it is forgotten.
BeginRefresh(r) ==
    /\ run[r].pc = "fired"
    /\ run' = [run EXCEPT ![r] = IF Subscribers = {} THEN Idle
                                 ELSE [pc |-> "waiting", target |-> pendingSeq]]
    /\ pendingSeq' = 0
    /\ refreshTimer' = None
    /\ UNCHANGED <<streamVars, delivered, callback, armed, stopping, connVars, missVars>>

\* Mutant: no wait for the projection.
ListTodos_atOnce(r) ==
    /\ run[r].pc = "waiting"
    /\ run' = [run EXCEPT ![r] = [pc |-> "listed", todos |-> projected]]
    /\ UNCHANGED <<streamVars, delivered, callback, timerVars, connVars, missVars>>

\* waitForProjectionOffset has seen the target (0 at once), or its time is up;
\* then the todos are listed.
ListTodos(r) ==
    /\ run[r].pc = "waiting"
    /\ \/ run[r].target <= projected /\ UNCHANGED lags
       \/ lags < MaxLags /\ lags' = lags + 1
    /\ run' = [run EXCEPT ![r] = [pc |-> "listed", todos |-> projected]]
    /\ UNCHANGED <<streamVars, delivered, callback, timerVars, connVars, missed,
                   gap>>

\* The list fails: nothing is sent.
ListFails(r) ==
    /\ run[r].pc = "waiting"
    /\ lags < MaxLags /\ lags' = lags + 1
    /\ run' = [run EXCEPT ![r] = Idle]
    /\ UNCHANGED <<streamVars, delivered, callback, timerVars, connVars, missed,
                   gap>>

SendSnapshot(r) ==
    /\ run[r].pc = "listed"
    /\ Broadcast(run[r].todos)
    /\ best' = [c \in Conns |->
                  IF channel'[c] # channel[c] /\ run[r].todos > best[c]
                  THEN run[r].todos ELSE best[c]]
    /\ run' = [run EXCEPT ![r] = Idle]
    /\ UNCHANGED <<streamVars, delivered, callback, timerVars, conn, board, lags, gap>>

ConnStep == \E c \in Conns : Join(c) \/ ShowInitial(c) \/ ShowNext(c) \/ Leave(c)

StreamStep ==
    \/ DeliverEvent \/ ScheduleSnapshot
    \/ \E t \in Timers : Fire(t) \/ StopTimer(t)
    \/ \E r \in Runs : BeginRefresh(r) \/ ListTodos(r) \/ ListFails(r) \/ SendSnapshot(r)

Next == Publish \/ FallSilent \/ Project \/ ConnStep \/ StreamStep

Spec == Init /\ [][Next]_vars

\* The projection catches up and goroutines run on; clients need neither come nor
\* leave, and nothing need be published.  Each event gives the timer its whole time
\* again, so it is sure to fire only when the group is silent: before, events that
\* follow each other closely enough may put it off for ever.
Fairness ==
    /\ WF_vars(Project)
    /\ \A c \in Conns : WF_vars(ShowInitial(c) \/ ShowNext(c))
    /\ WF_vars(DeliverEvent) /\ WF_vars(ScheduleSnapshot)
    /\ \A t \in Timers : WF_vars(StopTimer(t)) /\ WF_vars(silent /\ Fire(t))
    /\ \A r \in Runs :
         WF_vars(BeginRefresh(r) \/ ListTodos(r) \/ SendSnapshot(r))

FairSpec == Spec /\ Fairness

------------------------------------------------------------------------------
\* An event whose refresh was scheduled is not forgotten: the current timer is
\* armed, or a refresh that fired has yet to collect it.  Resetting a timer that
\* has fired, and stopping one late, do not break this.
SnapshotIsOwed ==
    pendingSeq > 0 =>
        \/ refreshTimer \in armed
        \/ \E r \in Runs : run[r].pc = "fired"

\* Nothing is on its way to a board any more.
Settled ==
    /\ projected = published /\ callback = 0 /\ armed = {} /\ stopping = {}
    /\ Subscribers # {} => delivered = published
    /\ \A r \in Runs : run[r] = Idle
    /\ \A c \in Conns : channel[c] = <<>>

\* When everything is settled, an open connection has been sent a list with every
\* event, unless a wait ran out, a list failed, its own channel was full, or a
\* subscription had skipped an event that was yet to be projected.  However
\* refreshes, timers and departures interleave, nothing else loses a change.
CurrentSnapshotWasSent ==
    (Settled /\ lags = 0 /\ ~ gap) =>
        \A c \in Conns \ missed : conn[c] = "open" => best[c] = projected

\* The same as a promise, once the group is silent: whatever was published gets to
\* an open connection, although timers are reset after they fired and stopped after
\* they were replaced.  While events go on there is no such promise.
BoardsCatchUp ==
    \A c \in Conns, k \in 1 .. MaxEvents :
        (silent /\ published >= k /\ conn[c] = "open")
            ~> (best[c] >= k \/ conn[c] = "gone" \/ c \in missed \/ lags > 0 \/ gap)

\* "newly created/updated/deleted items appear consistently even under projection
\* lag" (README.md:165): when nothing is on its way any more, an open board shows
\* every event.
SettledBoardIsCurrent ==
    Settled => \A c \in Conns : conn[c] = "open" => board[c] = projected
==============================================================================
