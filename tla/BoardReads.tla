------------------------------ MODULE BoardReads ------------------------------
(***************************************************************************)
(* The two ways a change comes back to the screen, over data sinks that may  *)
(* work out of order: POST /api/v1/command waits until its own command is in *)
(* todo_events before it answers, and the client lists the todos after that; *)
(* a groupStream waits until the offset of the group has reached its event   *)
(* and then sends a list to every board.                                    *)
(*                                                                          *)
(* One group, whose n-th event creates the n-th todo.  The engine is left    *)
(* out: a command is the event made from it.  Overlapping refreshes are the  *)
(* subject of SnapshotRefresh; here one runs at a time.                     *)
(***************************************************************************)
EXTENDS QueueConsumer, FiniteSets

CONSTANTS
    Clients,     \* browsers that post commands
    Sinks,       \* members of the queue group data-sink
    NoRow,       \* no row in group_projection_offsets
    Limit,       \* how many todos a list shows
    MaxEvents,   \* bound on the events of the group
    MaxFaults    \* bound on failures, crashes and waits that run out

ASSUME NoRowAssumption == NoRow \notin Nat
ASSUME BoundsAssumption == Limit \in Nat \ {0} /\ MaxEvents \in Nat /\ MaxFaults \in Nat

VARIABLES
    published,                      \* events in the stream
    queue, sinks,                   \* the consumer data-sink and its members
    todo_events, todos, offset,     \* the tables of the projection
    client,                         \* what each browser is at
    notified, pendingSeq, refresh,  \* the groupStream
    board,                          \* the last list it sent, and why
    faults

sinkVars == <<queue, sinks>>
dbVars == <<todo_events, todos, offset>>
streamVars == <<notified, pendingSeq, refresh, board>>
vars == <<published, sinkVars, dbVars, client, streamVars, faults>>

Idle == [pc |-> "idle"]
Seqs == 0 .. MaxEvents

TypeOK ==
    /\ published \in Seqs
    /\ queue \in Consumer(published)
    /\ sinks \in [Sinks -> Worker(published)]
    /\ todo_events \in SUBSET (1 .. published)
    /\ todos \in SUBSET todo_events
    /\ offset \in {NoRow} \cup 1 .. published
    /\ client \in [Clients ->
         {Idle} \cup [pc : {"waiting"}, event : 1 .. published]
           \cup [pc : {"answered"}, event : 1 .. published, applied : BOOLEAN]
           \cup [pc : {"shown"}, event : 1 .. published, applied : BOOLEAN,
                 list : SUBSET todos]]
    /\ notified \in 0 .. published /\ pendingSeq \in 0 .. notified
    /\ refresh \in {Idle} \cup [pc : {"waiting"}, target : 1 .. notified]
    /\ board \in [target : 0 .. notified, waited : BOOLEAN, list : SUBSET todos,
                  open : SUBSET (1 .. published)]
    /\ faults \in 0 .. MaxFaults

Init ==
    /\ published = 0
    /\ queue = NewConsumer
    /\ sinks = [s \in Sinks |-> IdleWorker]
    /\ todo_events = {} /\ todos = {} /\ offset = NoRow
    /\ client = [c \in Clients |-> Idle]
    /\ notified = 0 /\ pendingSeq = 0 /\ refresh = Idle
    /\ board = [target |-> 0, waited |-> TRUE, list |-> {}, open |-> {}]
    /\ faults = 0

Fault == faults < MaxFaults /\ faults' = faults + 1

\* ListGroupTodos: the newest todos of the group.
ListGroupTodos == { n \in todos : Cardinality({ m \in todos : m > n }) < Limit }

------------------------------------------------------------------------------
(* A client of the command API.                                              *)

Post(c) ==
    /\ client[c].pc \in {"idle", "shown"}
    /\ published < MaxEvents
    /\ published' = published + 1
    /\ client' = [client EXCEPT ![c] = [pc |-> "waiting", event |-> published + 1]]
    /\ UNCHANGED <<sinkVars, dbVars, streamVars, faults>>

\* WaitForCommandApplied finds the event of the command.
CommandApplied(c) ==
    /\ client[c].pc = "waiting"
    /\ client[c].event \in todo_events
    /\ client' = [client EXCEPT ![c] =
                    [pc |-> "answered", event |-> client[c].event, applied |-> TRUE]]
    /\ UNCHANGED <<published, sinkVars, dbVars, streamVars, faults>>

\* The wait runs out, or fails: the answer is the same 202.
CommandLate(c) ==
    /\ client[c].pc = "waiting"
    /\ Fault
    /\ client' = [client EXCEPT ![c] =
                    [pc |-> "answered", event |-> client[c].event, applied |-> FALSE]]
    /\ UNCHANGED <<published, sinkVars, dbVars, streamVars>>

\* GET /api/v1/todos or /ui/workspace.
ListTodos(c) ==
    /\ client[c].pc = "answered"
    /\ client' = [client EXCEPT ![c] =
                    [pc |-> "shown", event |-> client[c].event,
                     applied |-> client[c].applied, list |-> ListGroupTodos]]
    /\ UNCHANGED <<published, sinkVars, dbVars, streamVars, faults>>

------------------------------------------------------------------------------
(* The data sinks.                                                           *)

SinkTake(s, n) ==
    /\ n \in Deliverable(queue, published)
    /\ queue' = Delivered(queue, n)
    /\ sinks' = [sinks EXCEPT ![s] = Receives(@, n)]
    /\ UNCHANGED <<published, dbVars, client, streamVars, faults>>

Larger(m, n) == IF m > n THEN m ELSE n

\* One transaction over the three tables.
InsertEvent(n) ==
    /\ todo_events' = todo_events \cup {n}
    /\ todos' = todos \cup {n}
    /\ offset' = IF offset = NoRow THEN n ELSE Larger(n, offset)

\* Mutant: the event and its projection in two transactions.
SinkCommit_twice(s) ==
    LET n == Current(sinks[s])
    IN  /\ Handling(sinks[s])
        /\ IF n \in todo_events
           THEN /\ InsertEvent(n)
                /\ sinks' = [sinks EXCEPT ![s] = Works(@)]
           ELSE /\ todo_events' = todo_events \cup {n}
                /\ UNCHANGED <<sinks, todos, offset>>
        /\ UNCHANGED <<published, queue, client, streamVars, faults>>

SinkCommit(s) ==
    /\ Handling(sinks[s])
    /\ InsertEvent(Current(sinks[s]))
    /\ sinks' = [sinks EXCEPT ![s] = Works(@)]
    /\ UNCHANGED <<published, queue, client, streamVars, faults>>

SinkAck(s) ==
    /\ Acking(sinks[s])
    /\ queue' = Settled(queue, Current(sinks[s]))
    /\ sinks' = [sinks EXCEPT ![s] = Returns(@)]
    /\ UNCHANGED <<published, dbVars, client, streamVars, faults>>

\* The transaction is rolled back and the callback sends a Nak.
SinkFails(s) ==
    /\ Handling(sinks[s])
    /\ Fault
    /\ queue' = Requeued(queue, {Current(sinks[s])})
    /\ sinks' = [sinks EXCEPT ![s] = Returns(@)]
    /\ UNCHANGED <<published, dbVars, client, streamVars>>

SinkCrash(s) ==
    /\ sinks[s] # IdleWorker
    /\ Fault
    /\ queue' = Requeued(queue, Held(sinks[s]))
    /\ sinks' = [sinks EXCEPT ![s] = IdleWorker]
    /\ UNCHANGED <<published, dbVars, client, streamVars>>

------------------------------------------------------------------------------
(* The groupStream.                                                          *)

\* The subscription delivers an event, which schedules a refresh.
ScheduleSnapshot ==
    /\ notified < published
    /\ notified' = notified + 1
    /\ pendingSeq' = notified + 1
    /\ UNCHANGED <<published, sinkVars, dbVars, client, refresh, board, faults>>

RunSnapshotRefresh ==
    /\ pendingSeq # 0 /\ refresh = Idle
    /\ refresh' = [pc |-> "waiting", target |-> pendingSeq]
    /\ pendingSeq' = 0
    /\ UNCHANGED <<published, sinkVars, dbVars, client, notified, board, faults>>

\* Events that were handed to a sink, and that none has settled.
Open == (1 .. queue.next) \ queue.acked

\* The list is sent; open: the events it was to show that are at a sink.
SendList(waited) ==
    /\ board' = [target |-> refresh.target, waited |-> waited,
                 list |-> ListGroupTodos,
                 open |-> Open \cap (1 .. refresh.target)]
    /\ refresh' = Idle
    /\ UNCHANGED <<published, sinkVars, dbVars, client, notified, pendingSeq>>

\* The wait never fails for want of a row: the group has had no event yet.
GetGroupProjectionOffset == IF offset = NoRow THEN 0 ELSE offset

\* Mutant: the list does not wait for the offset.
OffsetReached_atOnce ==
    /\ refresh # Idle
    /\ SendList(TRUE)
    /\ UNCHANGED faults

\* waitForProjectionOffset sees the offset at the target.
OffsetReached ==
    /\ refresh # Idle
    /\ GetGroupProjectionOffset >= refresh.target
    /\ SendList(TRUE)
    /\ UNCHANGED faults

\* It runs out, and the list is sent all the same.
OffsetLate == refresh # Idle /\ SendList(FALSE) /\ Fault

------------------------------------------------------------------------------
SinkStep ==
    \E s \in Sinks :
        \/ \E n \in 1 .. published : SinkTake(s, n)
        \/ SinkCommit(s) \/ SinkAck(s) \/ SinkFails(s) \/ SinkCrash(s)

Next ==
    \/ \E c \in Clients :
         Post(c) \/ CommandApplied(c) \/ CommandLate(c) \/ ListTodos(c)
    \/ SinkStep
    \/ ScheduleSnapshot \/ RunSnapshotRefresh \/ OffsetReached \/ OffsetLate

Spec == Init /\ [][Next]_vars

------------------------------------------------------------------------------
Shows(list, n) == n \in list \/ Cardinality({ m \in list : m > n }) >= Limit

\* A client whose wait ended because its command was applied finds its todo in
\* the list it gets next, unless newer ones fill the list: what one sink does
\* out of order, or again, does not come between.
ReadYourWrites ==
    \A c \in Clients :
        (client[c].pc = "shown" /\ client[c].applied) =>
            Shows(client[c].list, client[c].event)

\* With many sinks the offset passes events that other sinks still hold or that
\* are due again, so a board may miss them although it waited for the offset.  But
\* it misses no others: what comes before an applied event was handed to a sink,
\* and what no sink has any more is applied.  A board that did not wait may also
\* miss events that no sink was given yet.
BoardMissesOnlyOpenEvents ==
    board.waited => \A n \in (1 .. board.target) \ board.open : Shows(board.list, n)

==============================================================================
