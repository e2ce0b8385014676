----------------------------- MODULE TodoPipeline -----------------------------
(***************************************************************************)
(* The write path of the service: the command API checks a request against  *)
(* the read model and publishes a command, the domain engines turn commands *)
(* into events, the data sinks project events into Postgres, and the API    *)
(* reads that projection again for the next request.                        *)
(*                                                                          *)
(* A command is known by its number in the command stream, an event by its  *)
(* number in the event stream.  An event is the number of the command it    *)
(* was made from, since domainengine.Service.Handle copies every field of   *)
(* the command; its event_id is fresh in every call of Handle, so the event *)
(* number stands for it.  A row holds the numbers of the commands that      *)
(* wrote its title and its updated_by columns last.                         *)
(***************************************************************************)
EXTENDS QueueConsumer

CONSTANTS
    Users, Groups, Todos,   \* subjects, group ids, todo ids
    Handlers,               \* concurrent POST /api/v1/command requests
    Engines, Sinks,         \* members of the two queue groups
    Requests,               \* the requests that clients send
    NoRow,                  \* no row in table todos
    MaxCommands,            \* bound on the command stream
    MaxFaults,              \* bound on failed calls, expiries and crashes
    MaxForeign              \* bound on messages nobody here published

Changes == {"update-todo", "delete-todo"}
Supported == {"create-todo"} \cup Changes
\* "other" stands for any action the services do not know.
Actions == Supported \cup {"other"}

\* moderator: CanModerateMessages(role) of the role read for the actor.
Request == [action : Actions, todo : Todos, group : Groups, actor : Users,
            moderator : BOOLEAN, titled : BOOLEAN]

Row == [group : Groups, creator : Users, title : Nat, updated_by : Nat,
        deleted : BOOLEAN]

ASSUME RequestsAssumption == Requests \subseteq Request
ASSUME NoRowAssumption == NoRow \notin Row
ASSUME BoundsAssumption ==
    MaxCommands \in Nat /\ MaxFaults \in Nat /\ MaxForeign \in Nat

\* An event made of no command of ours: undecodable, or of an unknown type.
ForeignEvent == 0

VARIABLES
    api,        \* the request each handler is at, and how far it has come
    commands,   \* stream COMMANDS
    cmdQueue,   \* its consumer "domain-engine"
    engines,    \* the domain engines
    events,     \* stream EVENTS
    evtQueue,   \* its consumer "data-sink"
    sinks,      \* the data sinks
    applied,    \* table todo_events: the events inserted
    todos,      \* table todos
    offset,     \* table group_projection_offsets
    faults,     \* faults so far
    foreign     \* foreign messages so far

apiVars == <<api, commands>>
engineVars == <<cmdQueue, engines, events>>
sinkVars == <<evtQueue, sinks>>
dbVars == <<applied, todos, offset>>
boundVars == <<faults, foreign>>
vars == <<apiVars, engineVars, sinkVars, dbVars, boundVars>>

Idle == [pc |-> "idle"]

Init ==
    /\ api = [h \in Handlers |-> Idle]
    /\ commands = <<>>
    /\ cmdQueue = NewConsumer
    /\ engines = [w \in Engines |-> IdleWorker]
    /\ events = <<>>
    /\ evtQueue = NewConsumer
    /\ sinks = [w \in Sinks |-> IdleWorker]
    /\ applied = {}
    /\ todos = [t \in Todos |-> NoRow]
    /\ offset = [g \in Groups |-> 0]
    /\ faults = 0
    /\ foreign = 0

Fault == faults < MaxFaults /\ faults' = faults + 1 /\ UNCHANGED foreign

------------------------------------------------------------------------------
(* The command API: handleCreateCommand and Service.Accept.                 *)

\* GetTodoByID returns the todo: there is a row and it is not deleted.
Live(t) == todos[t] # NoRow /\ ~ todos[t].deleted

\* Mutant: the author is not compared.
MayChange_anyMember(r) == Live(r.todo) /\ todos[r.todo].group = r.group

\* The checks of an update or a delete against the row that was read.
MayChange(r) ==
    /\ Live(r.todo)
    /\ todos[r.todo].group = r.group
    /\ r.moderator \/ todos[r.todo].creator = r.actor

\* The switch of Service.Accept on the action.
WellFormed(r) ==
    /\ r.action \in Supported
    /\ r.action # "delete-todo" => r.titled

\* A request comes in and EnsureMemberRole finds the actor's role (a non-member
\* gets a 403 and nothing changes).  The identity tables are free here: any
\* member may have any role at any time.
Receive(h, r) ==
    /\ api[h] = Idle
    /\ Len(commands) < MaxCommands
    /\ api' = [api EXCEPT ![h] =
                 [pc |-> IF r.action \in Changes THEN "lookup" ELSE "accept",
                  req |-> r]]
    /\ UNCHANGED <<commands, engineVars, sinkVars, dbVars, boundVars>>

\* Mutant: the row is not checked.
Lookup_unchecked(h) ==
    /\ api[h].pc = "lookup"
    /\ api' = [api EXCEPT ![h] = [pc |-> "accept", req |-> api[h].req]]
    /\ UNCHANGED <<commands, engineVars, sinkVars, dbVars, boundVars>>

\* The handler reads the todo and goes on, or answers 400, 403, 404 or, when the
\* database fails, 500.
Lookup(h) ==
    /\ api[h].pc = "lookup"
    /\ \/ /\ MayChange(api[h].req)
          /\ api' = [api EXCEPT ![h] = [pc |-> "accept", req |-> api[h].req]]
       \/ api' = [api EXCEPT ![h] = Idle]
    /\ UNCHANGED <<commands, engineVars, sinkVars, dbVars, boundVars>>

\* Accept returns a validation error: 400.
Reject(h) ==
    /\ api[h].pc = "accept"
    /\ ~ WellFormed(api[h].req)
    /\ api' = [api EXCEPT ![h] = Idle]
    /\ UNCHANGED <<commands, engineVars, sinkVars, dbVars, boundVars>>

\* Accept publishes the command; the handler's wait for the projection
\* discards its result, so the reply (202) may come at any later time.
Accept(h) ==
    /\ api[h].pc = "accept"
    /\ WellFormed(api[h].req)
    /\ Len(commands) < MaxCommands
    /\ commands' = Append(commands, api[h].req)
    /\ api' = [api EXCEPT ![h] = Idle]
    /\ UNCHANGED <<engineVars, sinkVars, dbVars, boundVars>>

\* Publish returns an error (500): the stream may have the command or not.
AcceptFails(h, stored) ==
    /\ api[h].pc = "accept"
    /\ WellFormed(api[h].req)
    /\ Len(commands) < MaxCommands
    /\ Fault
    /\ commands' = IF stored THEN Append(commands, api[h].req) ELSE commands
    /\ api' = [api EXCEPT ![h] = Idle]
    /\ UNCHANGED <<engineVars, sinkVars, dbVars>>

\* Something else publishes a command of an action nobody knows.
ForeignCommand(r) ==
    /\ r.action \notin Supported
    /\ foreign < MaxForeign
    /\ Len(commands) < MaxCommands
    /\ commands' = Append(commands, r)
    /\ foreign' = foreign + 1
    /\ UNCHANGED <<api, engineVars, sinkVars, dbVars, faults>>

------------------------------------------------------------------------------
(* The domain engine: Service.Handle under the callback of its main.         *)

EngineTake(w, m) ==
    /\ m \in Deliverable(cmdQueue, Len(commands))
    /\ cmdQueue' = Delivered(cmdQueue, m)
    /\ engines' = [engines EXCEPT ![w] = Receives(@, m)]
    /\ UNCHANGED <<apiVars, events, sinkVars, dbVars, boundVars>>

\* Handle publishes the event.
EnginePublish(w) ==
    /\ Handling(engines[w])
    /\ commands[Current(engines[w])].action \in Supported
    /\ events' = Append(events, Current(engines[w]))
    /\ engines' = [engines EXCEPT ![w] = Works(@)]
    /\ UNCHANGED <<apiVars, cmdQueue, sinkVars, dbVars, boundVars>>

\* The callback acknowledges the command.
EngineAck(w) ==
    /\ Acking(engines[w])
    /\ cmdQueue' = Settled(cmdQueue, Current(engines[w]))
    /\ engines' = [engines EXCEPT ![w] = Returns(@)]
    /\ UNCHANGED <<apiVars, events, sinkVars, dbVars, boundVars>>

\* The same, but the Ack is lost: its error is ignored.
EngineAckLost(w) ==
    /\ Acking(engines[w])
    /\ Fault
    /\ cmdQueue' = Requeued(cmdQueue, {Current(engines[w])})
    /\ engines' = [engines EXCEPT ![w] = Returns(@)]
    /\ UNCHANGED <<apiVars, events, sinkVars, dbVars>>

\* Mutant: a failed publish is acknowledged.
EngineFails_acks(w, stored) ==
    /\ Handling(engines[w])
    /\ commands[Current(engines[w])].action \in Supported
    /\ Fault
    /\ events' = IF stored THEN Append(events, Current(engines[w])) ELSE events
    /\ cmdQueue' = Settled(cmdQueue, Current(engines[w]))
    /\ engines' = [engines EXCEPT ![w] = Returns(@)]
    /\ UNCHANGED <<apiVars, sinkVars, dbVars>>

\* Publish returns an error, stored or not, and the callback sends a Nak.
EngineFails(w, stored) ==
    /\ Handling(engines[w])
    /\ commands[Current(engines[w])].action \in Supported
    /\ Fault
    /\ events' = IF stored THEN Append(events, Current(engines[w])) ELSE events
    /\ cmdQueue' = Requeued(cmdQueue, {Current(engines[w])})
    /\ engines' = [engines EXCEPT ![w] = Returns(@)]
    /\ UNCHANGED <<apiVars, sinkVars, dbVars>>

\* Mutant: Nak for a command nobody will ever handle.
EngineDiscard_naks(w) ==
    /\ Handling(engines[w])
    /\ commands[Current(engines[w])].action \notin Supported
    /\ cmdQueue' = Requeued(cmdQueue, {Current(engines[w])})
    /\ engines' = [engines EXCEPT ![w] = Returns(@)]
    /\ UNCHANGED <<apiVars, events, sinkVars, dbVars, boundVars>>

\* ErrInvalidCommandPayload, ErrUnsupportedCommandAction: Term.
EngineDiscard(w) ==
    /\ Handling(engines[w])
    /\ commands[Current(engines[w])].action \notin Supported
    /\ cmdQueue' = Settled(cmdQueue, Current(engines[w]))
    /\ engines' = [engines EXCEPT ![w] = Returns(@)]
    /\ UNCHANGED <<apiVars, events, sinkVars, dbVars, boundVars>>

\* The engine stops or loses its connection; what it held comes again.
EngineCrash(w) ==
    /\ engines[w] # IdleWorker
    /\ Fault
    /\ cmdQueue' = Requeued(cmdQueue, Held(engines[w]))
    /\ engines' = [engines EXCEPT ![w] = IdleWorker]
    /\ UNCHANGED <<apiVars, events, sinkVars, dbVars>>

\* AckWait runs out while a member still holds the command.
CommandExpires(m) ==
    /\ m \in Outstanding(cmdQueue)
    /\ Fault
    /\ cmdQueue' = Requeued(cmdQueue, {m})
    /\ UNCHANGED <<apiVars, engines, events, sinkVars, dbVars>>

\* Something else publishes an event no sink can apply.
ForeignEventArrives ==
    /\ foreign < MaxForeign
    /\ events' = Append(events, ForeignEvent)
    /\ foreign' = foreign + 1
    /\ UNCHANGED <<apiVars, cmdQueue, engines, sinkVars, dbVars, faults>>

------------------------------------------------------------------------------
(* The data sink: InsertEvent under the callback of its main.                *)

SinkTake(w, m) ==
    /\ m \in Deliverable(evtQueue, Len(events))
    /\ evtQueue' = Delivered(evtQueue, m)
    /\ sinks' = [sinks EXCEPT ![w] = Receives(@, m)]
    /\ UNCHANGED <<apiVars, engineVars, dbVars, boundVars>>

\* Mutants of the statements: a create sets the title, or every column, of a row
\* that is there.
Created(c) == [group |-> commands[c].group, creator |-> commands[c].actor,
               title |-> c, updated_by |-> c, deleted |-> FALSE]
ProjectedWith(c, create) ==
    LET t == commands[c].todo
    IN  CASE commands[c].action = "create-todo" -> [todos EXCEPT ![t] = create]
          [] commands[c].action = "update-todo" /\ Live(t) ->
               [todos EXCEPT ![t].title = c, ![t].updated_by = c]
          [] commands[c].action = "delete-todo" /\ Live(t) ->
               [todos EXCEPT ![t].updated_by = c, ![t].deleted = TRUE]
          [] OTHER -> todos
Projected_upsertsTitle(c) ==
    LET t == commands[c].todo
    IN  ProjectedWith(c, IF todos[t] = NoRow THEN Created(c)
                         ELSE [todos[t] EXCEPT !.title = c])
Projected_upserts(c) == ProjectedWith(c, Created(c))

\* Table todos after the statement for an event made of command c.
Projected(c) ==
    LET cmd == commands[c]
        t   == cmd.todo
    IN  CASE cmd.action = "create-todo" /\ todos[t] = NoRow ->
               [todos EXCEPT ![t] = [group |-> cmd.group, creator |-> cmd.actor,
                                     title |-> c, updated_by |-> c,
                                     deleted |-> FALSE]]
          [] cmd.action = "update-todo" /\ Live(t) ->
               [todos EXCEPT ![t].title = c, ![t].updated_by = c]
          [] cmd.action = "delete-todo" /\ Live(t) ->
               [todos EXCEPT ![t].updated_by = c, ![t].deleted = TRUE]
          [] OTHER -> todos

\* Mutants: the event is recorded under its command; the offset is the last one
\* written.
InsertEvent_byCommand(s) ==
    LET g == commands[events[s]].group
    IN  /\ applied' = applied \cup {events[s]}
        /\ todos' = Projected(events[s])
        /\ offset' = [offset EXCEPT ![g] = IF s > offset[g] THEN s ELSE offset[g]]
InsertEvent_lastOffset(s) ==
    /\ applied' = applied \cup {s}
    /\ todos' = Projected(events[s])
    /\ offset' = [offset EXCEPT ![commands[events[s]].group] = s]
\* The transaction of InsertEvent for event s.  The projection runs even when
\* the event was there already: only the insert of its row does nothing then.
InsertEvent(s) ==
    LET g == commands[events[s]].group
    IN  /\ applied' = applied \cup {s}
        /\ todos' = Projected(events[s])
        /\ offset' = [offset EXCEPT ![g] = IF s > offset[g] THEN s ELSE offset[g]]

SinkCommit(w) ==
    /\ Handling(sinks[w])
    /\ events[Current(sinks[w])] # ForeignEvent
    /\ InsertEvent(Current(sinks[w]))
    /\ sinks' = [sinks EXCEPT ![w] = Works(@)]
    /\ UNCHANGED <<apiVars, engineVars, evtQueue, boundVars>>

SinkAck(w) ==
    /\ Acking(sinks[w])
    /\ evtQueue' = Settled(evtQueue, Current(sinks[w]))
    /\ sinks' = [sinks EXCEPT ![w] = Returns(@)]
    /\ UNCHANGED <<apiVars, engineVars, dbVars, boundVars>>

SinkAckLost(w) ==
    /\ Acking(sinks[w])
    /\ Fault
    /\ evtQueue' = Requeued(evtQueue, {Current(sinks[w])})
    /\ sinks' = [sinks EXCEPT ![w] = Returns(@)]
    /\ UNCHANGED <<apiVars, engineVars, dbVars>>

\* Mutant: a failed transaction is acknowledged.
SinkFails_acks(w, committed) ==
    /\ Handling(sinks[w])
    /\ events[Current(sinks[w])] # ForeignEvent
    /\ Fault
    /\ IF committed THEN InsertEvent(Current(sinks[w])) ELSE UNCHANGED dbVars
    /\ evtQueue' = Settled(evtQueue, Current(sinks[w]))
    /\ sinks' = [sinks EXCEPT ![w] = Returns(@)]
    /\ UNCHANGED <<apiVars, engineVars>>

\* InsertEvent returns an error, after the commit (its answer was lost) or
\* with everything rolled back, and the callback sends a Nak.
SinkFails(w, committed) ==
    /\ Handling(sinks[w])
    /\ events[Current(sinks[w])] # ForeignEvent
    /\ Fault
    /\ IF committed THEN InsertEvent(Current(sinks[w])) ELSE UNCHANGED dbVars
    /\ evtQueue' = Requeued(evtQueue, {Current(sinks[w])})
    /\ sinks' = [sinks EXCEPT ![w] = Returns(@)]
    /\ UNCHANGED <<apiVars, engineVars>>

\* ErrInvalidEventPayload, ErrUnsupportedEventType: rolled back, then Term.
SinkDiscard(w) ==
    /\ Handling(sinks[w])
    /\ events[Current(sinks[w])] = ForeignEvent
    /\ evtQueue' = Settled(evtQueue, Current(sinks[w]))
    /\ sinks' = [sinks EXCEPT ![w] = Returns(@)]
    /\ UNCHANGED <<apiVars, engineVars, dbVars, boundVars>>

SinkCrash(w) ==
    /\ sinks[w] # IdleWorker
    /\ Fault
    /\ evtQueue' = Requeued(evtQueue, Held(sinks[w]))
    /\ sinks' = [sinks EXCEPT ![w] = IdleWorker]
    /\ UNCHANGED <<apiVars, engineVars, dbVars>>

EventExpires(m) ==
    /\ m \in Outstanding(evtQueue)
    /\ Fault
    /\ evtQueue' = Requeued(evtQueue, {m})
    /\ UNCHANGED <<apiVars, engineVars, sinks, dbVars>>

------------------------------------------------------------------------------
ApiStep ==
    \/ \E h \in Handlers :
         \/ \E r \in Requests : Receive(h, r)
         \/ Lookup(h) \/ Reject(h) \/ Accept(h)
         \/ \E stored \in BOOLEAN : AcceptFails(h, stored)
    \/ \E r \in Requests : ForeignCommand(r)

EngineStep ==
    \/ \E w \in Engines :
         \/ \E m \in 1 .. Len(commands) : EngineTake(w, m)
         \/ EnginePublish(w) \/ EngineAck(w) \/ EngineAckLost(w)
         \/ EngineDiscard(w) \/ EngineCrash(w)
         \/ \E stored \in BOOLEAN : EngineFails(w, stored)
    \/ \E m \in 1 .. Len(commands) : CommandExpires(m)
    \/ ForeignEventArrives

SinkStep ==
    \/ \E w \in Sinks :
         \/ \E m \in 1 .. Len(events) : SinkTake(w, m)
         \/ SinkCommit(w) \/ SinkAck(w) \/ SinkAckLost(w)
         \/ SinkDiscard(w) \/ SinkCrash(w)
         \/ \E committed \in BOOLEAN : SinkFails(w, committed)
    \/ \E m \in 1 .. Len(events) : EventExpires(m)

Next == ApiStep \/ EngineStep \/ SinkStep

Spec == Init /\ [][Next]_vars

\* A running service keeps delivering and its members keep handling what they
\* were given.  Clients owe nothing; faults are bounded by MaxFaults.
Fairness ==
    /\ \A w \in Engines :
         WF_vars(EnginePublish(w) \/ EngineAck(w) \/ EngineDiscard(w))
    /\ \A w \in Sinks :
         WF_vars(SinkCommit(w) \/ SinkAck(w) \/ SinkDiscard(w))
    /\ WF_vars(\E w \in Engines, m \in 1 .. Len(commands) : EngineTake(w, m))
    /\ WF_vars(\E w \in Sinks, m \in 1 .. Len(events) : SinkTake(w, m))

FairSpec == Spec /\ Fairness

------------------------------------------------------------------------------
(* Correctness.                                                              *)

Numbers == 1 .. Len(events)

EventCommand(s) == commands[events[s]]

ApiState == {Idle} \cup [pc : {"lookup", "accept"}, req : Requests]

ApiTypeOK == api \in [Handlers -> ApiState] /\ commands \in Seq(Requests)

EngineTypeOK ==
    /\ cmdQueue \in Consumer(Len(commands))
    /\ engines \in [Engines -> Worker(Len(commands))]
    /\ events \in Seq(0 .. Len(commands))

SinkTypeOK ==
    /\ evtQueue \in Consumer(Len(events))
    /\ sinks \in [Sinks -> Worker(Len(events))]

DbTypeOK ==
    /\ applied \in SUBSET Numbers
    /\ todos \in [Todos -> Row \cup {NoRow}]
    /\ offset \in [Groups -> Nat]

BoundTypeOK == faults \in Nat /\ foreign \in Nat

\* Every variable has its type; an event is made from a command that exists,
\* and the inboxes and consumers only name messages of their streams.
TypeOK == ApiTypeOK /\ EngineTypeOK /\ SinkTypeOK /\ DbTypeOK /\ BoundTypeOK

\* A command the domain engines are done with has its event: no interleaving of
\* failed publishes, redeliveries and lost engines makes them acknowledge, or
\* discard as unknown, a command of the API whose event is not in the stream.
NoLostCommand ==
    \A c \in cmdQueue.acked :
        commands[c].action \in Supported => \E s \in Numbers : events[s] = c

\* An event the data sinks are done with is in todo_events: none is acknowledged
\* before its transaction has committed.
NoLostEvent ==
    \A s \in evtQueue.acked : events[s] # ForeignEvent => s \in applied

\* What the projection must show of an event that was applied.  The UPDATE
\* statements of the data sink do nothing when the row is missing or deleted and
\* never compare its group, and the transaction commits all the same; that this
\* neither swallows a delete nor touches a todo of another group follows only
\* from the API reading the row before it publishes.
AppliedIsProjected ==
    \A s \in applied :
        LET cmd == EventCommand(s)
            row == todos[cmd.todo]
        IN  /\ row # NoRow
            /\ cmd.action \in Changes => row.group = cmd.group
            /\ cmd.action = "delete-todo" => row.deleted

\* Command c is one on todo t whose event was applied.
AppliedTo(t, c) == (\E s \in applied : events[s] = c) /\ commands[c].todo = t

\* The title of a row is that of an applied create or update of its todo; its
\* updated_by is that of an applied command on it, which is a delete exactly when
\* the row is deleted, and the one that wrote the title when it is not.  So a live
\* row shows one command as a whole, and a deleted one names who deleted it.
RowHasOrigin ==
    \A t \in Todos :
        LET row == todos[t]
        IN  row # NoRow =>
              /\ AppliedTo(t, row.title) /\ AppliedTo(t, row.updated_by)
              /\ commands[row.title].action # "delete-todo"
              /\ row.deleted <=> commands[row.updated_by].action = "delete-todo"
              /\ ~ row.deleted => row.updated_by = row.title

\* A change that got into the command stream was made by a moderator of the
\* group or by the creator the row names, now and not only when the API
\* looked: the creator column is never rewritten by a later event.
ChangeIsPermitted ==
    \A c \in 1 .. Len(commands) :
        commands[c].action \in Changes =>
            \/ commands[c].moderator
            \/ /\ todos[commands[c].todo] # NoRow
               /\ todos[commands[c].todo].creator = commands[c].actor

\* The projection offset of a group is the number of its last event applied,
\* whatever order the sinks applied them in and however often.
GroupApplied(g) == { s \in applied : EventCommand(s).group = g }
OffsetIsLastApplied ==
    \A g \in Groups :
        /\ \A s \in GroupApplied(g) : s <= offset[g]
        /\ offset[g] # 0 => offset[g] \in GroupApplied(g)

\* A deleted todo is frozen: no late or repeated event changes its row.
DeletedStaysDeleted ==
    [][\A t \in Todos :
         (todos[t] # NoRow /\ todos[t].deleted) => todos'[t] = todos[t]]_vars

\* A todo never changes its group or its creator, nor does its row vanish.
RowIdentityIsStable ==
    [][\A t \in Todos :
         todos[t] # NoRow =>
            /\ todos'[t] # NoRow
            /\ todos'[t].group = todos[t].group
            /\ todos'[t].creator = todos[t].creator]_vars

ReadModel == INSTANCE TodoReadModel WITH
    accepted  <- commands,
    projected <- { events[s] : s \in applied },
    rows      <- todos

\* The pipeline implements the read model it promises (TodoReadModel): every
\* step of it is one step of that model or leaves rows and commands alone.
ImplementsReadModel == ReadModel!Spec

\* Every command of the API ends up in the projection, and every message,
\* also one that cannot be handled, is finally settled.
EveryCommandApplied ==
    \A c \in 1 .. MaxCommands :
        (c <= Len(commands) /\ commands[c].action \in Supported)
            ~> \E s \in applied : events[s] = c

\* Every message of both streams is settled.
Quiet == cmdQueue.acked = 1 .. Len(commands) /\ evtQueue.acked = Numbers

QueuesDrain == <>[]Quiet

\* "Durable ordered events" (page_login.templ:34): once all is handled, a live
\* row shows the last update published for its todo.
LastUpdateWins ==
    Quiet => \A c \in 1 .. Len(commands) :
        LET cmd == commands[c]
        IN  cmd.action = "update-todo" /\ Live(cmd.todo) => c <= todos[cmd.todo].title

==============================================================================
