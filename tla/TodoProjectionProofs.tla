-------------------------- MODULE TodoProjectionProofs --------------------------
(***************************************************************************)
(* For any constants: what the tables of the data sink say about the events  *)
(* applied; that nothing is lost between the queues and the tables; and that *)
(* the pipeline implements TodoReadModel.                                    *)
(***************************************************************************)
EXTENDS TodoPipelineProofs

------------------------------------------------------------------------------
(* Steps seen from the tables.                                               *)

\* What an engine or a foreign publisher puts into the event stream.
Publishable(c) ==
    c = ForeignEvent \/ (c \in 1 .. Len(commands) /\ commands[c].action \in Supported)

\* The streams only grow, the event stream by events of supported commands.
LEMMA StreamsGrow ==
    ASSUME TypeOK, [Next]_vars
    PROVE  /\ \A c \in 1 .. Len(commands) :
                 c \in 1 .. Len(commands') /\ commands'[c] = commands[c]
           /\ \A s \in Numbers : s \in Numbers' /\ events'[s] = events[s]
           /\ \A s \in Numbers' : s \in Numbers \/ Publishable(events'[s])
<1>0. commands \in Seq(Requests) /\ events \in Seq(0 .. Len(commands))
  BY DEF TypeOK, ApiTypeOK, EngineTypeOK
<1>1. \/ UNCHANGED commands
      \/ \E r \in Requests : commands' = Append(commands, r)
  <2>1. CASE ApiStep
    <3>1. ASSUME NEW h \in Handlers, api[h].pc = "accept"
          PROVE  api[h].req \in Requests
      BY <3>1 DEF TypeOK, ApiTypeOK, ApiState, Idle
    <3> QED
      BY <2>1, <3>1
         DEF ApiStep, Receive, Lookup, Reject, Accept, AcceptFails, ForeignCommand
  <2>2. CASE EngineStep \/ SinkStep \/ UNCHANGED vars
    BY <2>2
       DEF EngineStep, EngineTake, EnginePublish, EngineAck, EngineAckLost, EngineFails,
           EngineDiscard, EngineCrash, CommandExpires, ForeignEventArrives,
           SinkStep, SinkTake, SinkCommit, SinkAck, SinkAckLost, SinkFails, SinkDiscard,
           SinkCrash, EventExpires, vars, apiVars
  <2> QED
    BY <2>1, <2>2 DEF Next
<1>2. \/ UNCHANGED events
      \/ \E c \in 0 .. Len(commands) : events' = Append(events, c) /\ Publishable(c)
  <2>0. Len(commands) \in Nat
    BY <1>0
  <2>1. CASE EngineStep
    <3>1. ASSUME NEW w \in Engines, Handling(engines[w]),
                 commands[Current(engines[w])].action \in Supported
          PROVE  /\ Current(engines[w]) \in 0 .. Len(commands)
                 /\ Publishable(Current(engines[w]))
      BY <2>0, <3>1, CurrentInStream DEF Publishable
    <3>2. ASSUME NEW w \in Engines, EnginePublish(w)
          PROVE  \E c \in 0 .. Len(commands) :
                    events' = Append(events, c) /\ Publishable(c)
      BY <3>1, <3>2 DEF EnginePublish
    <3>3. ASSUME NEW w \in Engines, NEW b \in BOOLEAN, EngineFails(w, b)
          PROVE  \/ UNCHANGED events
                 \/ \E c \in 0 .. Len(commands) :
                       events' = Append(events, c) /\ Publishable(c)
      BY <3>1, <3>3 DEF EngineFails
    <3>4. ASSUME ForeignEventArrives
          PROVE  \E c \in 0 .. Len(commands) :
                    events' = Append(events, c) /\ Publishable(c)
      BY <2>0, <3>4 DEF ForeignEventArrives, ForeignEvent, Publishable
    <3> QED
      BY <2>1, <3>2, <3>3, <3>4
         DEF EngineStep, EngineTake, EngineAck, EngineAckLost, EngineDiscard, EngineCrash,
             CommandExpires
  <2>2. CASE ApiStep \/ SinkStep \/ UNCHANGED vars
    BY <2>2
       DEF ApiStep, Receive, Lookup, Reject, Accept, AcceptFails, ForeignCommand,
           SinkStep, SinkTake, SinkCommit, SinkAck, SinkAckLost, SinkFails, SinkDiscard,
           SinkCrash, EventExpires, vars, engineVars
  <2> QED
    BY <2>1, <2>2 DEF Next
<1>3. ASSUME NEW S, NEW q \in Seq(S), NEW x \in S, NEW i \in 1 .. Len(q)
      PROVE  i \in 1 .. Len(Append(q, x)) /\ Append(q, x)[i] = q[i]
  BY <1>3
<1>4. \A c \in 1 .. Len(commands) : c \in 1 .. Len(commands') /\ commands'[c] = commands[c]
  BY <1>0, <1>1, <1>3, SMTT(30)
<1>5. \A s \in 1 .. Len(events) : s \in 1 .. Len(events') /\ events'[s] = events[s]
  <2>1. ASSUME NEW c \in 0 .. Len(commands), events' = Append(events, c),
               NEW s \in 1 .. Len(events)
        PROVE  s \in 1 .. Len(events') /\ events'[s] = events[s]
    BY <1>0, <1>3, <2>1
  <2> QED
    BY <1>2, <2>1
<1>6. \A s \in 1 .. Len(events') : s \in 1 .. Len(events) \/ Publishable(events'[s])
  <2>1. ASSUME NEW c \in 0 .. Len(commands), events' = Append(events, c), Publishable(c),
               NEW s \in 1 .. Len(events')
        PROVE  s \in 1 .. Len(events) \/ Publishable(events'[s])
    <3>1. s \in 1 .. Len(events) \/ events'[s] = c
      BY <1>0, <2>1
    <3> QED
      BY <2>1, <3>1
  <2> QED
    BY <1>2, <2>1
<1> QED
  BY <1>4, <1>5, <1>6 DEF Numbers

\* A step leaves the tables alone or is one transaction of the data sink.
LEMMA TablesChange ==
    ASSUME TypeOK, [Next]_vars
    PROVE  \/ UNCHANGED dbVars
           \/ /\ UNCHANGED <<commands, events>>
              /\ \E s \in Numbers : events[s] # ForeignEvent /\ InsertEvent(s)
<1>1. CASE ApiStep \/ UNCHANGED vars
  BY <1>1
     DEF ApiStep, Receive, Lookup, Reject, Accept, AcceptFails, ForeignCommand, vars
<1>2. CASE EngineStep
  BY <1>2
     DEF EngineStep, EngineTake, EnginePublish, EngineAck, EngineAckLost, EngineFails,
         EngineDiscard, EngineCrash, CommandExpires, ForeignEventArrives
<1>3. CASE SinkStep
  <2>1. ASSUME NEW w \in Sinks, SinkCommit(w)
        PROVE  /\ UNCHANGED <<commands, events>>
               /\ \E s \in Numbers : events[s] # ForeignEvent /\ InsertEvent(s)
    BY <2>1, CurrentInStream DEF SinkCommit, apiVars, engineVars
  <2>2. ASSUME NEW w \in Sinks, NEW b \in BOOLEAN, SinkFails(w, b)
        PROVE  \/ UNCHANGED dbVars
               \/ /\ UNCHANGED <<commands, events>>
                  /\ \E s \in Numbers : events[s] # ForeignEvent /\ InsertEvent(s)
    BY <2>2, CurrentInStream DEF SinkFails, apiVars, engineVars
  <2> QED
    BY <1>3, <2>1, <2>2
       DEF SinkStep, SinkTake, SinkAck, SinkAckLost, SinkDiscard, SinkCrash, EventExpires
<1> QED
  BY <1>1, <1>2, <1>3 DEF Next

------------------------------------------------------------------------------
(* Applied events.                                                           *)

\* Every event is foreign or made from a supported command; only the latter are
\* applied.
EventsPublishable == \A s \in Numbers : Publishable(events[s])
AppliedHasCommand == \A s \in applied : events[s] # ForeignEvent
EventsOK == EventsPublishable /\ AppliedHasCommand

LEMMA EventHasCommand ==
    ASSUME TypeOK, NEW s \in Numbers, events[s] # ForeignEvent
    PROVE  events[s] \in 1 .. Len(commands) /\ commands[events[s]] \in Request
BY RequestsAssumption DEF TypeOK, ApiTypeOK, EngineTypeOK, Numbers, ForeignEvent

LEMMA EventsStep == TypeOK /\ EventsOK /\ [Next]_vars => EventsOK'
<1> SUFFICES ASSUME TypeOK, EventsOK, [Next]_vars PROVE EventsOK'
  OBVIOUS
<1>1. applied \subseteq Numbers
  BY DEF TypeOK, DbTypeOK
<1>2. AppliedHasCommand'
  <2>1. CASE UNCHANGED dbVars
    BY <1>1, <2>1, StreamsGrow DEF dbVars, EventsOK, AppliedHasCommand
  <2>2. ASSUME UNCHANGED <<commands, events>>,
               NEW s \in Numbers, events[s] # ForeignEvent, InsertEvent(s)
        PROVE  AppliedHasCommand'
    BY <2>2 DEF EventsOK, AppliedHasCommand, InsertEvent
  <2> QED
    BY <2>1, <2>2, TablesChange
<1>3. ASSUME NEW c, Publishable(c) PROVE Publishable(c)'
  BY <1>3, StreamsGrow DEF Publishable
<1>4. EventsPublishable'
  BY <1>3, StreamsGrow DEF EventsOK, EventsPublishable
<1> QED
  BY <1>2, <1>4 DEF EventsOK

\* The offsets after an applied event: the property and what makes it inductive.
LEMMA OffsetStep ==
    TypeOK /\ EventsOK /\ OffsetIsLastApplied /\ [Next]_vars
        => OffsetIsLastApplied'
<1> SUFFICES ASSUME TypeOK, EventsOK, OffsetIsLastApplied, [Next]_vars,
                    NEW g \in Groups
             PROVE  /\ \A s \in GroupApplied(g)' : s <= offset'[g]
                    /\ offset'[g] # 0 => offset'[g] \in GroupApplied(g)'
  BY DEF OffsetIsLastApplied
<1>1. applied \subseteq Numbers /\ offset \in [Groups -> Nat] /\ Numbers \subseteq Nat
  BY DEF TypeOK, DbTypeOK, Numbers
<1>2. \A s \in applied : EventCommand(s)' = EventCommand(s)
  BY <1>1, StreamsGrow, EventHasCommand DEF EventsOK, AppliedHasCommand, EventCommand
<1>3. CASE UNCHANGED dbVars
  BY <1>2, <1>3 DEF dbVars, OffsetIsLastApplied, GroupApplied
<1>4. ASSUME UNCHANGED <<commands, events>>,
             NEW s \in Numbers, events[s] # ForeignEvent, InsertEvent(s)
      PROVE  /\ \A n \in GroupApplied(g)' : n <= offset'[g]
             /\ offset'[g] # 0 => offset'[g] \in GroupApplied(g)'
  <2>1. /\ applied' = applied \cup {s}
        /\ EventCommand(s)' = EventCommand(s)
        /\ EventCommand(s).group \in Groups
        /\ s \in Nat
    BY <1>1, <1>4, EventHasCommand DEF InsertEvent, EventCommand, Request
  <2>2. CASE EventCommand(s).group = g
    <3>1. GroupApplied(g)' = GroupApplied(g) \cup {s}
      BY <1>2, <2>1, <2>2 DEF GroupApplied
    <3>2. offset'[g] = IF s > offset[g] THEN s ELSE offset[g]
      BY <1>1, <1>4, <2>2 DEF InsertEvent, EventCommand
    <3>3. GroupApplied(g) \subseteq Nat /\ offset[g] \in Nat
      BY <1>1 DEF GroupApplied
    <3> QED
      BY <2>1, <3>1, <3>2, <3>3 DEF OffsetIsLastApplied, Numbers
  <2>3. CASE EventCommand(s).group # g
    <3>1. GroupApplied(g)' = GroupApplied(g)
      BY <1>2, <2>1, <2>3 DEF GroupApplied
    <3>2. offset'[g] = offset[g]
      BY <1>1, <1>4, <2>3 DEF InsertEvent, EventCommand
    <3> QED
      BY <3>1, <3>2 DEF OffsetIsLastApplied
  <2> QED
    BY <2>2, <2>3
<1> QED
  BY <1>3, <1>4, TablesChange
LEMMA InitTables == Init => EventsOK /\ OffsetIsLastApplied
BY DEF Init, EventsOK, EventsPublishable, AppliedHasCommand, OffsetIsLastApplied,
       GroupApplied, Numbers

LEMMA EventsCorrect == Spec => []EventsOK
BY InitTables, EventsStep, TypeCorrect, PTL DEF Spec

\* Property OffsetIsLastApplied: whatever the order of the sinks and however often
\* an event comes, a group's offset is the greatest number applied in it.
THEOREM OffsetCorrect == Spec => []OffsetIsLastApplied
BY InitTables, OffsetStep, EventsCorrect, TypeCorrect, PTL DEF Spec

------------------------------------------------------------------------------
(* Rows and the events applied to them.                                      *)

\* One transaction of the data sink, seen from the row of its todo: with a command
\* that is permitted, the row is there afterwards, in the group of the command, and
\* deleted if the command was a delete.
LEMMA TransactionShows ==
    ASSUME TypeOK, CommandsPermitted, EventsOK, NEW s \in Numbers, events[s] # ForeignEvent
    PROVE  LET cmd == EventCommand(s)
               row == Projected(events[s])[cmd.todo]
           IN  /\ row # NoRow
               /\ cmd.action \in Changes => row.group = cmd.group
               /\ cmd.action = "delete-todo" => row.deleted
<1> DEFINE c == events[s]
           t == commands[c].todo
           row == Projected(c)[t]
<1>1. /\ c \in 1 .. Len(commands)
      /\ c \in Nat
      /\ commands[c] \in Request
      /\ t \in Todos
      /\ todos \in [Todos -> Row \cup {NoRow}]
  BY EventHasCommand DEF Request, TypeOK, DbTypeOK
<1>2. [group |-> commands[c].group, creator |-> commands[c].actor,
       title |-> c, updated_by |-> c, deleted |-> FALSE] # NoRow
  <2>1. commands[c].group \in Groups /\ commands[c].actor \in Users
    BY <1>1 DEF Request
  <2>2. [group |-> commands[c].group, creator |-> commands[c].actor,
         title |-> c, updated_by |-> c, deleted |-> FALSE] \in Row
    BY <1>1, <2>1 DEF Row
  <2> QED
    BY <2>2, NoRowAssumption
<1>3. CASE commands[c].action = "create-todo"
  BY <1>1, <1>2, <1>3 DEF Projected, EventCommand, Changes
<1>4. CASE commands[c].action \in Changes
  <2>1. todos[t] \in Row /\ todos[t].group = commands[c].group
    BY <1>1, <1>4 DEF CommandsPermitted, Permitted
  <2>2. CASE Live(t)
    <3>1. CASE commands[c].action = "update-todo"
      <4>1. Projected(c) = [todos EXCEPT ![t].title = c, ![t].updated_by = c]
        BY <2>2, <3>1 DEF Projected
      <4>2. row = [todos[t] EXCEPT !.title = c, !.updated_by = c]
        BY <1>1, <4>1
      <4>3. row \in Row /\ row.group = todos[t].group
        BY <1>1, <2>1, <4>2 DEF Row
      <4> QED
        BY <2>1, <3>1, <4>3, NoRowAssumption DEF EventCommand
    <3>2. CASE commands[c].action = "delete-todo"
      <4>1. Projected(c) = [todos EXCEPT ![t].updated_by = c, ![t].deleted = TRUE]
        BY <2>2, <3>2 DEF Projected
      <4>2. row = [todos[t] EXCEPT !.updated_by = c, !.deleted = TRUE]
        BY <1>1, <4>1
      <4>3. row \in Row /\ row.group = todos[t].group /\ row.deleted
        BY <1>1, <2>1, <4>2 DEF Row
      <4> QED
        BY <2>1, <4>3, NoRowAssumption DEF EventCommand
    <3> QED
      BY <1>4, <3>1, <3>2 DEF Changes
  <2>3. CASE ~ Live(t)
    <3>1. Projected(c) = todos
      BY <1>4, <2>3 DEF Projected, Changes
    <3>2. todos[t].deleted
      BY <2>1, <2>3, NoRowAssumption DEF Live
    <3> QED
      BY <2>1, <3>1, <3>2, NoRowAssumption DEF EventCommand
  <2> QED
    BY <2>2, <2>3
<1>5. commands[c].action \in Supported
  BY DEF EventsOK, EventsPublishable, Publishable
<1> QED
  BY <1>3, <1>4, <1>5 DEF Supported

LEMMA CausalityCorrect == Spec => []Causality
<1>1. Init => Causality
  BY DEF Init, Causality, RequestsChecked, CommandsPermitted, Idle
<1> QED
  BY <1>1, CausalityIsInductive, TypeCorrect, PTL DEF Spec

\* What AppliedIsProjected says of one event.
Shown(s) ==
    LET cmd == EventCommand(s)
        row == todos[cmd.todo]
    IN  /\ row # NoRow
        /\ cmd.action \in Changes => row.group = cmd.group
        /\ cmd.action = "delete-todo" => row.deleted

LEMMA ShownIsStable ==
    ASSUME TypeOK, [Next]_vars, NEW s \in Numbers, events[s] # ForeignEvent, Shown(s)
    PROVE  Shown(s)'
<1>1. EventCommand(s)' = EventCommand(s) /\ EventCommand(s).todo \in Todos
  BY StreamsGrow, EventHasCommand DEF EventCommand, Request
<1> QED
  BY <1>1, RowsOnlyGrow DEF Shown

LEMMA AppliedIsProjectedStep ==
    TypeOK /\ Causality /\ EventsOK /\ AppliedIsProjected /\ [Next]_vars
        => AppliedIsProjected'
<1> SUFFICES ASSUME TypeOK, Causality, EventsOK, AppliedIsProjected, [Next]_vars,
                    NEW s \in applied'
             PROVE  Shown(s)'
  BY DEF AppliedIsProjected, Shown
<1>1. ASSUME s \in applied PROVE Shown(s)'
  <2>1. s \in Numbers /\ events[s] # ForeignEvent
    BY <1>1 DEF TypeOK, DbTypeOK, EventsOK, AppliedHasCommand
  <2> QED
    BY <1>1, <2>1, ShownIsStable DEF AppliedIsProjected, Shown
<1>2. ASSUME UNCHANGED <<commands, events>>,
             NEW n \in Numbers, events[n] # ForeignEvent, InsertEvent(n), s = n
      PROVE  Shown(s)'
  <2>1. todos' = Projected(events[n]) /\ EventCommand(n)' = EventCommand(n)
    BY <1>2 DEF InsertEvent, EventCommand
  <2> QED
    BY <1>2, <2>1, TransactionShows DEF Causality, Shown
<1> QED
  BY <1>1, <1>2, TablesChange DEF InsertEvent, dbVars

\* Property AppliedIsProjected: the silent statements of the data sink swallow no
\* create, update or delete and touch no todo of another group.
THEOREM AppliedAreShown == Spec => []AppliedIsProjected
<1>1. Init => AppliedIsProjected
  BY DEF Init, AppliedIsProjected
<1> QED
  BY <1>1, AppliedIsProjectedStep, CausalityCorrect, EventsCorrect, TypeCorrect, PTL
     DEF Spec

------------------------------------------------------------------------------
(* Where a row comes from.                                                   *)

\* What RowHasOrigin says of one row.
HasOrigin(t) ==
    LET row == todos[t]
    IN  row # NoRow =>
          /\ AppliedTo(t, row.title) /\ AppliedTo(t, row.updated_by)
          /\ commands[row.title].action # "delete-todo"
          /\ row.deleted <=> commands[row.updated_by].action = "delete-todo"
          /\ ~ row.deleted => row.updated_by = row.title

LEMMA RowHasOriginStep ==
    TypeOK /\ EventsOK /\ RowHasOrigin /\ [Next]_vars => RowHasOrigin'
<1> SUFFICES ASSUME TypeOK, EventsOK, RowHasOrigin, [Next]_vars, NEW t \in Todos
             PROVE  HasOrigin(t)'
  BY DEF RowHasOrigin, HasOrigin
<1>1. HasOrigin(t)
  BY DEF RowHasOrigin, HasOrigin
<1>2. applied \subseteq Numbers /\ applied \subseteq applied'
  BY TablesChange DEF TypeOK, DbTypeOK, InsertEvent, dbVars
\* What was applied to a todo stays applied to it.
<1>3. ASSUME NEW c, AppliedTo(t, c)
      PROVE  AppliedTo(t, c)' /\ commands'[c] = commands[c]
  <2>1. PICK s \in applied : events[s] = c
    BY <1>3 DEF AppliedTo
  <2>2. /\ s \in applied' /\ events'[s] = events[s]
        /\ events[s] \in 1 .. Len(commands)
    BY <1>2, <2>1, StreamsGrow, EventHasCommand DEF EventsOK, AppliedHasCommand
  <2> QED
    BY <1>3, <2>1, <2>2, StreamsGrow DEF AppliedTo
\* A row that is left alone keeps its origin.
<1>4. ASSUME todos'[t] = todos[t] PROVE HasOrigin(t)'
  <2>1. CASE todos[t] = NoRow
    BY <1>4, <2>1 DEF HasOrigin
  <2>2. CASE todos[t] # NoRow
    <3>1. PICK m, u : /\ m = todos[t].title /\ u = todos[t].updated_by
                      /\ AppliedTo(t, m) /\ AppliedTo(t, u)
      BY <1>1, <2>2 DEF HasOrigin
    <3>2. /\ AppliedTo(t, m)' /\ commands'[m] = commands[m]
          /\ AppliedTo(t, u)' /\ commands'[u] = commands[u]
      BY <1>3, <3>1
    <3> QED
      BY <1>1, <1>4, <2>2, <3>1, <3>2 DEF HasOrigin, AppliedTo
  <2> QED
    BY <2>1, <2>2
\* A row that changes shows the command of the event that is applied, all of it or
\* all but its title.
<1>5. ASSUME UNCHANGED <<commands, events>>, todos'[t] # todos[t],
             NEW s \in Numbers, events[s] # ForeignEvent, InsertEvent(s)
      PROVE  HasOrigin(t)'
  <2> DEFINE row == todos'[t]
  <2>1. PICK c \in 1 .. Len(commands) :
          c = events[s] /\ s \in applied' /\ todos' = Projected(c)
    BY <1>5, EventHasCommand DEF InsertEvent
  <2>2. commands[c].todo = t
    BY <1>5, <2>1, ProjectedRow
  <2>3. AppliedTo(t, c)' /\ commands' = commands
    BY <1>5, <2>1, <2>2 DEF AppliedTo
  <2>4. CASE /\ commands[c].action \in {"create-todo", "update-todo"}
             /\ row.title = c /\ row.updated_by = c /\ row.deleted = FALSE
    BY <2>3, <2>4 DEF HasOrigin, AppliedTo
  <2>5. CASE /\ commands[c].action = "delete-todo" /\ Live(t)
             /\ row.title = todos[t].title /\ row.updated_by = c /\ row.deleted = TRUE
    <3>1. PICK m : /\ m = todos[t].title /\ AppliedTo(t, m)
                   /\ commands[m].action # "delete-todo"
      BY <1>1, <2>5 DEF HasOrigin, Live
    <3>2. AppliedTo(t, m)'
      BY <1>3, <3>1
    <3> QED
      BY <2>3, <2>5, <3>1, <3>2 DEF HasOrigin, AppliedTo
  <2>6. ASSUME NEW g, NEW u,
               row = [group |-> g, creator |-> u,
                      title |-> c, updated_by |-> c, deleted |-> FALSE]
        PROVE  row.title = c /\ row.updated_by = c /\ row.deleted = FALSE
    <3> HIDE DEF row
    <3> QED  BY <2>6
  <2>7. ASSUME NEW g, NEW u, NEW m,
               row = [group |-> g, creator |-> u,
                      title |-> m, updated_by |-> c, deleted |-> TRUE]
        PROVE  row.title = m /\ row.updated_by = c /\ row.deleted = TRUE
    <3> HIDE DEF row
    <3> QED  BY <2>7
  <2>8. CASE commands[c].action = "delete-todo"
    <3>1. /\ Live(t)
          /\ row = [group |-> todos[t].group, creator |-> todos[t].creator,
                    title |-> todos[t].title, updated_by |-> c, deleted |-> TRUE]
      BY <1>5, <2>1, <2>8, ProjectedRow
    <3>2. row.title = todos[t].title /\ row.updated_by = c /\ row.deleted = TRUE
      <4> HIDE DEF row
      <4> QED  BY <2>7, <3>1
    <3> QED
      BY <2>5, <2>8, <3>1, <3>2
  <2>9. CASE commands[c].action # "delete-todo"
    <3>1. /\ commands[c].action \in {"create-todo", "update-todo"}
          /\ \/ row = [group |-> commands[c].group, creator |-> commands[c].actor,
                       title |-> c, updated_by |-> c, deleted |-> FALSE]
             \/ row = [group |-> todos[t].group, creator |-> todos[t].creator,
                       title |-> c, updated_by |-> c, deleted |-> FALSE]
      BY <1>5, <2>1, <2>9, ProjectedRow
    <3>2. row.title = c /\ row.updated_by = c /\ row.deleted = FALSE
      <4> HIDE DEF row
      <4> QED  BY <2>6, <3>1
    <3> QED
      BY <2>4, <3>1, <3>2
  <2> QED
    BY <2>8, <2>9
<1> QED
  BY <1>4, <1>5, TablesChange DEF dbVars

\* Property RowHasOrigin: a live row shows one applied command on its todo as a
\* whole, and a deleted one names an applied delete and keeps the title of an applied
\* create or update, however events are repeated or reordered.
THEOREM RowsHaveOrigins == Spec => []RowHasOrigin
<1>1. Init => RowHasOrigin
  BY DEF Init, RowHasOrigin
<1> QED
  BY <1>1, RowHasOriginStep, EventsCorrect, TypeCorrect, PTL DEF Spec

------------------------------------------------------------------------------
(* Commands and the domain engines.                                          *)

HasEvent(c) == \E s \in Numbers : events[s] = c
\* It has one after the step.
GetsEvent(c) == \E s \in Numbers' : events'[s] = c

\* An engine that has only its Ack left to send has published.
EngineDone ==
    \A w \in Engines :
        engines[w].done =>
            engines[w].inbox # <<>> /\ HasEvent(Current(engines[w]))

LEMMA HasEventIsStable ==
    ASSUME TypeOK, [Next]_vars, NEW c, HasEvent(c)
    PROVE  GetsEvent(c)
BY StreamsGrow DEF HasEvent, GetsEvent

\* The engines after a step: one of them took a message, published, returned from
\* its callback or stopped.
EngineAfter(w) ==
    \/ engines'[w] = engines[w]
    \/ \E m \in 1 .. Len(commands) : engines'[w] = Receives(engines[w], m)
    \/ /\ Handling(engines[w])
       /\ engines'[w] = Works(engines[w])
       /\ GetsEvent(Current(engines[w]))
    \/ engines'[w] = Returns(engines[w])
    \/ engines'[w] = IdleWorker

LEMMA EnginesStep ==
    ASSUME TypeOK, [Next]_vars, NEW w \in Engines
    PROVE  EngineAfter(w)
<1>0. engines \in [Engines -> Worker(Len(commands))] /\ Len(commands) \in Nat
  BY DEF TypeOK, EngineTypeOK, ApiTypeOK
<1>1. CASE ApiStep \/ SinkStep \/ UNCHANGED vars
  <2>1. UNCHANGED engines
    BY <1>1
       DEF ApiStep, Receive, Lookup, Reject, Accept, AcceptFails, ForeignCommand,
           SinkStep, SinkTake, SinkCommit, SinkAck, SinkAckLost, SinkFails, SinkDiscard,
           SinkCrash, EventExpires, vars, engineVars
  <2> QED
    BY <2>1 DEF EngineAfter
<1>2. ASSUME NEW v \in Engines, NEW m \in 1 .. Len(commands), EngineTake(v, m)
      PROVE  EngineAfter(w)
  BY <1>0, <1>2 DEF EngineTake, EngineAfter
<1>3. ASSUME NEW v \in Engines, EnginePublish(v) PROVE EngineAfter(w)
  <2>1. Current(engines[v]) \in 0 .. Len(commands)
    BY <1>0, <1>3, CurrentInStream DEF EnginePublish
  <2>2. GetsEvent(Current(engines[v]))
    <3> DEFINE c == Current(engines[v])
    <3>1. events \in Seq(0 .. Len(commands)) /\ events' = Append(events, c)
      BY <1>3 DEF EnginePublish, TypeOK, EngineTypeOK
    <3>2. Len(events') \in 1 .. Len(events') /\ events'[Len(events')] = c
      BY <2>1, <3>1
    <3> QED
      BY <3>2 DEF GetsEvent, Numbers
  <2> QED
    BY <1>0, <1>3, <2>2 DEF EnginePublish, EngineAfter
<1>4. ASSUME NEW v \in Engines,
             EngineAck(v) \/ EngineAckLost(v) \/ EngineDiscard(v)
                 \/ (\E b \in BOOLEAN : EngineFails(v, b))
      PROVE  EngineAfter(w)
  BY <1>0, <1>4 DEF EngineAck, EngineAckLost, EngineDiscard, EngineFails, EngineAfter
<1>5. ASSUME NEW v \in Engines, EngineCrash(v) PROVE EngineAfter(w)
  BY <1>0, <1>5 DEF EngineCrash, EngineAfter
<1>6. CASE ForeignEventArrives \/ \E m \in 1 .. Len(commands) : CommandExpires(m)
  BY <1>6 DEF ForeignEventArrives, CommandExpires, EngineAfter
<1> QED
  BY <1>1, <1>2, <1>3, <1>4, <1>5, <1>6 DEF Next, EngineStep

LEMMA EngineDoneStep == TypeOK /\ EngineDone /\ [Next]_vars => EngineDone'
<1> SUFFICES ASSUME TypeOK, EngineDone, [Next]_vars,
                    NEW w \in Engines, engines'[w].done
             PROVE  engines'[w].inbox # <<>> /\ GetsEvent(Current(engines'[w]))
  BY DEF EngineDone, HasEvent, GetsEvent, Current
<1>0. engines[w] \in Worker(Len(commands)) /\ Len(commands) \in Nat
  BY DEF TypeOK, EngineTypeOK, ApiTypeOK
<1>1. CASE engines'[w] = engines[w]
  BY <1>1, HasEventIsStable DEF EngineDone, Current
<1>2. ASSUME NEW m \in 1 .. Len(commands), engines'[w] = Receives(engines[w], m)
      PROVE  engines'[w].inbox # <<>> /\ GetsEvent(Current(engines'[w]))
  <2>1. engines[w].done /\ engines'[w].inbox # <<>>
    BY <1>0, <1>2, WorkerSteps, ZenonT(40)
  <2>2. Current(engines'[w]) = Current(engines[w])
    <3>1. engines[w].inbox # <<>>
      BY <2>1 DEF EngineDone
    <3>2. Current(Receives(engines[w], m)) = Current(engines[w])
      BY <1>0, <1>2, <3>1 DEF Current, Receives, Worker
    <3> QED
      BY <1>2, <3>2
  <2> QED
    BY <2>1, <2>2, HasEventIsStable DEF EngineDone, Current
<1>3. CASE /\ Handling(engines[w])
           /\ engines'[w] = Works(engines[w])
           /\ GetsEvent(Current(engines[w]))
  BY <1>3 DEF Handling, Works, Current
<1>4. CASE engines'[w] = Returns(engines[w]) \/ engines'[w] = IdleWorker
  BY <1>4 DEF Returns, IdleWorker
<1> QED
  BY <1>1, <1>2, <1>3, <1>4, EnginesStep DEF EngineAfter

\* What a step may add to the settled commands.
LEMMA CommandsSettled ==
    ASSUME TypeOK, EngineDone, [Next]_vars, NEW c \in cmdQueue'.acked,
    c \notin cmdQueue.acked
    PROVE  /\ c \in 1 .. Len(commands)
           /\ commands[c].action \notin Supported \/ HasEvent(c)
<1>1. CASE ApiStep \/ SinkStep \/ UNCHANGED vars
  <2>1. UNCHANGED cmdQueue
    BY <1>1
       DEF ApiStep, Receive, Lookup, Reject, Accept, AcceptFails, ForeignCommand,
           SinkStep, SinkTake, SinkCommit, SinkAck, SinkAckLost, SinkFails, SinkDiscard,
           SinkCrash, EventExpires, vars, engineVars
  <2> QED
    BY <2>1
<1>2. ASSUME NEW w \in Engines, EngineAck(w)
      PROVE  c \in 1 .. Len(commands) /\ HasEvent(c)
  <2>1. c = Current(engines[w])
    BY <1>2 DEF EngineAck, Settled
  <2> QED
    BY <1>2, <2>1, CurrentInStream DEF EngineAck, Acking, EngineDone
<1>3. ASSUME NEW w \in Engines, EngineDiscard(w)
      PROVE  c \in 1 .. Len(commands) /\ commands[c].action \notin Supported
  <2>1. c = Current(engines[w])
    BY <1>3 DEF EngineDiscard, Settled
  <2> QED
    BY <1>3, <2>1, CurrentInStream DEF EngineDiscard
<1>4. CASE EngineStep
  BY <1>2, <1>3, <1>4
     DEF EngineStep, EngineTake, EnginePublish, EngineAckLost, EngineFails, EngineCrash,
         CommandExpires, ForeignEventArrives, Delivered, Requeued
<1> QED
  BY <1>1, <1>4 DEF Next

LEMMA NoLostCommandStep ==
    TypeOK /\ EngineDone /\ NoLostCommand /\ [Next]_vars => NoLostCommand'
<1> SUFFICES ASSUME TypeOK, EngineDone, NoLostCommand, [Next]_vars,
                    NEW c \in cmdQueue'.acked, commands'[c].action \in Supported
             PROVE  GetsEvent(c)
  BY DEF NoLostCommand, GetsEvent
<1>1. CASE c \in cmdQueue.acked
  <2>1. c \in 1 .. Len(commands)
    BY <1>1 DEF TypeOK, EngineTypeOK, Consumer
  <2> QED
    BY <1>1, <2>1, StreamsGrow, HasEventIsStable DEF NoLostCommand, HasEvent
<1>2. CASE c \notin cmdQueue.acked
  BY <1>2, CommandsSettled, StreamsGrow, HasEventIsStable
<1> QED
  BY <1>1, <1>2

\* Property NoLostCommand: whatever publishes fail, whatever engines stop and
\* however often a command comes, a settled command of the API has its event.
THEOREM CommandsReachEvents == Spec => []NoLostCommand
<1>1. Init => EngineDone /\ NoLostCommand
  BY DEF Init, EngineDone, NoLostCommand, IdleWorker, NewConsumer
<1> QED
  BY <1>1, EngineDoneStep, NoLostCommandStep, TypeCorrect, PTL DEF Spec

------------------------------------------------------------------------------
(* Events and the data sinks.                                                *)

\* A sink that has only its Ack left to send has committed.
SinkDone ==
    \A w \in Sinks :
        sinks[w].done => sinks[w].inbox # <<>> /\ Current(sinks[w]) \in applied

\* Tables never forget an event.
LEMMA AppliedGrows ==
    ASSUME TypeOK, [Next]_vars
    PROVE  applied \subseteq applied'
BY TablesChange DEF InsertEvent, dbVars

\* The sinks after a step: one of them took a message, committed, returned from
\* its callback or stopped.
SinkAfter(w) ==
    \/ sinks'[w] = sinks[w]
    \/ \E m \in 1 .. Len(events) : sinks'[w] = Receives(sinks[w], m)
    \/ /\ Handling(sinks[w])
       /\ sinks'[w] = Works(sinks[w])
       /\ Current(sinks[w]) \in applied'
    \/ sinks'[w] = Returns(sinks[w])
    \/ sinks'[w] = IdleWorker

LEMMA SinksStep ==
    ASSUME TypeOK, [Next]_vars, NEW w \in Sinks
    PROVE  SinkAfter(w)
<1>0. sinks \in [Sinks -> Worker(Len(events))]
  BY DEF TypeOK, SinkTypeOK
<1>1. CASE ApiStep \/ EngineStep \/ UNCHANGED vars
  <2>1. UNCHANGED sinks
    BY <1>1
       DEF ApiStep, Receive, Lookup, Reject, Accept, AcceptFails, ForeignCommand,
           EngineStep, EngineTake, EnginePublish, EngineAck, EngineAckLost, EngineFails,
           EngineDiscard, EngineCrash, CommandExpires, ForeignEventArrives, vars, sinkVars
  <2> QED
    BY <2>1 DEF SinkAfter
<1>2. ASSUME NEW v \in Sinks, NEW m \in 1 .. Len(events), SinkTake(v, m)
      PROVE  SinkAfter(w)
  BY <1>0, <1>2 DEF SinkTake, SinkAfter
<1>3. ASSUME NEW v \in Sinks, SinkCommit(v) PROVE SinkAfter(w)
  BY <1>0, <1>3 DEF SinkCommit, InsertEvent, SinkAfter
<1>4. ASSUME NEW v \in Sinks,
             SinkAck(v) \/ SinkAckLost(v) \/ SinkDiscard(v)
                 \/ (\E b \in BOOLEAN : SinkFails(v, b))
      PROVE  SinkAfter(w)
  BY <1>0, <1>4 DEF SinkAck, SinkAckLost, SinkDiscard, SinkFails, SinkAfter
<1>5. ASSUME NEW v \in Sinks, SinkCrash(v) PROVE SinkAfter(w)
  BY <1>0, <1>5 DEF SinkCrash, SinkAfter
<1>6. CASE \E m \in 1 .. Len(events) : EventExpires(m)
  BY <1>6 DEF EventExpires, SinkAfter
<1> QED
  BY <1>1, <1>2, <1>3, <1>4, <1>5, <1>6 DEF Next, SinkStep

LEMMA SinkDoneStep == TypeOK /\ SinkDone /\ [Next]_vars => SinkDone'
<1> SUFFICES ASSUME TypeOK, SinkDone, [Next]_vars, NEW w \in Sinks, sinks'[w].done
             PROVE  sinks'[w].inbox # <<>> /\ Current(sinks'[w]) \in applied'
  BY DEF SinkDone, Current
<1>0. sinks[w] \in Worker(Len(events))
  BY DEF TypeOK, SinkTypeOK
<1>1. CASE sinks'[w] = sinks[w]
  BY <1>1, AppliedGrows DEF SinkDone
<1>2. ASSUME NEW m \in 1 .. Len(events), sinks'[w] = Receives(sinks[w], m)
      PROVE  sinks'[w].inbox # <<>> /\ Current(sinks'[w]) \in applied'
  <2>1. /\ sinks[w].done
        /\ sinks[w].inbox # <<>>
        /\ sinks'[w].inbox = Append(sinks[w].inbox, m)
    BY <1>2 DEF Receives, SinkDone
  <2>2. sinks'[w].inbox # <<>> /\ Head(sinks'[w].inbox) = Head(sinks[w].inbox)
    BY <1>0, <2>1, SMTT(30) DEF Worker
  <2> QED
    BY <2>1, <2>2, AppliedGrows DEF SinkDone, Current
<1>3. CASE /\ Handling(sinks[w])
           /\ sinks'[w] = Works(sinks[w])
           /\ Current(sinks[w]) \in applied'
  BY <1>3 DEF Handling, Works, Current
<1>4. CASE sinks'[w] = Returns(sinks[w]) \/ sinks'[w] = IdleWorker
  BY <1>4 DEF Returns, IdleWorker
<1> QED
  BY <1>1, <1>2, <1>3, <1>4, SinksStep DEF SinkAfter

\* What a step may add to the settled events.
LEMMA EventsSettled ==
    ASSUME TypeOK, SinkDone, [Next]_vars, NEW s \in evtQueue'.acked, s \notin evtQueue.acked
    PROVE  s \in Numbers /\ (events[s] = ForeignEvent \/ s \in applied)
<1>1. CASE ApiStep \/ EngineStep \/ UNCHANGED vars
  <2>1. UNCHANGED evtQueue
    BY <1>1
       DEF ApiStep, Receive, Lookup, Reject, Accept, AcceptFails, ForeignCommand,
           EngineStep, EngineTake, EnginePublish, EngineAck, EngineAckLost, EngineFails,
           EngineDiscard, EngineCrash, CommandExpires, ForeignEventArrives, vars, sinkVars
  <2> QED
    BY <2>1
<1>2. ASSUME NEW w \in Sinks, SinkAck(w) PROVE s \in Numbers /\ s \in applied
  <2>1. s = Current(sinks[w])
    BY <1>2 DEF SinkAck, Settled
  <2> QED
    BY <1>2, <2>1, CurrentInStream DEF SinkAck, Acking, SinkDone
<1>3. ASSUME NEW w \in Sinks, SinkDiscard(w)
      PROVE  s \in Numbers /\ events[s] = ForeignEvent
  <2>1. s = Current(sinks[w])
    BY <1>3 DEF SinkDiscard, Settled
  <2> QED
    BY <1>3, <2>1, CurrentInStream DEF SinkDiscard
<1>4. CASE SinkStep
  BY <1>2, <1>3, <1>4
     DEF SinkStep, SinkTake, SinkCommit, SinkAckLost, SinkFails, SinkCrash, EventExpires,
         Delivered, Requeued
<1> QED
  BY <1>1, <1>4 DEF Next

LEMMA NoLostEventStep ==
    TypeOK /\ SinkDone /\ NoLostEvent /\ [Next]_vars => NoLostEvent'
<1> SUFFICES ASSUME TypeOK, SinkDone, NoLostEvent, [Next]_vars,
                    NEW s \in evtQueue'.acked, events'[s] # ForeignEvent
             PROVE  s \in applied'
  BY DEF NoLostEvent, ForeignEvent
<1>1. s \in Numbers
  BY EventsSettled DEF TypeOK, SinkTypeOK, Consumer, Numbers
<1>2. events[s] # ForeignEvent
  BY <1>1, StreamsGrow
<1> QED
  BY <1>2, EventsSettled, AppliedGrows DEF NoLostEvent

\* Property NoLostEvent: a settled event is in todo_events, whatever transactions
\* fail and whatever sinks stop between their commit and their Ack.
THEOREM EventsReachTables == Spec => []NoLostEvent
<1>1. Init => SinkDone /\ NoLostEvent
  BY DEF Init, SinkDone, NoLostEvent, IdleWorker, NewConsumer
<1> QED
  BY <1>1, SinkDoneStep, NoLostEventStep, TypeCorrect, PTL DEF Spec

------------------------------------------------------------------------------
(* The refinement of TodoReadModel: initial states map to initial states, and *)
(* each step to a step of that model or to a stutter.                         *)

\* The commands whose events are applied: what the model calls projected.
AppliedCommands == { events[s] : s \in applied }

\* A step publishes one command that may be made, or none.
LEMMA CommandsChange ==
    ASSUME TypeOK, Causality, [Next]_vars
    PROVE  \/ UNCHANGED commands
           \/ /\ UNCHANGED <<events, dbVars>>
              /\ \E r \in Requests :
                    /\ commands' = Append(commands, r)
                    /\ r.action \in Changes => Permitted(r)
<1>1. ASSUME NEW h \in Handlers, NEW b \in BOOLEAN, Accept(h) \/ AcceptFails(h, b)
      PROVE  \/ UNCHANGED commands
             \/ /\ UNCHANGED <<events, dbVars>>
                /\ \E r \in Requests :
                      /\ commands' = Append(commands, r)
                      /\ r.action \in Changes => Permitted(r)
  <2>1. /\ api[h].req \in Requests
        /\ api[h].req.action \in Changes => Permitted(api[h].req)
    BY <1>1 DEF Accept, AcceptFails, TypeOK, ApiTypeOK, ApiState, Idle, Causality,
                RequestsChecked
  <2> QED
    BY <1>1, <2>1 DEF Accept, AcceptFails, engineVars
<1>2. ASSUME NEW r \in Requests, ForeignCommand(r)
      PROVE  /\ UNCHANGED <<events, dbVars>>
             /\ commands' = Append(commands, r)
             /\ r.action \notin Changes
  BY <1>2 DEF ForeignCommand, engineVars, Supported
<1>3. ASSUME NEW h \in Handlers, NEW r \in Requests, Receive(h, r)
      PROVE  UNCHANGED commands
  BY <1>3 DEF Receive
<1>4. CASE EngineStep \/ SinkStep \/ UNCHANGED vars
  BY <1>4
     DEF EngineStep, EngineTake, EnginePublish, EngineAck, EngineAckLost, EngineFails,
         EngineDiscard, EngineCrash, CommandExpires, ForeignEventArrives,
         SinkStep, SinkTake, SinkCommit, SinkAck, SinkAckLost, SinkFails, SinkDiscard,
         SinkCrash, EventExpires, vars, apiVars
<1> QED
  BY <1>1, <1>2, <1>3, <1>4 DEF Next, ApiStep, Lookup, Reject

\* Without a transaction the model sees no projection.
LEMMA NothingProjected ==
    ASSUME TypeOK, EventsOK, [Next]_vars, UNCHANGED dbVars
    PROVE  AppliedCommands' = AppliedCommands
<1>1. applied' = applied /\ applied \subseteq Numbers
  BY DEF dbVars, TypeOK, DbTypeOK
<1>2. \A s \in applied : events'[s] = events[s]
  BY <1>1, StreamsGrow
<1> QED
  BY <1>1, <1>2 DEF AppliedCommands

\* A transaction is a step of the model for the command of its event.
LEMMA TransactionProjects ==
    ASSUME TypeOK, Causality, EventsOK, UNCHANGED <<commands, events>>,
           NEW s \in Numbers, events[s] # ForeignEvent, InsertEvent(s),
           NEW c, c = events[s]
    PROVE  ReadModel!Project(c)
<1> DEFINE cmd == commands[c]
           t == cmd.todo
<1>1. /\ c \in 1 .. Len(commands) /\ cmd \in Request /\ cmd.action \in Supported
      /\ t \in Todos
      /\ todos \in [Todos -> Row \cup {NoRow}]
      /\ todos' = Projected(c)
  BY EventHasCommand DEF EventsOK, EventsPublishable, Publishable, Request, TypeOK,
     DbTypeOK,
                         InsertEvent
<1>2. AppliedCommands' = AppliedCommands \cup {c}
  BY DEF AppliedCommands, InsertEvent
<1>3. CASE cmd.action = "create-todo"
  <2>1. ReadModel!Create(c, cmd)
    BY <1>1, <1>3 DEF ReadModel!Create, Projected
  <2> QED
    BY <1>2, <2>1 DEF ReadModel!Project, AppliedCommands
<1>4. CASE cmd.action \in Changes
  <2>1. todos[t] \in Row /\ todos[t] # NoRow /\ todos[t].group = cmd.group
    BY <1>1, <1>4 DEF Causality, CommandsPermitted, Permitted
  <2>2. CASE Live(t)
    <3>1. ReadModel!Update(c, cmd) \/ ReadModel!Delete(c, cmd)
      BY <1>1, <1>4, <2>2
         DEF Projected, Changes, ReadModel!Update, ReadModel!Delete
    <3>2. ReadModel!Change(c, cmd)
      BY <1>4, <2>1, <2>2, <3>1 DEF ReadModel!Change, Live
    <3> QED
      BY <1>2, <3>2 DEF ReadModel!Project, AppliedCommands
  <2>3. CASE ~ Live(t)
    <3>1. todos' = todos /\ todos[t].deleted
      BY <1>1, <1>4, <2>1, <2>3 DEF Projected, Live, Changes
    <3>2. ReadModel!Change(c, cmd)
      BY <1>4, <2>1, <3>1 DEF ReadModel!Change
    <3> QED
      BY <1>2, <3>2 DEF ReadModel!Project, AppliedCommands
  <2> QED
    BY <2>2, <2>3
<1> QED
  BY <1>1, <1>3, <1>4 DEF Supported

\* Property ImplementsReadModel: with any number of workers, whatever is delivered
\* late or again, the write path does what the read model promises.
THEOREM PipelineImplementsReadModel == Spec => ImplementsReadModel
<1>1. Init => ReadModel!Init
  BY DEF Init, ReadModel!Init
<1>2. TypeOK /\ Causality /\ EventsOK /\ [Next]_vars => [ReadModel!Next]_(ReadModel!rmVars)
  <2> SUFFICES ASSUME TypeOK, Causality, EventsOK, [Next]_vars
               PROVE  ReadModel!Next \/ UNCHANGED ReadModel!rmVars
    OBVIOUS
  <2>1. ASSUME UNCHANGED <<commands, events>>,
               NEW s \in Numbers, events[s] # ForeignEvent, InsertEvent(s)
        PROVE  ReadModel!Next
    <3>1. PICK c \in 1 .. Len(commands) : c = events[s]
      BY <2>1, EventHasCommand
    <3>2. ReadModel!Project(c)
      BY <2>1, <3>1, TransactionProjects
    <3> QED
      BY <3>2 DEF ReadModel!Next
  <2>2. CASE UNCHANGED dbVars
    <3>1. CASE UNCHANGED commands
      BY <2>2, <3>1, NothingProjected DEF ReadModel!rmVars, AppliedCommands, dbVars
    <3>2. ASSUME NEW r \in Requests, commands' = Append(commands, r),
                 r.action \in Changes => Permitted(r)
          PROVE  ReadModel!Next
      <4>1. ReadModel!Accept(r)
        BY <2>2, <3>2, NothingProjected
           DEF ReadModel!Accept, Permitted, AppliedCommands, dbVars
      <4> QED
        BY <4>1 DEF ReadModel!Next
    <3> QED
      BY <3>1, <3>2, CommandsChange
  <2> QED
    BY <2>1, <2>2, TablesChange
<1> QED
  BY <1>1, <1>2, CausalityCorrect, EventsCorrect, TypeCorrect, PTL
     DEF Spec, ImplementsReadModel, ReadModel!Spec
================================================================================
