--------------------------- MODULE TodoPipelineProofs ---------------------------
(***************************************************************************)
(* Proofs about TodoPipeline, for any sets of users, groups, todos,          *)
(* handlers and workers and any bounds.                                      *)
(***************************************************************************)
EXTENDS TodoPipeline, TLAPS

------------------------------------------------------------------------------
(* Consumers and workers.                                                    *)

LEMMA SeqWidens ==
    ASSUME NEW S, NEW T, S \subseteq T, NEW s \in Seq(S)
    PROVE  s \in Seq(T)
OBVIOUS

LEMMA ConsumerWidens ==
    ASSUME NEW m \in Nat, NEW n \in Nat, m <= n, NEW c \in Consumer(m)
    PROVE  c \in Consumer(n)
BY DEF Consumer

LEMMA WorkersWiden ==
    ASSUME NEW m \in Nat, NEW n \in Nat, m <= n, NEW W, NEW f \in [W -> Worker(m)]
    PROVE  f \in [W -> Worker(n)]
<1>1. 1 .. m \subseteq 1 .. n
  OBVIOUS
<1>2. \A w \in W : f[w].inbox \in Seq(1 .. n)
  BY <1>1, SeqWidens DEF Worker
<1> QED
  BY <1>2 DEF Worker

\* What each step of the broker makes of a consumer.
LEMMA ConsumerSteps ==
    ASSUME NEW n \in Nat, NEW c \in Consumer(n),
           NEW m \in 1 .. n, NEW ms \in SUBSET (1 .. n)
    PROVE  /\ Delivered(c, m) \in Consumer(n)
           /\ Settled(c, m) \in Consumer(n)
           /\ Requeued(c, ms) \in Consumer(n)
           /\ Delivered(c, m).acked = c.acked
           /\ Settled(c, m).acked = c.acked \cup {m}
           /\ Requeued(c, ms).acked = c.acked
<1>1. /\ c.next \in 0 .. n
      /\ c.due \in SUBSET (1 .. n)
      /\ c.acked \in SUBSET (1 .. n)
  BY DEF Consumer
<1>2. (IF m = c.next + 1 THEN m ELSE c.next) \in 0 .. n
  BY <1>1
<1>3. c.due \ {m} \in SUBSET (1 .. n)
  BY <1>1
<1>4. c.acked \cup {m} \in SUBSET (1 .. n)
  BY <1>1
<1>5. c.due \cup (ms \ c.acked) \in SUBSET (1 .. n)
  BY <1>1, Zenon
<1> QED
  BY <1>1, <1>2, <1>3, <1>4, <1>5
     DEF Consumer, Delivered, Settled, Requeued

\* What each step of a member makes of its inbox.
LEMMA WorkerSteps ==
    ASSUME NEW n \in Nat, NEW w \in Worker(n), NEW m \in 1 .. n
    PROVE  /\ IdleWorker \in Worker(n)
           /\ Receives(w, m) \in Worker(n)
           /\ Works(w) \in Worker(n)
           /\ Held(w) \in SUBSET (1 .. n)
           /\ w.inbox # <<>> => /\ Current(w) \in 1 .. n
                                /\ Returns(w) \in Worker(n)
                                /\ Current(Receives(w, m)) = Current(w)
           /\ Receives(w, m).inbox # <<>>
           /\ Receives(w, m).done = w.done
<1>1. /\ w.inbox \in Seq(1 .. n)
      /\ w.done \in BOOLEAN
      /\ w = [inbox |-> w.inbox, done |-> w.done]
  BY DEF Worker
<1>2. <<>> \in Seq(1 .. n)
  OBVIOUS
<1>3. Append(w.inbox, m) \in Seq(1 .. n)
  BY <1>1
<1>4. w.inbox # <<>> => /\ Head(w.inbox) \in 1 .. n
                        /\ Tail(w.inbox) \in Seq(1 .. n)
                        /\ Head(Append(w.inbox, m)) = Head(w.inbox)
  BY <1>1
<1>5. Append(w.inbox, m) # <<>>
  BY <1>1
<1>6. \A i \in DOMAIN w.inbox : w.inbox[i] \in 1 .. n
  BY <1>1
<1> QED
  BY <1>1, <1>2, <1>3, <1>4, <1>5, <1>6
     DEF Worker, IdleWorker, Receives, Works, Returns, Current, Held

------------------------------------------------------------------------------
(* Type correctness.                                                         *)

\* A longer command stream leaves the engines' types as they are.
LEMMA CommandAppended ==
    ASSUME ApiTypeOK, EngineTypeOK, NEW r \in Requests,
           commands' = Append(commands, r), UNCHANGED engineVars
    PROVE  commands' \in Seq(Requests) /\ EngineTypeOK'
<1>1. /\ commands' \in Seq(Requests)
      /\ Len(commands') \in Nat
      /\ Len(commands) \in Nat
      /\ Len(commands) <= Len(commands')
  BY DEF ApiTypeOK
<1>2. cmdQueue' \in Consumer(Len(commands'))
  BY <1>1, ConsumerWidens DEF EngineTypeOK, engineVars
<1>3. engines' \in [Engines -> Worker(Len(commands'))]
  BY <1>1, WorkersWiden DEF EngineTypeOK, engineVars
<1>4. 0 .. Len(commands) \subseteq 0 .. Len(commands')
  BY <1>1
<1>5. events' \in Seq(0 .. Len(commands'))
  BY <1>4, SeqWidens DEF EngineTypeOK, engineVars
<1> QED
  BY <1>1, <1>2, <1>3, <1>5 DEF EngineTypeOK

\* A longer event stream leaves the sinks' and the tables' types as they are.
LEMMA EventAppended ==
    ASSUME EngineTypeOK, SinkTypeOK, DbTypeOK, NEW c \in 0 .. Len(commands),
           events' = Append(events, c), UNCHANGED sinkVars, UNCHANGED dbVars
    PROVE  events' \in Seq(0 .. Len(commands)) /\ SinkTypeOK' /\ DbTypeOK'
<1>1. /\ events' \in Seq(0 .. Len(commands))
      /\ Len(events') \in Nat
      /\ Len(events) \in Nat
      /\ Len(events) <= Len(events')
  BY DEF EngineTypeOK
<1>2. evtQueue' \in Consumer(Len(events'))
  BY <1>1, ConsumerWidens DEF SinkTypeOK, sinkVars
<1>3. sinks' \in [Sinks -> Worker(Len(events'))]
  BY <1>1, WorkersWiden DEF SinkTypeOK, sinkVars
<1>4. applied' \in SUBSET Numbers'
  BY <1>1 DEF DbTypeOK, dbVars, Numbers
<1> QED
  BY <1>1, <1>2, <1>3, <1>4 DEF SinkTypeOK, DbTypeOK, dbVars

\* A transaction of the data sink keeps the tables' types.
LEMMA InsertEventOK ==
    ASSUME TypeOK, NEW s \in Numbers, events[s] # ForeignEvent,
           InsertEvent(s), UNCHANGED <<commands, events>>
    PROVE  DbTypeOK'
<1>1. /\ events[s] \in 1 .. Len(commands)
      /\ commands[events[s]] \in Request
      /\ s \in Nat
  BY RequestsAssumption DEF TypeOK, ApiTypeOK, EngineTypeOK, Numbers, ForeignEvent
<1>2. applied' \in SUBSET Numbers'
  BY DEF InsertEvent, TypeOK, DbTypeOK, Numbers
<1>3. offset' \in [Groups -> Nat]
  BY <1>1 DEF InsertEvent, TypeOK, DbTypeOK, Request
<1>4. ASSUME NEW c \in 1 .. Len(commands), commands[c] \in Request
      PROVE  Projected(c) \in [Todos -> Row \cup {NoRow}]
  <2> DEFINE t == commands[c].todo
  <2>1. /\ t \in Todos /\ todos \in [Todos -> Row \cup {NoRow}]
        /\ commands[c].group \in Groups /\ commands[c].actor \in Users
        /\ c \in Nat
    BY <1>4 DEF Request, TypeOK, DbTypeOK
  <2>2. [group |-> commands[c].group, creator |-> commands[c].actor,
         title |-> c, updated_by |-> c, deleted |-> FALSE] \in Row
    BY <2>1 DEF Row
  <2>3. ASSUME Live(t)
        PROVE  /\ [todos[t] EXCEPT !.title = c, !.updated_by = c] \in Row
               /\ [todos[t] EXCEPT !.updated_by = c, !.deleted = TRUE] \in Row
    BY <2>1, <2>3 DEF Live, Row
  <2> QED
    BY <2>1, <2>2, <2>3 DEF Projected
<1> QED
  BY <1>1, <1>2, <1>3, <1>4 DEF DbTypeOK, InsertEvent

LEMMA InitTypeOK == Init => TypeOK
<1> SUFFICES ASSUME Init PROVE TypeOK
  OBVIOUS
<1>1. <<>> \in Seq(Requests) /\ Len(commands) = 0 /\ Len(events) = 0
  BY DEF Init
<1>2. NewConsumer \in Consumer(0) /\ IdleWorker \in Worker(0)
  BY DEF NewConsumer, Consumer, IdleWorker, Worker
<1>3. <<>> \in Seq(0 .. 0)
  OBVIOUS
<1> QED
  BY <1>1, <1>2, <1>3 DEF Init, TypeOK, ApiTypeOK, EngineTypeOK, SinkTypeOK, DbTypeOK,
     BoundTypeOK, Numbers, ApiState

LEMMA ApiStepTypeOK == TypeOK /\ ApiStep => TypeOK'
<1> SUFFICES ASSUME TypeOK, ApiStep PROVE TypeOK'
  OBVIOUS
<1> USE DEF ApiTypeOK, ApiState
<1>1. ASSUME NEW h \in Handlers, NEW r \in Requests, Receive(h, r)
      PROVE  TypeOK'
  BY <1>1
     DEF TypeOK, Receive, EngineTypeOK, SinkTypeOK, DbTypeOK, BoundTypeOK, Numbers,
         engineVars, sinkVars, dbVars, boundVars
<1>2. ASSUME NEW h \in Handlers, Lookup(h) \/ Reject(h)
      PROVE  TypeOK'
  <2>1. Idle \in ApiState
    BY DEF ApiState
  <2>2. CASE Lookup(h)
    <3>1. api[h].req \in Requests
      BY <2>2 DEF Lookup, TypeOK, Idle
    <3>2. [pc |-> "accept", req |-> api[h].req] \in ApiState
      BY <3>1
    <3>3. api' \in [Handlers -> ApiState]
      BY <2>1, <2>2, <3>2 DEF Lookup, TypeOK
    <3> QED
      BY <2>2, <3>3
         DEF TypeOK, Lookup, EngineTypeOK, SinkTypeOK, DbTypeOK, BoundTypeOK,
             Numbers, engineVars, sinkVars, dbVars, boundVars
  <2>3. CASE Reject(h)
    BY <2>1, <2>3
       DEF TypeOK, Reject, EngineTypeOK, SinkTypeOK, DbTypeOK, BoundTypeOK,
           Numbers, engineVars, sinkVars, dbVars, boundVars
  <2> QED
    BY <1>2, <2>2, <2>3
<1>3. ASSUME NEW h \in Handlers, NEW b \in BOOLEAN, Accept(h) \/ AcceptFails(h, b)
      PROVE  TypeOK'
  <2>1. api[h].req \in Requests /\ api' \in [Handlers -> ApiState]
    BY <1>3 DEF TypeOK, Accept, AcceptFails, Idle
  <2>2. \/ commands' = Append(commands, api[h].req)
        \/ commands' = commands
    BY <1>3 DEF Accept, AcceptFails
  <2>3. UNCHANGED <<engineVars, sinkVars, dbVars>> /\ BoundTypeOK'
    BY <1>3 DEF TypeOK, Accept, AcceptFails, Fault, BoundTypeOK, boundVars
  <2>4. ApiTypeOK' /\ EngineTypeOK'
    BY <2>1, <2>2, <2>3, CommandAppended DEF TypeOK, EngineTypeOK, engineVars
  <2> QED
    BY <2>3, <2>4 DEF TypeOK, SinkTypeOK, DbTypeOK, Numbers, engineVars, sinkVars, dbVars
<1>4. ASSUME NEW r \in Requests, ForeignCommand(r)
      PROVE  TypeOK'
  <2>1. ApiTypeOK' /\ EngineTypeOK'
    BY <1>4, CommandAppended DEF TypeOK, ForeignCommand
  <2> QED
    BY <1>4, <2>1
       DEF TypeOK, ForeignCommand, SinkTypeOK, DbTypeOK, BoundTypeOK, Numbers, engineVars,
           sinkVars, dbVars, boundVars
<1> QED
  BY <1>1, <1>2, <1>3, <1>4 DEF ApiStep

\* A member that is at a message is at one of its stream.
LEMMA CurrentInStream ==
    ASSUME TypeOK
    PROVE  /\ \A w \in Engines : Handling(engines[w]) \/ Acking(engines[w]) =>
                 Current(engines[w]) \in 1 .. Len(commands)
           /\ \A w \in Sinks : Handling(sinks[w]) \/ Acking(sinks[w]) =>
                 Current(sinks[w]) \in Numbers
BY DEF TypeOK, EngineTypeOK, SinkTypeOK, Handling, Acking, Current, Worker, Numbers

LEMMA EngineStepTypeOK == TypeOK /\ EngineStep => TypeOK'
<1> SUFFICES ASSUME TypeOK, EngineStep PROVE TypeOK'
  OBVIOUS
<1> DEFINE n == Len(commands)
<1>0. n \in Nat /\ Len(events) \in Nat
  BY DEF TypeOK, ApiTypeOK, EngineTypeOK
\* An engine step that leaves the event stream alone.
<1>1. ASSUME UNCHANGED <<apiVars, events, sinkVars, dbVars>>,
             BoundTypeOK', cmdQueue' \in Consumer(n),
             engines' \in [Engines -> Worker(n)]
      PROVE  TypeOK'
  BY <1>1
     DEF TypeOK, apiVars, sinkVars, dbVars, ApiTypeOK, EngineTypeOK, SinkTypeOK,
        DbTypeOK, Numbers
\* An engine step that appends an event.
<1>2. ASSUME UNCHANGED <<apiVars, sinkVars, dbVars>>, NEW c \in 0 .. n,
             events' = Append(events, c), BoundTypeOK', cmdQueue' \in Consumer(n),
             engines' \in [Engines -> Worker(n)]
      PROVE  TypeOK'
  <2>1. events' \in Seq(0 .. n) /\ SinkTypeOK' /\ DbTypeOK'
    BY <1>2, EventAppended DEF TypeOK
  <2> QED
    BY <1>2, <2>1 DEF TypeOK, apiVars, ApiTypeOK, EngineTypeOK
<1>3. ASSUME NEW w \in Engines, NEW m \in 1 .. n, EngineTake(w, m)
      PROVE  TypeOK'
  <2>1. cmdQueue' \in Consumer(n) /\ engines' \in [Engines -> Worker(n)]
    BY <1>0, <1>3, ConsumerSteps, WorkerSteps DEF TypeOK, EngineTypeOK, EngineTake
  <2> QED
    BY <1>1, <1>3, <2>1 DEF TypeOK, EngineTake, boundVars, BoundTypeOK
<1>4. ASSUME NEW w \in Engines, EnginePublish(w)
      PROVE  TypeOK'
  <2>1. Current(engines[w]) \in 1 .. n
    BY <1>4, CurrentInStream DEF EnginePublish
  <2>2. engines' \in [Engines -> Worker(n)]
    BY <1>0, <1>4, <2>1, WorkerSteps DEF TypeOK, EngineTypeOK, EnginePublish
  <2> QED
    BY <1>2, <1>4, <2>1, <2>2
       DEF TypeOK, EnginePublish, boundVars, BoundTypeOK, EngineTypeOK
<1>5. ASSUME NEW w \in Engines,
             EngineAck(w) \/ EngineAckLost(w) \/ EngineDiscard(w)
      PROVE  TypeOK'
  <2>1. /\ engines[w].inbox # <<>>
        /\ Current(engines[w]) \in 1 .. n
    BY <1>5, CurrentInStream
       DEF EngineAck, EngineAckLost, EngineDiscard, Acking, Handling
  <2>2. engines' \in [Engines -> Worker(n)]
    <3>1. engines[w] \in Worker(n) /\ Returns(engines[w]) \in Worker(n)
      BY <1>0, <2>1, WorkerSteps DEF TypeOK, EngineTypeOK
    <3> QED
      BY <1>5, <3>1 DEF TypeOK, EngineTypeOK, EngineAck, EngineAckLost, EngineDiscard
  <2>3. cmdQueue' \in Consumer(n)
    BY <1>0, <1>5, <2>1, ConsumerSteps, SMTT(30)
       DEF TypeOK, EngineTypeOK, EngineAck, EngineAckLost, EngineDiscard
  <2>4. UNCHANGED <<apiVars, events, sinkVars, dbVars>> /\ BoundTypeOK'
    BY <1>5
       DEF TypeOK, EngineAck, EngineAckLost, EngineDiscard, Fault, boundVars, BoundTypeOK
  <2> QED
    BY <1>1, <2>2, <2>3, <2>4
<1>6. ASSUME NEW w \in Engines, NEW b \in BOOLEAN, EngineFails(w, b)
      PROVE  TypeOK'
  <2>1. /\ engines[w].inbox # <<>>
        /\ Current(engines[w]) \in 1 .. n
    BY <1>6, CurrentInStream DEF EngineFails, Handling
  <2>2. engines' \in [Engines -> Worker(n)]
    BY <1>0, <1>6, <2>1, WorkerSteps DEF TypeOK, EngineTypeOK, EngineFails
  <2>3. cmdQueue' \in Consumer(n)
    BY <1>0, <1>6, <2>1, ConsumerSteps DEF TypeOK, EngineTypeOK, EngineFails
  <2>4. UNCHANGED <<apiVars, sinkVars, dbVars>> /\ BoundTypeOK'
    BY <1>6 DEF TypeOK, EngineFails, Fault, BoundTypeOK
  <2> QED
    BY <1>1, <1>2, <1>6, <2>1, <2>2, <2>3, <2>4 DEF EngineFails
<1>7. ASSUME NEW w \in Engines, EngineCrash(w)
      PROVE  TypeOK'
  <2>1. engines' \in [Engines -> Worker(n)] /\ Held(engines[w]) \in SUBSET (1 .. n)
    <3>1. n + 1 - 1 = n /\ IdleWorker \in Worker(n)
      BY <1>0 DEF IdleWorker, Worker
    <3>2. \A i \in DOMAIN engines[w].inbox : engines[w].inbox[i] \in 1 .. n
      BY <1>7 DEF TypeOK, EngineTypeOK, Worker
    <3> QED
      BY <1>7, <3>1, <3>2 DEF EngineCrash, TypeOK, EngineTypeOK, Held
  <2>2. cmdQueue' \in Consumer(n)
    <3>1. cmdQueue \in Consumer(n) /\ cmdQueue' = Requeued(cmdQueue, Held(engines[w]))
      BY <1>7 DEF EngineCrash, TypeOK, EngineTypeOK
    <3> QED
      BY <2>1, <3>1, Zenon DEF Requeued, Consumer
  <2> QED
    BY <1>1, <1>7, <2>1, <2>2 DEF TypeOK, EngineCrash, Fault, BoundTypeOK
<1>8. ASSUME NEW m \in 1 .. n, CommandExpires(m)
      PROVE  TypeOK'
  <2>1. cmdQueue' \in Consumer(n)
    BY <1>0, <1>8, ConsumerSteps DEF TypeOK, EngineTypeOK, CommandExpires
  <2> QED
    BY <1>1, <1>8, <2>1
       DEF TypeOK, CommandExpires, Fault, BoundTypeOK, EngineTypeOK
<1>9. ASSUME ForeignEventArrives PROVE TypeOK'
  BY <1>0, <1>2, <1>9
     DEF TypeOK, ForeignEventArrives, ForeignEvent, BoundTypeOK, EngineTypeOK
<1> QED
  BY <1>3, <1>4, <1>5, <1>6, <1>7, <1>8, <1>9 DEF EngineStep

LEMMA SinkStepTypeOK == TypeOK /\ SinkStep => TypeOK'
<1> SUFFICES ASSUME TypeOK, SinkStep PROVE TypeOK'
  OBVIOUS
<1> DEFINE n == Len(events)
<1>0. n \in Nat /\ Numbers = 1 .. n
  BY DEF TypeOK, EngineTypeOK, Numbers
\* A sink step that leaves the tables alone, and one that is a transaction.
<1>1. ASSUME UNCHANGED <<apiVars, engineVars>>, DbTypeOK', BoundTypeOK',
             evtQueue' \in Consumer(n), sinks' \in [Sinks -> Worker(n)]
      PROVE  TypeOK'
  BY <1>1
     DEF TypeOK, apiVars, engineVars, ApiTypeOK, EngineTypeOK, SinkTypeOK
<1>2. ASSUME UNCHANGED <<events, dbVars>> PROVE DbTypeOK'
  BY <1>2 DEF TypeOK, DbTypeOK, dbVars, Numbers
<1>3. ASSUME NEW w \in Sinks, NEW m \in 1 .. n, SinkTake(w, m)
      PROVE  TypeOK'
  <2>1. evtQueue' \in Consumer(n) /\ sinks' \in [Sinks -> Worker(n)]
    BY <1>0, <1>3, ConsumerSteps, WorkerSteps DEF TypeOK, SinkTypeOK, SinkTake
  <2> QED
    BY <1>1, <1>2, <1>3, <2>1
       DEF TypeOK, SinkTake, engineVars, boundVars, BoundTypeOK
<1>4. ASSUME NEW w \in Sinks, SinkCommit(w)
      PROVE  TypeOK'
  <2>1. Current(sinks[w]) \in 1 .. n
    BY <1>0, <1>4, CurrentInStream DEF SinkCommit
  <2>2. sinks' \in [Sinks -> Worker(n)]
    BY <1>0, <1>4, <2>1, WorkerSteps DEF TypeOK, SinkTypeOK, SinkCommit
  <2>3. DbTypeOK'
    BY <1>0, <1>4, <2>1, InsertEventOK DEF SinkCommit, apiVars, engineVars
  <2> QED
    BY <1>1, <1>4, <2>2, <2>3
       DEF TypeOK, SinkTypeOK, SinkCommit, boundVars, BoundTypeOK
<1>5. ASSUME NEW w \in Sinks, SinkAck(w) \/ SinkAckLost(w) \/ SinkDiscard(w)
      PROVE  TypeOK'
  <2>1. /\ sinks[w].inbox # <<>>
        /\ Current(sinks[w]) \in 1 .. n
    BY <1>0, <1>5, CurrentInStream
       DEF SinkAck, SinkAckLost, SinkDiscard, Acking, Handling
  <2>2. sinks' \in [Sinks -> Worker(n)]
    <3>1. sinks[w] \in Worker(n) /\ Returns(sinks[w]) \in Worker(n)
      BY <1>0, <2>1, WorkerSteps DEF TypeOK, SinkTypeOK
    <3> QED
      BY <1>5, <3>1 DEF TypeOK, SinkTypeOK, SinkAck, SinkAckLost, SinkDiscard
  <2>3. evtQueue' \in Consumer(n)
    BY <1>0, <1>5, <2>1, ConsumerSteps
       DEF TypeOK, SinkTypeOK, SinkAck, SinkAckLost, SinkDiscard
  <2>4. UNCHANGED <<apiVars, engineVars, dbVars>> /\ BoundTypeOK'
    BY <1>5
       DEF TypeOK, SinkAck, SinkAckLost, SinkDiscard, Fault, boundVars, BoundTypeOK
  <2> QED
    BY <1>1, <1>2, <2>2, <2>3, <2>4 DEF engineVars
<1>6. ASSUME NEW w \in Sinks, NEW b \in BOOLEAN, SinkFails(w, b)
      PROVE  TypeOK'
  <2>1. /\ sinks[w].inbox # <<>>
        /\ Current(sinks[w]) \in 1 .. n
    BY <1>0, <1>6, CurrentInStream DEF SinkFails, Handling
  <2>2. sinks' \in [Sinks -> Worker(n)]
    BY <1>0, <1>6, <2>1, WorkerSteps DEF TypeOK, SinkTypeOK, SinkFails
  <2>3. evtQueue' \in Consumer(n)
    BY <1>0, <1>6, <2>1, ConsumerSteps DEF TypeOK, SinkTypeOK, SinkFails
  <2>4. DbTypeOK'
    BY <1>0, <1>2, <1>6, <2>1, InsertEventOK DEF SinkFails, apiVars, engineVars
  <2> QED
    BY <1>1, <1>6, <2>2, <2>3, <2>4 DEF TypeOK, SinkFails, Fault, BoundTypeOK
<1>7. ASSUME NEW w \in Sinks, SinkCrash(w)
      PROVE  TypeOK'
  <2>1. sinks' \in [Sinks -> Worker(n)] /\ Held(sinks[w]) \in SUBSET (1 .. n)
    <3>1. IdleWorker \in Worker(n)
      BY <1>0 DEF IdleWorker, Worker
    <3>2. \A i \in DOMAIN sinks[w].inbox : sinks[w].inbox[i] \in 1 .. n
      BY <1>7 DEF TypeOK, SinkTypeOK, Worker
    <3> QED
      BY <1>7, <3>1, <3>2 DEF SinkCrash, TypeOK, SinkTypeOK, Held
  <2>2. evtQueue' \in Consumer(n)
    <3>1. evtQueue \in Consumer(n) /\ evtQueue' = Requeued(evtQueue, Held(sinks[w]))
      BY <1>7 DEF SinkCrash, TypeOK, SinkTypeOK
    <3> QED
      BY <2>1, <3>1, Zenon DEF Requeued, Consumer
  <2> QED
    BY <1>1, <1>2, <1>7, <2>1, <2>2
       DEF TypeOK, SinkCrash, Fault, BoundTypeOK, engineVars
<1>8. ASSUME NEW m \in 1 .. n, EventExpires(m)
      PROVE  TypeOK'
  <2>1. evtQueue' \in Consumer(n)
    BY <1>0, <1>8, ConsumerSteps DEF TypeOK, SinkTypeOK, EventExpires
  <2> QED
    BY <1>1, <1>2, <1>8, <2>1
       DEF TypeOK, SinkTypeOK, EventExpires, Fault, BoundTypeOK, engineVars
<1> QED
  BY <1>3, <1>4, <1>5, <1>6, <1>7, <1>8 DEF SinkStep

LEMMA NextTypeOK == TypeOK /\ [Next]_vars => TypeOK'
<1> SUFFICES ASSUME TypeOK, UNCHANGED vars PROVE TypeOK'
  BY ApiStepTypeOK, EngineStepTypeOK, SinkStepTypeOK DEF Next
<1> QED
  BY DEF TypeOK, ApiTypeOK, EngineTypeOK, SinkTypeOK, DbTypeOK, BoundTypeOK, Numbers,
         vars, apiVars, engineVars, sinkVars, dbVars, boundVars

\* Every reachable state is well typed, with any number of clients, workers,
\* faults and messages.
THEOREM TypeCorrect == Spec => []TypeOK
BY InitTypeOK, NextTypeOK, PTL DEF Spec

------------------------------------------------------------------------------
(* Rows: what a transaction may do to table todos.                           *)

\* Every step leaves the rows alone or projects one command.
LEMMA RowsChangeByProjection ==
    ASSUME TypeOK, Next
    PROVE  \/ UNCHANGED todos
           \/ \E c \in 1 .. Len(commands) : todos' = Projected(c)
<1>1. ASSUME NEW s \in Numbers, events[s] # ForeignEvent, InsertEvent(s)
      PROVE  \E c \in 1 .. Len(commands) : todos' = Projected(c)
  <2>1. events[s] \in 1 .. Len(commands)
    BY <1>1 DEF TypeOK, EngineTypeOK, Numbers, ForeignEvent
  <2> QED
    BY <1>1, <2>1 DEF InsertEvent
<1>2. CASE ApiStep
  BY <1>2
     DEF ApiStep, Receive, Lookup, Reject, Accept, AcceptFails, ForeignCommand, dbVars
<1>3. CASE EngineStep
  BY <1>3
     DEF EngineStep, EngineTake, EnginePublish, EngineAck, EngineAckLost, EngineFails,
         EngineDiscard, EngineCrash, CommandExpires, ForeignEventArrives, dbVars
<1>4. CASE SinkStep
  <2>1. ASSUME NEW w \in Sinks, SinkCommit(w)
        PROVE  \E c \in 1 .. Len(commands) : todos' = Projected(c)
    BY <1>1, <2>1, CurrentInStream DEF SinkCommit
  <2>2. ASSUME NEW w \in Sinks, NEW b \in BOOLEAN, SinkFails(w, b)
        PROVE  \/ UNCHANGED todos
               \/ \E c \in 1 .. Len(commands) : todos' = Projected(c)
    BY <1>1, <2>2, CurrentInStream DEF SinkFails, dbVars
  <2> QED
    BY <1>4, <2>1, <2>2
       DEF SinkStep, SinkTake, SinkAck, SinkAckLost, SinkDiscard, SinkCrash,
           EventExpires, dbVars
<1> QED
  BY <1>2, <1>3, <1>4 DEF Next

\* What an edit of columns makes of a row.
LEMMA RowEdits ==
    ASSUME NEW row \in Row, NEW c
    PROVE  [row EXCEPT !.title = c, !.updated_by = c] =
             [group |-> row.group, creator |-> row.creator,
              title |-> c, updated_by |-> c, deleted |-> row.deleted]
<1> DEFINE new == [row EXCEPT !.title = c, !.updated_by = c]
           cols == {"group", "creator", "title", "updated_by", "deleted"}
<1>1. row = [x \in cols |-> row[x]]
  BY DEF Row
<1>2. new = [x \in cols |-> IF x = "title" \/ x = "updated_by" THEN c ELSE row[x]]
  BY <1>1
<1> QED
  BY <1>2

\* What projecting a command does to each row.
LEMMA ProjectedRow ==
    ASSUME TypeOK, NEW c \in 1 .. Len(commands), NEW t \in Todos
    PROVE  LET cmd == commands[c]
               new == Projected(c)[t]
           IN  \/ new = todos[t]
               \/ /\ t = cmd.todo
                  /\ todos[t] = NoRow
                  /\ cmd.action = "create-todo"
                  /\ new = [group |-> cmd.group, creator |-> cmd.actor,
                            title |-> c, updated_by |-> c, deleted |-> FALSE]
               \/ /\ t = cmd.todo
                  /\ Live(t)
                  /\ \/ /\ cmd.action = "update-todo"
                        /\ new = [group |-> todos[t].group,
                                  creator |-> todos[t].creator,
                                  title |-> c, updated_by |-> c, deleted |-> FALSE]
                     \/ /\ cmd.action = "delete-todo"
                        /\ new = [group |-> todos[t].group,
                                  creator |-> todos[t].creator,
                                  title |-> todos[t].title, updated_by |-> c,
                                  deleted |-> TRUE]
<1> DEFINE cmd == commands[c]
<1>1. todos \in [Todos -> Row \cup {NoRow}] /\ cmd.todo \in Todos
  BY RequestsAssumption DEF TypeOK, DbTypeOK, ApiTypeOK, Request
<1>2. ASSUME Live(cmd.todo)
      PROVE  /\ todos[cmd.todo] = [group |-> todos[cmd.todo].group,
                                   creator |-> todos[cmd.todo].creator,
                                   title |-> todos[cmd.todo].title,
                                   updated_by |-> todos[cmd.todo].updated_by,
                                   deleted |-> FALSE]
  BY <1>1, <1>2 DEF Live, Row
<1>3. CASE cmd.action = "create-todo" /\ todos[cmd.todo] = NoRow
  BY <1>1, <1>3 DEF Projected
<1>4. CASE cmd.action = "update-todo" /\ Live(cmd.todo)
  <2>1. Projected(c) = [todos EXCEPT ![cmd.todo].title = c, ![cmd.todo].updated_by = c]
    BY <1>4 DEF Projected
  <2>2. Projected(c)[cmd.todo] = [todos[cmd.todo] EXCEPT !.title = c, !.updated_by = c]
    BY <1>1, <2>1
  <2>3. Projected(c)[cmd.todo] = [group |-> todos[cmd.todo].group,
                                  creator |-> todos[cmd.todo].creator,
                                  title |-> c, updated_by |-> c, deleted |-> FALSE]
    <3> DEFINE row == todos[cmd.todo]
    <3>1. row \in Row /\ row.deleted = FALSE
      BY <1>1, <1>4 DEF Live, Row
    <3>2. [row EXCEPT !.title = c, !.updated_by = c] =
            [group |-> row.group, creator |-> row.creator,
             title |-> c, updated_by |-> c, deleted |-> row.deleted]
      BY <3>1, RowEdits DEF Row
    <3> QED
      BY <2>2, <3>1, <3>2
  <2> QED
    BY <1>1, <1>4, <2>1, <2>3 DEF Changes
<1>5. CASE cmd.action = "delete-todo" /\ Live(cmd.todo)
  BY <1>1, <1>2, <1>5 DEF Projected, Changes
<1>6. CASE ~ \/ cmd.action = "create-todo" /\ todos[cmd.todo] = NoRow
             \/ cmd.action = "update-todo" /\ Live(cmd.todo)
             \/ cmd.action = "delete-todo" /\ Live(cmd.todo)
  BY <1>6 DEF Projected
<1> QED
  BY <1>3, <1>4, <1>5, <1>6

\* A row that exists keeps its group and creator, and its whole content once
\* it is deleted.
LEMMA RowsOnlyGrow ==
    ASSUME TypeOK, [Next]_vars, NEW t \in Todos, todos[t] # NoRow
    PROVE  /\ todos'[t] # NoRow
           /\ todos'[t].group = todos[t].group
           /\ todos'[t].creator = todos[t].creator
           /\ todos[t].deleted => todos'[t] = todos[t]
<1>1. CASE UNCHANGED todos
  BY <1>1
<1>2. ASSUME NEW c \in 1 .. Len(commands), todos' = Projected(c), todos'[t] # todos[t]
      PROVE  /\ todos'[t] # NoRow
             /\ todos'[t].group = todos[t].group
             /\ todos'[t].creator = todos[t].creator
             /\ ~ todos[t].deleted
  <2>1. /\ Live(t)
        /\ \/ todos'[t] = [group |-> todos[t].group, creator |-> todos[t].creator,
                           title |-> c, updated_by |-> c, deleted |-> FALSE]
           \/ todos'[t] = [group |-> todos[t].group, creator |-> todos[t].creator,
                           title |-> todos[t].title, updated_by |-> c, deleted |-> TRUE]
    BY <1>2, ProjectedRow
  <2>2. todos[t] \in Row
    BY DEF TypeOK, DbTypeOK
  <2>3. /\ todos[t].group \in Groups /\ todos[t].creator \in Users
        /\ todos[t].title \in Nat /\ c \in Nat
    BY <2>2 DEF Row
  <2>4. todos'[t] \in Row
    <3>1. ASSUME NEW n \in Nat, NEW b \in BOOLEAN
          PROVE  [group |-> todos[t].group, creator |-> todos[t].creator,
                  title |-> n, updated_by |-> c, deleted |-> b] \in Row
      BY <2>3 DEF Row
    <3> QED
      BY <2>1, <2>3, <3>1
  <2> QED
    BY <2>1, <2>4, NoRowAssumption DEF Live
<1> QED
  BY <1>1, <1>2, RowsChangeByProjection DEF vars, dbVars

\* Property DeletedStaysDeleted: no late or repeated event brings a deleted
\* todo back or edits it.
THEOREM DeletedIsFinal == Spec => DeletedStaysDeleted
<1>1. TypeOK /\ [Next]_vars =>
        [\A t \in Todos :
           (todos[t] # NoRow /\ todos[t].deleted) => todos'[t] = todos[t]]_vars
  BY RowsOnlyGrow
<1> QED
  BY <1>1, TypeCorrect, PTL DEF Spec, DeletedStaysDeleted

\* Property RowIdentityIsStable: group and creator of a todo are for good, which
\* is what lets the API judge a change by a row it read earlier.
THEOREM IdentityIsStable == Spec => RowIdentityIsStable
<1>1. TypeOK /\ [Next]_vars =>
        [\A t \in Todos :
           todos[t] # NoRow =>
              /\ todos'[t] # NoRow
              /\ todos'[t].group = todos[t].group
              /\ todos'[t].creator = todos[t].creator]_vars
  BY RowsOnlyGrow
<1> QED
  BY <1>1, TypeCorrect, PTL DEF Spec, RowIdentityIsStable

------------------------------------------------------------------------------
(* Permission: from the row the API read to the row the sink changes.        *)

\* What the row of r.todo must say for a change r.
Permitted(r) ==
    /\ todos[r.todo] # NoRow
    /\ todos[r.todo].group = r.group
    /\ r.moderator \/ todos[r.todo].creator = r.actor

RequestsChecked ==
    \A h \in Handlers :
        api[h].pc = "accept" /\ api[h].req.action \in Changes => Permitted(api[h].req)

CommandsPermitted ==
    \A c \in 1 .. Len(commands) :
        commands[c].action \in Changes => Permitted(commands[c])

\* The row the API read still says the same when the command is published and
\* whenever it is projected.
Causality == RequestsChecked /\ CommandsPermitted

LEMMA PermittedIsStable ==
    ASSUME TypeOK, [Next]_vars, NEW r \in Request, Permitted(r)
    PROVE  Permitted(r)'
<1>1. r.todo \in Todos
  BY DEF Request
<1> QED
  BY <1>1, RowsOnlyGrow DEF Permitted

LEMMA CausalityIsInductive == TypeOK /\ Causality /\ [Next]_vars => Causality'
<1> SUFFICES ASSUME TypeOK, Causality, [Next]_vars PROVE Causality'
  OBVIOUS
<1>0. /\ \A r \in Requests : Permitted(r) => Permitted(r)'
      /\ commands \in Seq(Requests)
      /\ api \in [Handlers -> ApiState]
  BY RequestsAssumption, PermittedIsStable DEF TypeOK, ApiTypeOK
<1>1. ASSUME UNCHANGED <<api, commands>> PROVE Causality'
  BY <1>0, <1>1 DEF Causality, RequestsChecked, CommandsPermitted, ApiState, Idle
\* Handlers that start, go on or give up.
<1>2. ASSUME UNCHANGED commands, NEW h \in Handlers, NEW x \in ApiState,
             api' = [api EXCEPT ![h] = x],
             x.pc = "accept" /\ x.req.action \in Changes =>
                 x.req \in Requests /\ Permitted(x.req)
      PROVE  Causality'
  BY <1>0, <1>2 DEF Causality, RequestsChecked, CommandsPermitted, ApiState, Idle
\* A command is published.
<1>3. ASSUME NEW r \in Requests, commands' = Append(commands, r),
             r.action \in Changes => Permitted(r)
      PROVE  CommandsPermitted'
  <2>1. ASSUME NEW c \in 1 .. Len(commands')
        PROVE  commands'[c] = r \/ (c \in 1 .. Len(commands) /\ commands'[c] = commands[c])
    BY <1>0, <1>3
  <2>2. \A c \in 1 .. Len(commands) : commands[c] \in Requests
    BY <1>0
  <2> QED
    BY <1>0, <1>3, <2>1, <2>2 DEF Causality, CommandsPermitted
<1>4. ASSUME NEW h \in Handlers, api' = [api EXCEPT ![h] = Idle]
      PROVE  RequestsChecked'
  BY <1>0, <1>4 DEF Causality, RequestsChecked, ApiState, Idle
<1>5. ASSUME NEW h \in Handlers, NEW r \in Requests, Receive(h, r)
      PROVE  Causality'
  <2> DEFINE x == [pc |-> IF r.action \in Changes THEN "lookup" ELSE "accept", req |-> r]
  <2>1. x \in ApiState /\ (x.pc = "accept" => x.req.action \notin Changes)
    BY DEF ApiState
  <2>2. UNCHANGED commands /\ api' = [api EXCEPT ![h] = x]
    BY <1>5 DEF Receive
  <2> QED
    BY <1>2, <2>1, <2>2
<1>6. ASSUME NEW h \in Handlers, Lookup(h) PROVE Causality'
  <2>1. api[h].req \in Requests /\ api[h].req.todo \in Todos
    BY <1>0, <1>6, RequestsAssumption DEF Lookup, ApiState, Idle, Request
  <2>2. CASE MayChange(api[h].req) /\ api' # [api EXCEPT ![h] = Idle]
    <3> DEFINE x == [pc |-> "accept", req |-> api[h].req]
    <3>1. x \in ApiState /\ Permitted(x.req)
      BY <2>1, <2>2 DEF ApiState, Permitted, MayChange, Live
    <3> QED
      BY <1>2, <1>6, <2>1, <2>2, <3>1 DEF Lookup
  <2>3. CASE api' = [api EXCEPT ![h] = Idle]
    BY <1>2, <1>6, <2>3 DEF Lookup, ApiState, Idle
  <2> QED
    BY <1>6, <2>2, <2>3 DEF Lookup
<1>7. ASSUME NEW h \in Handlers, Reject(h) PROVE Causality'
  BY <1>2, <1>7 DEF Reject, ApiState, Idle
<1>8. ASSUME NEW h \in Handlers, NEW b \in BOOLEAN, Accept(h) \/ AcceptFails(h, b)
      PROVE  Causality'
  <2>1. /\ api[h].req \in Requests
        /\ api[h].req.action \in Changes => Permitted(api[h].req)
    BY <1>0, <1>8 DEF Accept, AcceptFails, ApiState, Idle, Causality, RequestsChecked
  <2>2. api' = [api EXCEPT ![h] = Idle]
    BY <1>8 DEF Accept, AcceptFails
  <2>3. CASE commands' = Append(commands, api[h].req)
    BY <1>3, <1>4, <2>1, <2>2, <2>3 DEF Causality
  <2>4. CASE UNCHANGED commands
    BY <1>2, <2>2, <2>4 DEF ApiState, Idle
  <2> QED
    BY <1>8, <2>3, <2>4 DEF Accept, AcceptFails
<1>9. ASSUME NEW r \in Requests, ForeignCommand(r) PROVE Causality'
  <2>1. CommandsPermitted'
    BY <1>3, <1>9 DEF ForeignCommand, Supported
  <2> QED
    BY <1>0, <1>9, <2>1
       DEF ForeignCommand, Causality, RequestsChecked, ApiState, Idle
<1>10. CASE EngineStep \/ SinkStep \/ UNCHANGED vars
  <2>1. UNCHANGED <<api, commands>>
    BY <1>10
       DEF EngineStep, EngineTake, EnginePublish, EngineAck, EngineAckLost, EngineFails,
           EngineDiscard, EngineCrash, CommandExpires, ForeignEventArrives,
           SinkStep, SinkTake, SinkCommit, SinkAck, SinkAckLost, SinkFails, SinkDiscard,
           SinkCrash, EventExpires, vars, apiVars
  <2> QED
    BY <1>1, <2>1
<1> QED
  BY <1>5, <1>6, <1>7, <1>8, <1>9, <1>10 DEF Next, ApiStep

\* Property ChangeIsPermitted: no update or delete in the stream lacks a row that
\* permits it, in this state and not only in the one the API saw.
THEOREM ChangesArePermitted == Spec => []ChangeIsPermitted
<1>1. Init => Causality
  BY DEF Init, Causality, RequestsChecked, CommandsPermitted, Idle
<1>2. Causality => ChangeIsPermitted
  BY DEF Causality, CommandsPermitted, ChangeIsPermitted, Permitted
<1> QED
  BY <1>1, <1>2, CausalityIsInductive, TypeCorrect, PTL DEF Spec

==============================================================================
