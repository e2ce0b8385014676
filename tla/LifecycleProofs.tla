---------------------------- MODULE LifecycleProofs ----------------------------
(***************************************************************************)
(* For any number of services and users, any deadlines, and any number of     *)
(* outages, stops, requests and lost answers: a service that serves has all    *)
(* it needs, and what a user of the load generator takes for its todos is      *)
(* what the service has, but for the answers it never got.                     *)
(***************************************************************************)
EXTENDS MCLifecycle, FiniteSetTheorems, SequenceTheorems, WellFoundedInduction, TLAPS

------------------------------------------------------------------------------
(* The stages of the services.                                               *)

\* A list of steps to take, one after the other.
Steps(list) == Len(list) \in Nat \ {0} /\ DOMAIN list = 1 .. Len(list)

LEMMA StagesTyped ==
    ASSUME NEW kind \in Kinds
    PROVE  /\ Steps(Stages(kind))
           /\ \A i \in DOMAIN Stages(kind) : Steps(Stages(kind)[i].makes)
<1>1. Steps(IdentitySchema) /\ Steps(SinkSchema) /\ Steps(EnsureStreams)
  BY DEF IdentitySchema, SinkSchema, EnsureStreams, Steps
<1>2. \A name : Steps(<<name>>)
  BY DEF Steps
<1>3. /\ Steps(OnPostgres(IdentitySchema).makes) /\ Steps(OnPostgres(SinkSchema).makes)
      /\ Steps(ConnectJetStream.makes)
      /\ \A name : Steps(QueueSubscribe(name).makes)
  BY <1>1, <1>2 DEF OnPostgres, ConnectJetStream, QueueSubscribe
<1>4. /\ Steps(CommandApiStages) /\ Steps(SseStreamerStages)
      /\ Steps(DomainEngineStages) /\ Steps(DataSinkStages)
  BY DEF CommandApiStages, SseStreamerStages, DomainEngineStages, DataSinkStages, Steps
<1>5. \A i \in DOMAIN CommandApiStages : Steps(CommandApiStages[i].makes)
  BY <1>3 DEF CommandApiStages
<1>6. \A i \in DOMAIN DomainEngineStages : Steps(DomainEngineStages[i].makes)
  BY <1>3 DEF DomainEngineStages
<1>7. \A i \in DOMAIN DataSinkStages : Steps(DataSinkStages[i].makes)
  BY <1>3 DEF DataSinkStages
<1>8. SseStreamerStages = CommandApiStages
  BY DEF SseStreamerStages, CommandApiStages
<1>9. Stages(kind) \in
        {CommandApiStages, SseStreamerStages, DomainEngineStages, DataSinkStages}
  BY Zenon DEF Stages, Kinds
<1> QED  BY <1>4, <1>5, <1>6, <1>7, <1>8, <1>9

\* All is there that a service passes on its way to a place in its stages.
PassedAt(kind, stage, step, there) ==
    \A i \in DOMAIN Stages(kind), j \in Nat :
       /\ j \in DOMAIN Stages(kind)[i].makes
       /\ i < stage \/ (i = stage /\ j < step)
       => Stages(kind)[i].makes[j] \in there

Place == [stage : Nat, step : Nat, missing : BOOLEAN]

\* A service is at one of its statements and has passed those before it.
PlaceOK(s) ==
    /\ at[s] \in Place
    /\ at[s].stage \in DOMAIN Stages(kindOf[s])
    /\ at[s].step \in DOMAIN Stages(kindOf[s])[at[s].stage].makes
    /\ pc[s] = "starting" => PassedAt(kindOf[s], at[s].stage, at[s].step, made)

Inv ==
    /\ kindOf \in [Services -> Kinds]
    /\ at = [s \in Services |-> at[s]] /\ pc = [s \in Services |-> pc[s]]
    /\ \A s \in Services : PlaceOK(s)
    /\ ServingIsEquipped

LEMMA KindTyped == ASSUME Inv, NEW s \in Services PROVE kindOf[s] \in Kinds
  BY DEF Inv

LEMMA ObjectsArePassed ==
    ASSUME NEW kind \in Kinds, NEW there,
           PassedAt(kind, Len(Stages(kind)) + 1, 1, there)
    PROVE  Objects(kind) \subseteq there
<1> SUFFICES ASSUME NEW i \in DOMAIN Stages(kind), NEW j \in DOMAIN Stages(kind)[i].makes
             PROVE  Stages(kind)[i].makes[j] \in there
  BY DEF Objects
<1>1. i \in Nat /\ i < Len(Stages(kind)) + 1 /\ j \in Nat
  BY StagesTyped DEF Steps
<1> QED  BY <1>1 DEF PassedAt

\* The places a statement that is done leads to.
LEMMA NextPlaces ==
    ASSUME NEW p \in Place
    PROVE  /\ [Begin EXCEPT !.stage = p.stage + 1] \in Place
           /\ [Begin EXCEPT !.stage = p.stage + 1].stage = p.stage + 1
           /\ [Begin EXCEPT !.stage = p.stage + 1].step = 1
           /\ [p EXCEPT !.step = @ + 1, !.missing = FALSE] \in Place
           /\ [p EXCEPT !.step = @ + 1, !.missing = FALSE].stage = p.stage
           /\ [p EXCEPT !.step = @ + 1, !.missing = FALSE].step = p.step + 1
           /\ [p EXCEPT !.missing = FALSE] \in Place
           /\ [p EXCEPT !.missing = FALSE].stage = p.stage
           /\ [p EXCEPT !.missing = FALSE].step = p.step
           /\ [p EXCEPT !.missing = TRUE] \in Place
           /\ [p EXCEPT !.missing = TRUE].stage = p.stage
           /\ [p EXCEPT !.missing = TRUE].step = p.step
           /\ Begin \in Place /\ Begin.stage = 1 /\ Begin.step = 1
           /\ [Begin EXCEPT !.stage = p.stage] \in Place
           /\ [Begin EXCEPT !.stage = p.stage].stage = p.stage
           /\ [Begin EXCEPT !.stage = p.stage].step = 1
<1>1. Begin \in Place /\ Begin.stage = 1 /\ Begin.step = 1
  BY DEF Place, Begin
<1>2. ASSUME NEW n \in Nat
      PROVE  /\ [Begin EXCEPT !.stage = n] \in Place
             /\ [Begin EXCEPT !.stage = n].stage = n /\ [Begin EXCEPT !.stage = n].step = 1
  BY DEF Place, Begin
<1>3. ASSUME NEW q \in Place, NEW b \in BOOLEAN
      PROVE  /\ [q EXCEPT !.missing = b] \in Place
             /\ [q EXCEPT !.missing = b].stage = q.stage
             /\ [q EXCEPT !.missing = b].step = q.step
  BY DEF Place
<1> DEFINE q == [p EXCEPT !.step = @ + 1]
<1>4. q \in Place /\ q.stage = p.stage /\ q.step = p.step + 1
  BY DEF Place
<1>5. [p EXCEPT !.step = @ + 1, !.missing = FALSE] = [q EXCEPT !.missing = FALSE]
  BY DEF Place
<1>6. p.stage + 1 \in Nat /\ p.stage \in Nat
  BY DEF Place
<1> HIDE DEF q
<1> QED  BY <1>1, <1>2, <1>3, <1>4, <1>5, <1>6

\* A statement that is done is passed.
LEMMA AdvancePasses ==
    ASSUME Inv, NEW s \in Services, pc[s] = "starting", made \subseteq made',
           Object(s) \in made', kindOf' = kindOf, Advance(s)
    PROVE  /\ PlaceOK(s)'
           /\ pc'[s] = "serving" => (Objects(kindOf[s]) \subseteq made)'
           /\ at' = [q \in Services |-> at'[q]] /\ pc' = [q \in Services |-> pc'[q]]
           /\ \A q \in Services \ {s} : at'[q] = at[q] /\ pc'[q] = pc[q]
           /\ pc'[s] \in {"starting", "serving"}
<1> DEFINE k == kindOf[s]
           i == at[s].stage
           j == at[s].step
           next == [Begin EXCEPT !.stage = i + 1]
           more == [at[s] EXCEPT !.step = @ + 1, !.missing = FALSE]
           same == [at[s] EXCEPT !.missing = FALSE]
<1>1. /\ k \in Kinds /\ at[s] \in Place /\ i \in DOMAIN Stages(k)
      /\ j \in DOMAIN Stages(k)[i].makes /\ PassedAt(k, i, j, made)
  BY DEF Inv, PlaceOK
<1>2. /\ Len(Stages(k)) \in Nat \ {0} /\ DOMAIN Stages(k) = 1 .. Len(Stages(k))
      /\ \A n \in DOMAIN Stages(k) :
           /\ Len(Stages(k)[n].makes) \in Nat \ {0}
           /\ DOMAIN Stages(k)[n].makes = 1 .. Len(Stages(k)[n].makes)
  BY <1>1, StagesTyped DEF Steps
<1>3. Object(s) = Stages(k)[i].makes[j] /\ Stage(s) = Stages(k)[i]
  BY DEF Object, Stage
<1>4. /\ next \in Place /\ next.stage = i + 1 /\ next.step = 1
      /\ more \in Place /\ more.stage = i /\ more.step = j + 1
      /\ same \in Place /\ same.stage = i /\ same.step = j
  BY <1>1, NextPlaces
<1>5. PassedAt(k, i, j + 1, made')
  BY <1>1, <1>2, <1>3 DEF PassedAt
<1> DEFINE last == j = Len(Stages(k)[i].makes)
           done == last /\ i = Len(Stages(k))
<1>6. /\ pc' = IF done THEN [pc EXCEPT ![s] = "serving"] ELSE pc
      /\ ~ last => at' = [at EXCEPT ![s] = more]
      /\ last /\ ~ done => at' = [at EXCEPT ![s] = next]
      /\ done => at' = [at EXCEPT ![s] = same]
  BY <1>3 DEF Advance, Inv
<1> HIDE DEF next, more, same
<1>7. /\ at' = [q \in Services |-> at'[q]] /\ pc' = [q \in Services |-> pc'[q]]
      /\ \A q \in Services \ {s} : at'[q] = at[q] /\ pc'[q] = pc[q]
      /\ pc'[s] = IF done THEN "serving" ELSE "starting"
      /\ at'[s] = IF done THEN same ELSE IF last THEN next ELSE more
  BY <1>6 DEF Inv
<1>8. CASE ~ last
  <2>1. at'[s] = more /\ pc'[s] = "starting"
    BY <1>7, <1>8
  <2>2. j + 1 \in DOMAIN Stages(k)[i].makes
    BY <1>1, <1>2, <1>8
  <2>3. PlaceOK(s)'
    BY <1>1, <1>4, <1>5, <2>1, <2>2 DEF PlaceOK
  <2> QED  BY <1>7, <2>1, <2>3
<1>9. CASE last
  <2>1. PassedAt(k, i + 1, 1, made')
    BY <1>1, <1>2, <1>5, <1>9, SMTT(30) DEF PassedAt
  <2>2. CASE ~ done
    BY <1>1, <1>2, <1>4, <1>7, <1>9, <2>1, <2>2 DEF PlaceOK
  <2>3. CASE done
    <3>1. Objects(k) \subseteq made'
      BY <1>1, <2>1, <2>3, ObjectsArePassed
    <3> QED  BY <1>1, <1>4, <1>7, <2>3, <3>1 DEF PlaceOK, Objects
  <2> QED  BY <2>2, <2>3
<1> QED  BY <1>8, <1>9

\* A service that fails goes back to the start of its stage, or exits.
LEMMA FailKeeps ==
    ASSUME Inv, NEW s \in Services, pc[s] = "starting", made' = made,
           kindOf' = kindOf, Fail(s)
    PROVE  /\ PlaceOK(s)' /\ pc'[s] \in {"starting", "exited"}
           /\ at' = [q \in Services |-> at'[q]] /\ pc' = [q \in Services |-> pc'[q]]
           /\ \A q \in Services \ {s} : at'[q] = at[q] /\ pc'[q] = pc[q]
<1> DEFINE k == kindOf[s]
           i == at[s].stage
           again == [Begin EXCEPT !.stage = i]
<1>1. /\ k \in Kinds /\ at[s] \in Place /\ i \in DOMAIN Stages(k)
      /\ at[s].step \in DOMAIN Stages(k)[i].makes /\ PassedAt(k, i, at[s].step, made)
  BY DEF Inv, PlaceOK
<1>2. /\ DOMAIN Stages(k) \subseteq Nat
      /\ \A n \in DOMAIN Stages(k) :
           1 \in DOMAIN Stages(k)[n].makes /\ DOMAIN Stages(k)[n].makes \subseteq Nat \ {0}
  BY <1>1, StagesTyped DEF Steps
<1>3. again \in Place /\ again.stage = i /\ again.step = 1
  BY <1>1, NextPlaces
<1>4. PassedAt(k, i, 1, made)
  BY <1>1, <1>2 DEF PassedAt
<1>5. \/ at' = [at EXCEPT ![s] = again] /\ pc' = pc
      \/ at' = at /\ pc' = [pc EXCEPT ![s] = "exited"]
  BY DEF Fail
<1> HIDE DEF again
<1>6. CASE at' = [at EXCEPT ![s] = again] /\ pc' = pc
  <2>1. at'[s] = again
    BY <1>6 DEF Inv
  <2>2. PlaceOK(s)'
    BY <1>1, <1>2, <1>3, <1>4, <1>6, <2>1 DEF PlaceOK
  <2> QED  BY <1>6, <2>2 DEF Inv
<1>7. CASE at' = at /\ pc' = [pc EXCEPT ![s] = "exited"]
  BY <1>1, <1>7 DEF PlaceOK, Inv
<1> QED  BY <1>5, <1>6, <1>7

\* Whoever does not move keeps its place: nothing that was made goes away.
LEMMA OthersKeep ==
    ASSUME Inv, made \subseteq made', kindOf' = kindOf,
           at' = [q \in Services |-> at'[q]], pc' = [q \in Services |-> pc'[q]],
           \A q \in Services :
             \/ at'[q] = at[q] /\ pc'[q] = pc[q]
             \/ at'[q] = at[q] /\ pc'[q] \notin {"starting", "serving"}
             \/ PlaceOK(q)' /\ (pc'[q] = "serving" => (Objects(kindOf[q]) \subseteq made)')
    PROVE  Inv'
<1>1. ASSUME NEW q \in Services
      PROVE  PlaceOK(q)' /\ (pc'[q] = "serving" => (Objects(kindOf[q]) \subseteq made)')
  <2>1. PlaceOK(q) /\ (pc[q] = "serving" => Objects(kindOf[q]) \subseteq made)
    BY DEF Inv, ServingIsEquipped
  <2>2. (Objects(kindOf[q]) \subseteq made)' <=> Objects(kindOf[q]) \subseteq made'
    BY DEF Objects
  <2>3. CASE at'[q] = at[q] /\ pc'[q] = pc[q]
    <3>1. PlaceOK(q)'
      BY <2>1, <2>3 DEF PlaceOK, PassedAt
    <3> QED  BY <2>1, <2>2, <2>3, <3>1
  <2>4. CASE at'[q] = at[q] /\ pc'[q] \notin {"starting", "serving"}
    BY <2>1, <2>4 DEF PlaceOK
  <2> QED  BY <1>1, <2>3, <2>4
<1>2. ServingIsEquipped'
  BY <1>1 DEF ServingIsEquipped
<1> QED  BY <1>1, <1>2 DEF Inv

LEMMA StartingKeeps ==
    ASSUME Inv, NEW s \in Services, LookFor(s) \/ Make(s) \/ BackendAway(s)
    PROVE  Inv'
<1>1. pc[s] = "starting" /\ kindOf' = kindOf
  BY DEF LookFor, Make, BackendAway, boundVars
<1>2. CASE Advance(s) /\ Object(s) \in made' /\ made \subseteq made'
  BY <1>1, <1>2, AdvancePasses, OthersKeep
<1>3. CASE Fail(s) /\ made' = made
  BY <1>1, <1>3, FailKeeps, OthersKeep
<1>4. CASE at' = [at EXCEPT ![s].missing = TRUE] /\ pc' = pc /\ made' = made
  <2> DEFINE gone == [at[s] EXCEPT !.missing = TRUE]
  <2>1. PlaceOK(s)
    BY DEF Inv
  <2>2. gone \in Place /\ gone.stage = at[s].stage /\ gone.step = at[s].step
    BY <2>1, NextPlaces DEF PlaceOK
  <2>3. at' = [at EXCEPT ![s] = gone]
    BY <1>4
  <2> HIDE DEF gone
  <2>4. at'[s] = gone
    BY <2>3 DEF Inv
  <2>5. PlaceOK(s)'
    BY <1>1, <1>4, <2>1, <2>2, <2>4 DEF PlaceOK
  <2> QED  BY <1>1, <1>4, <2>3, <2>5, OthersKeep DEF Inv
<1>5. CASE LookFor(s)
  BY <1>2, <1>4, <1>5 DEF LookFor
<1>6. CASE Make(s)
  BY <1>2, <1>3, <1>6 DEF Make
<1>7. CASE BackendAway(s)
  BY <1>3, <1>7 DEF BackendAway
<1> QED  BY <1>5, <1>6, <1>7

LEMMA RestartKeeps == ASSUME Inv, NEW s \in Services, Restart(s) PROVE Inv'
<1>1. /\ at' = [at EXCEPT ![s] = Begin] /\ pc' = [pc EXCEPT ![s] = "starting"]
      /\ made' = made /\ kindOf' = kindOf
  BY DEF Restart, boundVars
<1>2. at'[s] = Begin /\ pc'[s] = "starting" /\ kindOf[s] \in Kinds
  BY <1>1 DEF Inv
<1>3. PlaceOK(s)'
  <2>1. Begin \in Place /\ Begin.stage = 1 /\ Begin.step = 1
    BY DEF Begin, Place
  <2>2. 1 \in DOMAIN Stages(kindOf[s]) /\ 1 \in DOMAIN Stages(kindOf[s])[1].makes
    BY <1>2, StagesTyped DEF Steps
  <2>3. PassedAt(kindOf[s], 1, 1, made)
    BY <1>2, StagesTyped DEF Steps, PassedAt
  <2> QED  BY <1>1, <1>2, <2>1, <2>2, <2>3 DEF PlaceOK
<1> QED  BY <1>1, <1>2, <1>3, OthersKeep DEF Inv

\* No other step begins to start or to serve.
LEMMA ServingKeeps ==
    ASSUME Inv,
           \/ \E s \in Services :
                \/ BeginShutdown(s) \/ ShutdownDone(s) \/ ShutdownTimesOut(s)
                \/ BeginRequest(s) \/ EndRequest(s) \/ Terminate(s) \/ ListenFails(s)
                \/ Reconnect(s) \/ GiveUpReconnecting(s)
           \/ \E b \in Backends : Lose(b) \/ Recover(b)
           \/ UNCHANGED vars
    PROVE  Inv'
<1>1. /\ at' = at /\ made' = made /\ kindOf' = kindOf
      /\ pc' = [q \in Services |-> pc'[q]]
      /\ \A q \in Services : pc'[q] = pc[q] \/ pc'[q] \notin {"starting", "serving"}
  BY DEF Inv, BeginShutdown, ShutdownDone, ShutdownTimesOut, Exit, BeginRequest, EndRequest,
         Terminate, ListenFails, Reconnect, GiveUpReconnecting, Lose, Recover, vars,
         boundVars
<1> QED  BY <1>1, OthersKeep DEF Inv

LEMMA StartupInvariance == Spec => []Inv
<1>1. Init => Inv
  <2> SUFFICES ASSUME Init  PROVE Inv
    OBVIOUS
  <2>1. kindOf \in [Services -> Kinds]
    BY DeploymentAssumption DEF Init
  <2>2. ASSUME NEW s \in Services  PROVE PlaceOK(s)
    <3>1. at[s] = Begin /\ Begin \in Place /\ Begin.stage = 1 /\ Begin.step = 1
      BY DEF Init, Begin, Place
    <3>2. 1 \in DOMAIN Stages(kindOf[s]) /\ 1 \in DOMAIN Stages(kindOf[s])[1].makes
      BY <2>1, StagesTyped DEF Steps
    <3>3. PassedAt(kindOf[s], 1, 1, made)
      BY <2>1, StagesTyped DEF Steps, PassedAt
    <3> QED  BY <3>1, <3>2, <3>3 DEF PlaceOK
  <2>3. ServingIsEquipped
    BY DEF Init, ServingIsEquipped
  <2> QED  BY <2>1, <2>2, <2>3 DEF Init, Inv
<1>2. Inv /\ [Next]_vars => Inv'
  BY StartingKeeps, RestartKeeps, ServingKeeps DEF Next, Run
<1> QED  BY <1>1, <1>2, PTL DEF Spec

\* Whatever races and outages there were while it started, a service that serves
\* has every table, stream and consumer it made or found on its way.
THEOREM ServesWithAllItNeeds == Spec => []ServingIsEquipped
<1>1. Inv => ServingIsEquipped
  BY DEF Inv
<1> QED  BY <1>1, StartupInvariance, PTL

\* What a statement refers to was made by an earlier one of its list.
InOrder(list) ==
    \A j \in DOMAIN list : \A need \in Needs(list[j]) :
        \E q \in DOMAIN list : q < j /\ list[q] = need

\* The statements of the schemas and the stages are in an order that works.
LEMMA StagesInOrder ==
    ASSUME NEW kind \in Kinds, NEW i \in DOMAIN Stages(kind),
           NEW j \in DOMAIN Stages(kind)[i].makes, NEW there,
           PassedAt(kind, i, j, there)
    PROVE  Needs(Stages(kind)[i].makes[j]) \subseteq there
<1>1. InOrder(IdentitySchema) /\ InOrder(SinkSchema) /\ InOrder(EnsureStreams)
  <2>1. /\ Needs("users") \subseteq {} /\ Needs("groups") \subseteq {"users"}
        /\ Needs("group_members") \subseteq {"users", "groups"}
        /\ Needs("refresh_tokens") \subseteq {"users"}
        /\ Needs("identity_indexes") \subseteq {"groups", "group_members"}
    BY DEF Needs, IdentityNeeds, SinkNeeds, QueueNeeds
  <2>2. /\ Needs("todo_events") \subseteq {} /\ Needs("todos") \subseteq {}
        /\ Needs("group_projection_offsets") \subseteq {}
        /\ Needs("sink_indexes") \subseteq {"todos", "todo_events"}
        /\ Needs("COMMANDS") \subseteq {} /\ Needs("EVENTS") \subseteq {}
    BY DEF Needs, IdentityNeeds, SinkNeeds, QueueNeeds
  <2>3. InOrder(IdentitySchema)
    BY <2>1 DEF IdentitySchema, InOrder
  <2>4. InOrder(SinkSchema)
    BY <2>2 DEF SinkSchema, InOrder
  <2>5. InOrder(EnsureStreams)
    BY <2>2 DEF EnsureStreams, InOrder
  <2> QED  BY <2>3, <2>4, <2>5
<1>2. CASE InOrder(Stages(kind)[i].makes)
  <2>1. /\ i \in Nat /\ j \in Nat
        /\ DOMAIN Stages(kind)[i].makes \subseteq Nat
    BY StagesTyped DEF Steps
  <2> QED  BY <1>2, <2>1 DEF InOrder, PassedAt
<1>3. \/ InOrder(Stages(kind)[i].makes)
      \/ /\ kind \in {"domain-engine", "data-sink"}
         /\ i - 1 \in DOMAIN Stages(kind) /\ i \in Nat
         /\ Stages(kind)[i - 1] = ConnectJetStream
         /\ Stages(kind)[i] = QueueSubscribe(kind)
  <2>1. /\ InOrder(OnPostgres(IdentitySchema).makes)
        /\ InOrder(OnPostgres(SinkSchema).makes)
        /\ InOrder(ConnectJetStream.makes)
    BY <1>1 DEF OnPostgres, ConnectJetStream
  <2>2. CASE kind \in {"command-api", "sse-streamer"}
    BY <2>1, <2>2 DEF Stages, CommandApiStages, SseStreamerStages
  <2>3. CASE kind = "domain-engine"
    BY <2>1, <2>3 DEF Stages, DomainEngineStages
  <2>4. CASE kind = "data-sink"
    BY <2>1, <2>4 DEF Stages, DataSinkStages
  <2> QED  BY <2>2, <2>3, <2>4 DEF Kinds
<1>4. CASE /\ kind \in {"domain-engine", "data-sink"}
           /\ i - 1 \in DOMAIN Stages(kind) /\ i \in Nat
           /\ Stages(kind)[i - 1] = ConnectJetStream
           /\ Stages(kind)[i] = QueueSubscribe(kind)
  <2>1. EnsureStreams[1] = "COMMANDS" /\ EnsureStreams[2] = "EVENTS"
        /\ DOMAIN EnsureStreams = 1 .. 2
    BY DEF EnsureStreams
  <2>2. \A q \in 1 .. 2 : EnsureStreams[q] \in there
    <3> SUFFICES ASSUME NEW q \in 1 .. 2  PROVE EnsureStreams[q] \in there
      OBVIOUS
    <3>1. Stages(kind)[i - 1].makes = EnsureStreams
      BY <1>4 DEF ConnectJetStream
    <3> QED  BY <1>4, <2>1, <3>1 DEF PassedAt
  <2>3. Stages(kind)[i].makes[j] = kind
    BY <1>4 DEF QueueSubscribe
  <2>4. Needs(kind) \subseteq {"COMMANDS", "EVENTS"}
    BY <1>4 DEF Needs, IdentityNeeds, SinkNeeds, QueueNeeds
  <2> QED  BY <2>1, <2>2, <2>3, <2>4
<1> QED  BY <1>2, <1>3, <1>4

\* Whoever is about to make a table, an index or a consumer finds what that refers to.
PrerequisitesAreMade ==
    \A s \in Services : pc[s] = "starting" => Needs(Object(s)) \subseteq made

\* However services start, stop and retry next to each other, no statement fails for
\* want of a table or stream it refers to: only because a backend is away, or because
\* another service has made the same table in between (EnsureSchema, QueueSubscribe).
THEOREM NothingIsMadeTooEarly == Spec => []PrerequisitesAreMade
<1>1. Inv => PrerequisitesAreMade
  BY StagesInOrder DEF Inv, PlaceOK, PrerequisitesAreMade, Object, Stage
<1> QED  BY <1>1, StartupInvariance, PTL

\* What the other variables hold.
ServicesTyped ==
    /\ kindOf \in Deployments
    /\ up \in [Backends -> BOOLEAN]
    /\ made \subseteq UNION { Objects(kind) : kind \in Kinds }
    /\ pc \in [Services -> {"starting", "serving", "stopping", "exited"}]
    /\ tries \in [Services -> 0 .. MaxTries - 1]
    /\ conn \in [Services -> {"none", "open", "lost", "closed"}]
    /\ requests \in [Services -> 0 .. MaxRequests]
    /\ told \in [Services -> BOOLEAN]
    /\ outages \in 0 .. MaxOutages /\ stops \in 0 .. MaxStops

LEMMA ServicesStayTyped ==
    ASSUME Inv, ServicesTyped, [Next]_vars  PROVE ServicesTyped'
<1> USE BoundsAssumption DEF ServicesTyped, boundVars
<1>1. ASSUME NEW s \in Services, Advance(s)
      PROVE  /\ pc' \in [Services -> {"starting", "serving", "stopping", "exited"}]
             /\ tries' \in [Services -> 0 .. MaxTries - 1]
             /\ conn' \in [Services -> {"none", "open", "lost", "closed"}]
  BY <1>1 DEF Advance
<1>2. ASSUME NEW s \in Services, Fail(s)
      PROVE  /\ pc' \in [Services -> {"starting", "serving", "stopping", "exited"}]
             /\ tries' \in [Services -> 0 .. MaxTries - 1]
             /\ conn' \in [Services -> {"none", "open", "lost", "closed"}]
  BY <1>2 DEF Fail
<1>3. ASSUME NEW s \in Services, LookFor(s)  PROVE ServicesTyped'
  BY <1>1, <1>3 DEF LookFor
<1>4. ASSUME NEW s \in Services, Make(s)  PROVE ServicesTyped'
  <2>1. Object(s) \in UNION { Objects(kind) : kind \in Kinds }
    <3>1. kindOf[s] \in Kinds /\ PlaceOK(s)
      BY DEF Inv
    <3>2. Object(s) \in Objects(kindOf[s])
      BY <3>1 DEF PlaceOK, Object, Stage, Objects
    <3> QED  BY <3>1, <3>2
  <2> QED  BY <1>1, <1>2, <1>4, <2>1 DEF Make
<1>5. ASSUME NEW s \in Services, BackendAway(s)  PROVE ServicesTyped'
  BY <1>2, <1>5 DEF BackendAway
<1>6. ASSUME NEW s \in Services, Restart(s)  PROVE ServicesTyped'
  BY <1>6 DEF Restart
<1>7. ASSUME NEW s \in Services, BeginRequest(s) \/ EndRequest(s)  PROVE ServicesTyped'
  <2>1. requests[s] \in 0 .. MaxRequests
    OBVIOUS
  <2>2. requests' \in [Services -> 0 .. MaxRequests]
    BY <1>7, <2>1 DEF BeginRequest, EndRequest
  <2> QED  BY <1>7, <2>2 DEF BeginRequest, EndRequest
<1>8. ASSUME NEW s \in Services,
             Terminate(s) \/ BeginShutdown(s) \/ ListenFails(s) \/ ShutdownDone(s)
               \/ ShutdownTimesOut(s)
      PROVE  ServicesTyped'
  <2>1. CASE Terminate(s)
    BY <2>1 DEF Terminate
  <2>2. CASE ListenFails(s)
    BY <2>2 DEF ListenFails
  <2>3. CASE ShutdownDone(s) \/ ShutdownTimesOut(s)
    BY <2>3 DEF ShutdownDone, ShutdownTimesOut, Exit
  <2>4. CASE BeginShutdown(s)
    BY <2>4 DEF BeginShutdown
  <2> QED  BY <1>8, <2>1, <2>2, <2>3, <2>4
<1>9. ASSUME NEW s \in Services, Reconnect(s) \/ GiveUpReconnecting(s)
      PROVE  ServicesTyped'
  <2>1. CASE Reconnect(s)
    BY <2>1 DEF Reconnect
  <2>2. CASE GiveUpReconnecting(s)
    BY <2>2 DEF GiveUpReconnecting
  <2> QED  BY <1>9, <2>1, <2>2
<1>10. ASSUME NEW b \in Backends, Lose(b) \/ Recover(b)  PROVE ServicesTyped'
  <2>1. CASE Lose(b)
    <3>1. conn' \in [Services -> {"none", "open", "lost", "closed"}]
      BY <2>1 DEF Lose
    <3> QED  BY <2>1, <3>1 DEF Lose
  <2>2. CASE Recover(b)
    BY <2>2 DEF Recover
  <2> QED  BY <1>10, <2>1, <2>2
<1>11. CASE UNCHANGED vars
  BY <1>11 DEF vars
<1> QED  BY <1>3, <1>4, <1>5, <1>6, <1>7, <1>8, <1>9, <1>10, <1>11 DEF Next, Run

\* A service is at a statement that there is, tries no more often than it may, and
\* what has been made belongs to some service.
THEOREM ServicesTypeCorrect == Spec => []TypeOK
<1>1. Init => ServicesTyped
  BY BoundsAssumption DEF Init, ServicesTyped
<1>2. Inv /\ ServicesTyped => TypeOK
  BY DEF Inv, PlaceOK, Place, ServicesTyped, TypeOK
<1> QED  BY <1>1, <1>2, StartupInvariance, ServicesStayTyped, PTL DEF Spec

------------------------------------------------------------------------------
(* The list of todos a user of the load generator keeps.                     *)

\* A set of places has a first one.
LEMMA Smallest == ASSUME NEW I \in SUBSET Nat, I # {} PROVE L!Min(I) \in I
<1>1. PICK n \in I : \A m \in I : n <= m
  <2> DEFINE less == { p \in Nat \X Nat : p[1] < p[2] }
  <2>1. IsWellFoundedOn(less, Nat)
    BY NatLessThanWellFounded DEF OpToRel
  <2>2. \A m, n \in Nat : m < n => <<m, n>> \in less
    OBVIOUS
  <2> HIDE DEF less
  <2>3. PICK n \in I : \A m \in I : ~ (<<m, n>> \in less)
    BY <2>1, WFMin
  <2>4. \A m \in I : n \in Nat /\ m \in Nat /\ ~ (m < n)
    BY <2>2, <2>3
  <2>5. \A m \in I : n <= m
    BY <2>4
  <2> QED  BY <2>5
<1> QED  BY <1>1 DEF L!Min

\* One entry is overwritten by the last one, which is cut off.
LEMMA RemoveTodo ==
    ASSUME NEW s \in Seq(Nat), L!IsInjective(s), NEW t
    PROVE  /\ L!removeTodo(s, t) \in Seq(Nat) /\ L!IsInjective(L!removeTodo(s, t))
           /\ L!ToSet(L!removeTodo(s, t)) = L!ToSet(s) \ {t}
<1>1. CASE ~ L!Contains(s, t)
  BY <1>1 DEF L!removeTodo, L!Contains, L!ToSet
<1>2. CASE L!Contains(s, t)
  <2> DEFINE I == { i \in 1 .. Len(s) : s[i] = t }
             i == L!SelectInSeq(s, LAMBDA x : x = t)
             r == L!Front([s EXCEPT ![i] = L!Last(s)])
  <2>1. I # {} /\ I \subseteq Nat
    BY <1>2 DEF L!Contains
  <2>2. i = L!Min(I)
    BY <2>1 DEF L!SelectInSeq
  <2>3. i \in 1 .. Len(s) /\ s[i] = t
    BY <2>1, <2>2, Smallest
  <2>4. L!removeTodo(s, t) = r
    BY <1>2 DEF L!removeTodo
  <2> HIDE DEF i
  <2> DEFINE q == [s EXCEPT ![i] = s[Len(s)]]
  <2>5. PICK n \in Nat \ {0} : n = Len(s) /\ DOMAIN s = 1 .. n /\ s[n] \in Nat
    BY <2>3
  <2>6. q \in Seq(Nat) /\ Len(q) = n
        /\ \A m \in 1 .. n : q[m] = IF m = i THEN s[n] ELSE s[m]
    BY <2>3, <2>5, ExceptSeq
  <2>7. r = SubSeq(q, 1, n - 1)
    BY <2>5, <2>6 DEF L!Front, L!Last
  <2> HIDE DEF q, r
  <2>8. \A m \in 1 .. n - 1 : q[m] \in Nat
    BY <2>6
  <2>9. r \in Seq(Nat) /\ Len(r) = n - 1 /\ \A m \in 1 .. n - 1 : r[m] = q[m]
    <3>1. /\ SubSeq(q, 1, n - 1) \in Seq(Nat)
          /\ Len(SubSeq(q, 1, n - 1)) = IF 1 <= n - 1 THEN (n - 1) - 1 + 1 ELSE 0
          /\ \A m \in 1 .. (n - 1) - 1 + 1 : SubSeq(q, 1, n - 1)[m] = q[1 + m - 1]
      BY <2>8, SubSeqProperties
    <3> QED  BY <2>7, <3>1
  <2>10. DOMAIN r = 1 .. n - 1
        /\ \A m \in 1 .. n - 1 : r[m] = IF m = i THEN s[n] ELSE s[m]
    BY <2>6, <2>9
  <2>11. \A a, b \in 1 .. n : s[a] = s[b] => a = b
    BY <2>5 DEF L!IsInjective
  <2>12. i \in 1 .. n /\ s[i] = t
    BY <2>3, <2>5
  <2>13. L!IsInjective(r)
    BY <2>10, <2>11, <2>12 DEF L!IsInjective
  <2>14. \A m \in 1 .. n - 1 : \E a \in 1 .. n : r[m] = s[a] /\ s[a] # t
    BY <2>10, <2>11, <2>12
  <2>15. ASSUME NEW a \in 1 .. n, s[a] # t  PROVE \E m \in 1 .. n - 1 : s[a] = r[m]
    BY <2>10, <2>12, <2>15
  <2>16. L!ToSet(r) = L!ToSet(s) \ {t}
    <3>1. L!ToSet(r) = { r[m] : m \in 1 .. n - 1 } /\ L!ToSet(s) = { s[a] : a \in 1 .. n }
      BY <2>5, <2>10 DEF L!ToSet
    <3>2. \A x : x \in L!ToSet(r) => x \in L!ToSet(s) \ {t}
      BY <2>14, <3>1
    <3>3. \A x : x \in L!ToSet(s) \ {t} => x \in L!ToSet(r)
      BY <2>15, <3>1
    <3> QED  BY <3>2, <3>3
  <2> QED  BY <2>4, <2>9, <2>13, <2>16
<1> QED  BY <1>1, <1>2

-----------------------------------------------------------------------------
(* The users of the load generator.                                          *)

Listed(u) == L!ToSet(todos[u])
Unlisted(u) == live[u] \ Listed(u)
Pending(u, what) == vu[u] = what /\ flight[u] = "accepted"
Tally == [creates : Nat, deletes : SUBSET Nat]

\* What a user keeps, and what the service has of it.
UserTyped(u) ==
    /\ todos[u] \in Seq(Nat) /\ L!IsInjective(todos[u])
    /\ created[u] \in Nat /\ live[u] \subseteq 1 .. created[u] /\ target[u] \in Nat
    /\ gaveUp[u] \in Tally /\ late[u] \in Tally
    /\ flight[u] # "none" => vu[u] \in L!InSetup \cup L!Commands

\* What it lists and the service no longer has; what a delete under way is for.
ListOK(u) ==
    /\ Listed(u) \subseteq 1 .. created[u]
    /\ late[u].deletes \subseteq gaveUp[u].deletes
    /\ gaveUp[u].deletes \subseteq 1 .. created[u]
    /\ Listed(u) \ live[u] \subseteq
         gaveUp[u].deletes \cup { t \in {target[u]} : Pending(u, "delete") }
    /\ vu[u] \in {"update", "delete"} /\ flight[u] # "none" => target[u] \in Listed(u)
    /\ Pending(u, "delete") => target[u] \notin live[u]

\* What the service has and it does not list; what a create under way has made.
CreatesOK(u) ==
    /\ Pending(u, "create") =>
         target[u] \in live[u] /\ target[u] \notin Listed(u) \cup gaveUp[u].deletes
    /\ Cardinality(Unlisted(u)) + late[u].creates
         <= gaveUp[u].creates + (IF Pending(u, "create") THEN 1 ELSE 0)

UserOK(u) == UserTyped(u) /\ ListOK(u) /\ CreatesOK(u)

Shape ==
    /\ todos = [u \in Users |-> todos[u]] /\ vu = [u \in Users |-> vu[u]]
    /\ flight = [u \in Users |-> flight[u]] /\ target = [u \in Users |-> target[u]]
    /\ created = [u \in Users |-> created[u]] /\ live = [u \in Users |-> live[u]]
    /\ late = [u \in Users |-> late[u]] /\ gaveUp = [u \in Users |-> gaveUp[u]]

\* Nobody does anything before the set-up is over, and every user is consistent.
LInv ==
    /\ L!Waiting => \A u \in Users : vu[u] = "none"
    /\ \A u \in Users : UserOK(u)
    /\ Shape

\* The todos of a user, and what it and the service know of them, stay.
ListsStay(u) ==
    /\ todos'[u] = todos[u] /\ created'[u] = created[u] /\ live'[u] = live[u]
    /\ late'[u] = late[u] /\ gaveUp'[u] = gaveUp[u]
Stays(u) ==
    ListsStay(u) /\ vu'[u] = vu[u] /\ flight'[u] = flight[u] /\ target'[u] = target[u]

LEMMA UserStays == ASSUME NEW u \in Users, UserOK(u), Stays(u) PROVE UserOK(u)'
  BY DEF UserOK, UserTyped, ListOK, CreatesOK, Stays, ListsStay, Listed, Unlisted, Pending

\* A request is begun, or comes to its end, without any effect on the lists.
LEMMA UserQuiet ==
    ASSUME NEW u \in Users, UserOK(u), ListsStay(u),
           ~ Pending(u, "create"), ~ Pending(u, "delete"),
           ~ Pending(u, "create")', ~ Pending(u, "delete")',
           target'[u] \in Nat,
           flight'[u] # "none" => vu'[u] \in L!InSetup \cup L!Commands,
           vu'[u] \in {"update", "delete"} /\ flight'[u] # "none" => target'[u] \in Listed(u)
    PROVE  UserOK(u)'
<1>1. Listed(u)' = Listed(u) /\ Unlisted(u)' = Unlisted(u)
  BY DEF ListsStay, Listed, Unlisted
<1>2. UserTyped(u)'
  BY DEF UserOK, UserTyped, ListsStay
<1>3. ListOK(u)'
  BY <1>1 DEF UserOK, ListOK, ListsStay
<1>4. CreatesOK(u)'
  BY <1>1 DEF UserOK, CreatesOK, ListsStay
<1> QED  BY <1>2, <1>3, <1>4 DEF UserOK

LEMMA UnlistedIsFinite ==
    ASSUME NEW u \in Users, UserTyped(u)
    PROVE  /\ IsFiniteSet(live[u]) /\ IsFiniteSet(Unlisted(u))
           /\ Cardinality(Unlisted(u)) \in Nat
<1>1. IsFiniteSet(1 .. created[u])
  BY FS_Interval DEF UserTyped
<1>2. IsFiniteSet(live[u])
  BY <1>1, FS_Subset DEF UserTyped
<1>3. IsFiniteSet(Unlisted(u))
  BY <1>2, FS_Subset DEF Unlisted
<1> QED  BY <1>2, <1>3, FS_CardinalityType

\* The fields of a tally that changes.
LEMMA TallyFields ==
    ASSUME NEW g \in Tally
    PROVE  /\ \A n \in Nat : /\ [g EXCEPT !.creates = n] \in Tally
                             /\ [g EXCEPT !.creates = n].creates = n
                             /\ [g EXCEPT !.creates = n].deletes = g.deletes
           /\ \A D \in SUBSET Nat : /\ [g EXCEPT !.deletes = D] \in Tally
                                    /\ [g EXCEPT !.deletes = D].creates = g.creates
                                    /\ [g EXCEPT !.deletes = D].deletes = D
  BY DEF Tally

-----------------------------------------------------------------------------
(* The service.                                                              *)

LEMMA CreateServed ==
    ASSUME NEW u \in Users, UserOK(u), created'[u] = created[u] + 1,
           live'[u] = live[u] \cup {created[u] + 1},
           todos'[u] = todos[u], vu'[u] = vu[u], gaveUp'[u] = gaveUp[u],
           \/ /\ vu[u] = "create" /\ flight[u] = "sent" /\ flight'[u] = "accepted"
              /\ target'[u] = created[u] + 1 /\ late'[u] = late[u]
           \/ /\ flight'[u] = flight[u] /\ target'[u] = target[u]
              /\ late'[u] \in Tally /\ late'[u].deletes = late[u].deletes
              /\ late'[u].creates = late[u].creates - 1
    PROVE  UserOK(u)'
<1> USE DEF UserOK
<1> DEFINE new == created[u] + 1
<1>1. /\ created[u] \in Nat /\ new \in Nat /\ live[u] \subseteq 1 .. created[u]
      /\ Listed(u) \subseteq 1 .. created[u] /\ gaveUp[u].deletes \subseteq 1 .. created[u]
      /\ target[u] \in Nat /\ gaveUp[u] \in Tally /\ late[u] \in Tally
      /\ late[u].deletes \subseteq gaveUp[u].deletes
  BY DEF UserTyped, ListOK
<1>2. /\ new \notin live[u] /\ new \notin Listed(u) /\ new \notin gaveUp[u].deletes
      /\ 1 .. created[u] \subseteq 1 .. new /\ new \in 1 .. new
  BY <1>1
<1>3. Listed(u)' = Listed(u) /\ Unlisted(u)' = Unlisted(u) \cup {new} /\ new \notin Unlisted(u)
  BY <1>2 DEF Listed, Unlisted
<1>4. Cardinality(Unlisted(u)') = Cardinality(Unlisted(u)) + 1
  BY <1>3, UnlistedIsFinite, FS_AddElement
<1>5. /\ late'[u] \in Tally /\ late'[u].deletes = late[u].deletes
      /\ late'[u].creates \in Nat /\ late[u].creates \in Nat /\ gaveUp[u].creates \in Nat
  BY <1>1 DEF Tally
<1>6. UserTyped(u)'
  BY <1>1, <1>2, <1>5 DEF UserTyped
<1>7. ListOK(u)'
  BY <1>1, <1>2, <1>3, <1>5 DEF ListOK, Pending
<1>8. Pending(u, "create")' =>
        target'[u] \in live'[u] /\ target'[u] \notin Listed(u) \cup gaveUp[u].deletes
  BY <1>2 DEF CreatesOK, Pending
<1>9. Cardinality(Unlisted(u)') + late'[u].creates
        <= gaveUp[u].creates + (IF Pending(u, "create")' THEN 1 ELSE 0)
  <2>1. Cardinality(Unlisted(u)) \in Nat
    BY UnlistedIsFinite
  <2>2. CASE vu[u] = "create" /\ flight[u] = "sent" /\ flight'[u] = "accepted"
             /\ late'[u] = late[u]
    <3>1. Cardinality(Unlisted(u)) + late[u].creates <= gaveUp[u].creates
      <4>1. ~ Pending(u, "create")
        BY <2>2 DEF Pending
      <4> QED  BY <1>5, <2>1, <4>1 DEF CreatesOK
    <3>2. Pending(u, "create")'
      BY <2>2 DEF Pending
    <3> QED  BY <1>4, <1>5, <2>1, <2>2, <3>1, <3>2
  <2>3. CASE flight'[u] = flight[u] /\ late'[u].creates = late[u].creates - 1
    <3>2. Pending(u, "create")' <=> Pending(u, "create")
      BY <2>3 DEF Pending
    <3>3. Cardinality(Unlisted(u)) + late[u].creates
            <= gaveUp[u].creates + (IF Pending(u, "create") THEN 1 ELSE 0)
      BY DEF CreatesOK
    <3> QED  BY <1>4, <1>5, <2>1, <2>3, <3>2, <3>3
  <2> QED  BY <2>2, <2>3
<1> QED  BY <1>3, <1>6, <1>7, <1>8, <1>9 DEF CreatesOK

LEMMA DeleteServed ==
    ASSUME NEW u \in Users, UserOK(u), NEW t, live'[u] = live[u] \ {t},
           created'[u] = created[u], todos'[u] = todos[u], vu'[u] = vu[u],
           gaveUp'[u] = gaveUp[u], target'[u] = target[u],
           \/ /\ vu[u] = "delete" /\ flight[u] = "sent" /\ flight'[u] = "accepted"
              /\ t = target[u] /\ late'[u] = late[u]
           \/ /\ flight'[u] = flight[u]
              /\ t \in late[u].deletes
              /\ late'[u] \in Tally /\ late'[u].creates = late[u].creates
              /\ late'[u].deletes \subseteq late[u].deletes
    PROVE  UserOK(u)'
<1> USE DEF UserOK
<1>1. Listed(u)' = Listed(u) /\ Unlisted(u)' = Unlisted(u) \ {t}
  BY DEF Listed, Unlisted
<1>2. /\ late'[u] \in Tally /\ late'[u].creates = late[u].creates
      /\ late'[u].deletes \subseteq late[u].deletes
  BY DEF UserTyped
<1>3. UserTyped(u)'
  BY <1>2 DEF UserTyped
<1>4. ListOK(u)'
  BY <1>1, <1>2 DEF ListOK, Pending
<1>5. Pending(u, "create")' <=> Pending(u, "create")
  BY DEF Pending
<1>6. Pending(u, "create") => t # target[u]
  BY DEF Pending, CreatesOK, ListOK
<1>7. Cardinality(Unlisted(u)') \in Nat /\ Cardinality(Unlisted(u)') <= Cardinality(Unlisted(u))
      /\ Cardinality(Unlisted(u)) \in Nat
  BY <1>1, UnlistedIsFinite, FS_Subset, FS_CardinalityType
<1>8. late[u].creates \in Nat /\ gaveUp[u].creates \in Nat
  BY DEF UserTyped, Tally
<1>9. Cardinality(Unlisted(u)') + late'[u].creates
        <= gaveUp[u].creates + (IF Pending(u, "create")' THEN 1 ELSE 0)
  <2>1. Cardinality(Unlisted(u)) + late[u].creates
          <= gaveUp[u].creates + (IF Pending(u, "create") THEN 1 ELSE 0)
    BY DEF CreatesOK
  <2> QED  BY <1>2, <1>5, <1>7, <1>8, <2>1
<1>10. CreatesOK(u)'
  BY <1>1, <1>5, <1>6, <1>9 DEF CreatesOK
<1> QED  BY <1>3, <1>4, <1>10

-----------------------------------------------------------------------------
(* Answers, and requests given up.                                           *)

\* A request has come to its end.
Rests(u) == vu'[u] = "idle" /\ flight'[u] = "none" /\ target'[u] = 0

LEMMA AddTodo ==
    ASSUME NEW s \in Seq(Nat), L!IsInjective(s), NEW t \in Nat, t \notin L!ToSet(s)
    PROVE  /\ L!addTodo(s, t) \in Seq(Nat) /\ L!IsInjective(L!addTodo(s, t))
           /\ L!ToSet(L!addTodo(s, t)) = L!ToSet(s) \cup {t}
<1> DEFINE r == Append(s, t)
<1>1. /\ r \in Seq(Nat) /\ Len(r) = Len(s) + 1 /\ Len(s) \in Nat
      /\ DOMAIN r = 1 .. Len(s) + 1 /\ DOMAIN s = 1 .. Len(s)
      /\ \A i \in 1 .. Len(s) : r[i] = s[i]
      /\ r[Len(s) + 1] = t
  OBVIOUS
<1>2. L!addTodo(s, t) = r
  BY DEF L!addTodo
<1> HIDE DEF r
<1>3. \A i \in 1 .. Len(s) : s[i] # t
  BY <1>1 DEF L!ToSet
<1>4. L!IsInjective(r)
  <2> SUFFICES ASSUME NEW i \in 1 .. Len(s) + 1, NEW j \in 1 .. Len(s) + 1, r[i] = r[j]
               PROVE  i = j
    BY <1>1 DEF L!IsInjective
  <2>1. CASE i \in 1 .. Len(s) /\ j \in 1 .. Len(s)
    BY <1>1, <2>1 DEF L!IsInjective
  <2>2. CASE i = Len(s) + 1 \/ j = Len(s) + 1
    BY <1>1, <1>3, <2>2
  <2> QED  BY <1>1, <2>1, <2>2
<1>5. \A x : x \in L!ToSet(r) <=> x \in L!ToSet(s) \cup {t}
  BY <1>1, SMTT(30) DEF L!ToSet
<1> QED  BY <1>1, <1>2, <1>4, <1>5

LEMMA CreateAnswered ==
    ASSUME NEW u \in Users, UserOK(u), Pending(u, "create"), Rests(u),
           todos'[u] = L!addTodo(todos[u], target[u]),
           created'[u] = created[u], live'[u] = live[u], late'[u] = late[u],
           gaveUp'[u] = gaveUp[u]
    PROVE  UserOK(u)'
<1> USE DEF UserOK
<1>1. target[u] \in Nat /\ target[u] \in live[u] /\ target[u] \notin Listed(u)
      /\ target[u] \notin gaveUp[u].deletes
  BY DEF UserTyped, CreatesOK
<1>2. /\ todos'[u] \in Seq(Nat) /\ L!IsInjective(todos'[u])
      /\ Listed(u)' = Listed(u) \cup {target[u]}
  BY <1>1, AddTodo DEF UserTyped, Listed
<1>3. Unlisted(u)' = Unlisted(u) \ {target[u]} /\ target[u] \in Unlisted(u)
  BY <1>1, <1>2 DEF Unlisted
<1>4. Cardinality(Unlisted(u)') = Cardinality(Unlisted(u)) - 1
  BY <1>3, UnlistedIsFinite, FS_RemoveElement
<1>5. ~ Pending(u, "create")' /\ ~ Pending(u, "delete")' /\ ~ Pending(u, "delete")
  BY DEF Pending, Rests
<1>6. UserTyped(u)'
  BY <1>2 DEF UserTyped, Rests
<1>7. ListOK(u)'
  <2>1. Listed(u) \ live[u] \subseteq gaveUp[u].deletes
    BY <1>5 DEF ListOK
  <2>2. Listed(u)' \subseteq 1 .. created[u] /\ Listed(u)' \ live[u] \subseteq gaveUp[u].deletes
    BY <1>1, <1>2, <2>1 DEF ListOK, UserTyped
  <2> QED  BY <1>5, <2>2 DEF ListOK, Rests
<1>8. CreatesOK(u)'
  <2>1. Cardinality(Unlisted(u)) + late[u].creates <= gaveUp[u].creates + 1
    BY DEF CreatesOK
  <2>2. late[u].creates \in Nat /\ gaveUp[u].creates \in Nat /\ Cardinality(Unlisted(u)) \in Nat
    BY UnlistedIsFinite DEF UserTyped, Tally
  <2>3. Cardinality(Unlisted(u)') + late'[u].creates <= gaveUp'[u].creates
    BY <1>4, <2>1, <2>2
  <2> QED  BY <1>5, <2>2, <2>3 DEF CreatesOK
<1> QED  BY <1>6, <1>7, <1>8

LEMMA DeleteAnswered ==
    ASSUME NEW u \in Users, UserOK(u), Pending(u, "delete"), Rests(u),
           todos'[u] = L!removeTodo(todos[u], target[u]),
           created'[u] = created[u], live'[u] = live[u], late'[u] = late[u],
           gaveUp'[u] = gaveUp[u]
    PROVE  UserOK(u)'
<1> USE DEF UserOK
<1>1. /\ todos'[u] \in Seq(Nat) /\ L!IsInjective(todos'[u])
      /\ Listed(u)' = Listed(u) \ {target[u]}
  BY RemoveTodo DEF UserTyped, Listed
<1>2. target[u] \notin live[u] /\ Unlisted(u)' = Unlisted(u)
  BY <1>1 DEF ListOK, Unlisted
<1>3. ~ Pending(u, "create")' /\ ~ Pending(u, "delete")' /\ ~ Pending(u, "create")
  BY DEF Pending, Rests
<1>4. UserTyped(u)'
  BY <1>1 DEF UserTyped, Rests
<1>5. ListOK(u)'
  BY <1>1, <1>3 DEF ListOK, Rests
<1>6. CreatesOK(u)'
  BY <1>2, <1>3 DEF CreatesOK
<1> QED  BY <1>4, <1>5, <1>6

LEMMA CreateGivenUp ==
    ASSUME NEW u \in Users, UserOK(u), vu[u] = "create", Rests(u),
           todos'[u] = todos[u], created'[u] = created[u], live'[u] = live[u],
           gaveUp'[u] = [gaveUp[u] EXCEPT !.creates = @ + 1],
           \/ flight[u] = "sent" /\ late'[u] = [late[u] EXCEPT !.creates = @ + 1]
           \/ flight[u] # "sent" /\ late'[u] = late[u]
    PROVE  UserOK(u)'
<1> USE DEF UserOK
<1> DEFINE less(g) == [g EXCEPT !.creates = @ + 1]
<1>1. \A g \in Tally : /\ less(g) \in Tally /\ less(g).deletes = g.deletes
                       /\ less(g).creates = g.creates + 1 /\ g.creates \in Nat
  BY DEF Tally
<1>2. gaveUp'[u] = less(gaveUp[u]) /\ gaveUp[u] \in Tally /\ late[u] \in Tally
  BY DEF UserTyped
<1>3. (late'[u] = less(late[u]) /\ flight[u] = "sent") \/ late'[u] = late[u]
  OBVIOUS
<1> HIDE DEF less
<1>4. /\ gaveUp'[u] \in Tally /\ gaveUp'[u].deletes = gaveUp[u].deletes
      /\ gaveUp'[u].creates = gaveUp[u].creates + 1
      /\ late'[u] \in Tally /\ late'[u].deletes = late[u].deletes
      /\ \/ late'[u].creates = late[u].creates + 1 /\ flight[u] = "sent"
         \/ late'[u].creates = late[u].creates
      /\ gaveUp[u].creates \in Nat /\ late[u].creates \in Nat
  BY <1>1, <1>2, <1>3
<1>5. ~ Pending(u, "create")' /\ ~ Pending(u, "delete")' /\ ~ Pending(u, "delete")
  BY DEF Pending, Rests
<1>6. Listed(u)' = Listed(u) /\ Unlisted(u)' = Unlisted(u) /\ Cardinality(Unlisted(u)) \in Nat
  BY UnlistedIsFinite DEF Listed, Unlisted
<1>7. UserTyped(u)'
  BY <1>4 DEF UserTyped, Rests
<1>8. ListOK(u)'
  BY <1>4, <1>5, <1>6 DEF ListOK, Rests
<1>9. CreatesOK(u)'
  <2>1. Cardinality(Unlisted(u)) + late[u].creates
          <= gaveUp[u].creates + (IF Pending(u, "create") THEN 1 ELSE 0)
    BY DEF CreatesOK
  <2>2. flight[u] = "sent" => ~ Pending(u, "create")
    BY DEF Pending
  <2>3. Cardinality(Unlisted(u)) + late'[u].creates <= gaveUp'[u].creates
    BY <1>4, <1>6, <2>1, <2>2
  <2> QED  BY <1>4, <1>5, <1>6, <2>3 DEF CreatesOK
<1> QED  BY <1>7, <1>8, <1>9

LEMMA DeleteGivenUp ==
    ASSUME NEW u \in Users, UserOK(u), vu[u] = "delete", flight[u] # "none", Rests(u),
           todos'[u] = todos[u], created'[u] = created[u], live'[u] = live[u],
           gaveUp'[u] = [gaveUp[u] EXCEPT !.deletes = @ \cup {target[u]}],
           \/ late'[u] = [late[u] EXCEPT !.deletes = @ \cup {target[u]}]
           \/ late'[u] = late[u]
    PROVE  UserOK(u)'
<1> USE DEF UserOK
<1> DEFINE less(g) == [g EXCEPT !.deletes = @ \cup {target[u]}]
<1>1. \A g \in Tally : /\ less(g) \in Tally /\ less(g).creates = g.creates
                       /\ less(g).deletes = g.deletes \cup {target[u]}
  BY DEF Tally, UserTyped
<1>2. gaveUp'[u] = less(gaveUp[u]) /\ gaveUp[u] \in Tally /\ late[u] \in Tally
  BY DEF UserTyped
<1>3. late'[u] = less(late[u]) \/ late'[u] = late[u]
  OBVIOUS
<1> HIDE DEF less
<1>4. /\ gaveUp'[u] \in Tally /\ gaveUp'[u].creates = gaveUp[u].creates
      /\ gaveUp'[u].deletes = gaveUp[u].deletes \cup {target[u]}
      /\ late'[u] \in Tally /\ late'[u].creates = late[u].creates
      /\ late'[u].deletes \subseteq late[u].deletes \cup {target[u]}
  BY <1>1, <1>2, <1>3
<1>5. ~ Pending(u, "create")' /\ ~ Pending(u, "delete")' /\ ~ Pending(u, "create")
  BY DEF Pending, Rests
<1>6. Listed(u)' = Listed(u) /\ Unlisted(u)' = Unlisted(u)
  BY DEF Listed, Unlisted
<1>7. UserTyped(u)'
  BY <1>4 DEF UserTyped, Rests
<1>8. ListOK(u)'
  BY <1>4, <1>5, <1>6 DEF ListOK, Rests
<1>9. CreatesOK(u)'
  BY <1>4, <1>5, <1>6 DEF CreatesOK
<1> QED  BY <1>7, <1>8, <1>9

-----------------------------------------------------------------------------
(* The steps of a user, of its requests and of its stream.                   *)

\* It alone moves.
Turn(u) ==
    /\ UserOK(u)' /\ Shape' /\ main' = main
    /\ vu'[u] = vu[u] \/ vu[u] # "none"
    /\ \A v \in Users \ {u} : Stays(v)

LEMMA UserTurns ==
    ASSUME LInv, NEW u \in Users,
           \/ L!UserStep(u) \/ L!UserLeaves(u) \/ L!runAction(u) \/ L!Refuse(u)
    PROVE  Turn(u)
<1> USE DEF LInv, Shape
<1>1. UserOK(u)
  OBVIOUS
<1>2. /\ ListsStay(u) /\ Shape' /\ main' = main
      /\ \A v \in Users \ {u} : Stays(v)
  BY DEF L!UserStep, L!UserLeaves, L!AcquirePermit, L!ReleasePermit, L!StartActing,
         L!LeaveRampUp, L!LeaveIdle, L!runAction, L!Refuse, L!Send, L!mainVars,
         L!serviceVars, L!boundVars, ListsStay, Stays
<1>3. CASE L!AcquirePermit(u)
  <2>1. vu[u] = "waiting" /\ vu'[u] = "register" /\ flight'[u] = "sent" /\ target'[u] = 0
    BY <1>3 DEF L!AcquirePermit, L!Send, L!NoTodo
  <2>2. UserOK(u)'
    BY <1>1, <1>2, <2>1, UserQuiet DEF Pending, L!InSetup
  <2> QED  BY <1>2, <2>1, <2>2 DEF Turn
<1>4. CASE L!ReleasePermit(u) \/ L!StartActing(u) \/ L!LeaveRampUp(u) \/ L!LeaveIdle(u)
  <2>1. /\ vu[u] \in {"reported", "ramp up", "idle"} /\ flight'[u] = flight[u]
        /\ vu'[u] \in {"set up", "idle", "ended"} /\ target'[u] = target[u]
    BY <1>4 DEF L!ReleasePermit, L!StartActing, L!LeaveRampUp, L!LeaveIdle
  <2>2. flight[u] = "none" /\ target[u] \in Nat
    BY <1>1, <2>1 DEF UserOK, UserTyped, L!InSetup, L!Commands
  <2>3. UserOK(u)'
    BY <1>1, <1>2, <2>1, <2>2, UserQuiet DEF Pending
  <2> QED  BY <1>2, <2>1, <2>3 DEF Turn
<1>5. CASE L!runAction(u)
  <2>1. /\ vu[u] = "idle" /\ flight'[u] = "sent"
        /\ \/ vu'[u] = "create" /\ target'[u] = 0
           \/ vu'[u] \in {"update", "delete"} /\ target'[u] \in Listed(u)
    BY <1>5 DEF L!runAction, L!Send, L!NoTodo, L!ToSet, Listed
  <2>2. Listed(u) \subseteq Nat
    BY <1>1 DEF UserOK, UserTyped, Listed, L!ToSet
  <2>3. UserOK(u)'
    BY <1>1, <1>2, <2>1, <2>2, UserQuiet DEF Pending, L!Commands
  <2> QED  BY <1>2, <2>1, <2>3 DEF Turn
<1>6. CASE L!Refuse(u)
  <2>1. /\ flight[u] = "sent" /\ flight'[u] = "refused"
        /\ vu'[u] = vu[u] /\ target'[u] = target[u]
    BY <1>6 DEF L!Refuse
  <2>2. /\ target[u] \in Nat /\ vu[u] \in L!InSetup \cup L!Commands
        /\ vu[u] \in {"update", "delete"} => target[u] \in Listed(u)
    BY <1>1, <2>1 DEF UserOK, UserTyped, ListOK
  <2>3. UserOK(u)'
    BY <1>1, <1>2, <2>1, <2>2, UserQuiet DEF Pending
  <2> QED  BY <1>2, <2>1, <2>3 DEF Turn
<1> QED  BY <1>3, <1>4, <1>5, <1>6 DEF L!UserStep, L!UserLeaves

LEMMA ServiceTurns ==
    ASSUME LInv, NEW u \in Users, L!Serve(u) \/ L!ServeLate(u)
    PROVE  Turn(u)
<1> USE DEF LInv, Shape
<1>1. UserOK(u)
  OBVIOUS
<1>2. /\ Shape' /\ main' = main /\ todos' = todos /\ vu' = vu /\ gaveUp' = gaveUp
      /\ \A v \in Users \ {u} : Stays(v)
  BY DEF L!Serve, L!ServeLate, L!Create, L!Delete, L!mainVars, L!boundVars, ListsStay, Stays
<1>3. target[u] \in Nat /\ late[u] \in Tally
  BY <1>1 DEF UserOK, UserTyped
<1>4. CASE L!Serve(u)
  <2>1. flight[u] = "sent" /\ late' = late
    BY <1>4 DEF L!Serve
  <2>2. CASE vu[u] = "create"
    <3>1. /\ flight'[u] = "accepted" /\ target'[u] = created[u] + 1
          /\ created'[u] = created[u] + 1 /\ live'[u] = live[u] \cup {created[u] + 1}
      BY <1>4, <2>2 DEF L!Serve, L!Create
    <3>2. UserOK(u)'
      BY <1>1, <1>2, <2>1, <2>2, <3>1, CreateServed
    <3> QED  BY <1>2, <3>2 DEF Turn
  <2>3. CASE vu[u] = "delete"
    <3>1. /\ flight'[u] = "accepted" /\ target'[u] = target[u]
          /\ created'[u] = created[u] /\ live'[u] = live[u] \ {target[u]}
      BY <1>4, <2>3 DEF L!Serve, L!Delete
    <3>2. UserOK(u)'
      BY <1>1, <1>2, <2>1, <2>3, <3>1, DeleteServed
    <3> QED  BY <1>2, <3>2 DEF Turn
  <2>4. CASE vu[u] \notin {"create", "delete"}
    <3>1. /\ flight'[u] \in {"accepted", "conflict"} /\ target'[u] = target[u]
          /\ created'[u] = created[u] /\ live'[u] = live[u]
      BY <1>4, <2>4 DEF L!Serve
    <3>2. /\ vu[u] \in L!InSetup \cup L!Commands
          /\ vu[u] = "update" => target[u] \in Listed(u)
      BY <1>1, <2>1 DEF UserOK, UserTyped, ListOK
    <3>3. ListsStay(u)
      BY <1>2, <2>1, <3>1 DEF ListsStay
    <3>4. UserOK(u)'
      BY <1>1, <1>2, <1>3, <2>1, <2>4, <3>1, <3>2, <3>3, UserQuiet DEF Pending
    <3> QED  BY <1>2, <3>4 DEF Turn
  <2> QED  BY <2>2, <2>3, <2>4
<1>5. CASE L!ServeLate(u)
  <2>1. flight' = flight /\ target' = target
    BY <1>5 DEF L!ServeLate
  <2>2. CASE /\ late[u].creates > 0
             /\ late' = [late EXCEPT ![u].creates = @ - 1]
             /\ L!Create(u)
    <3> DEFINE n == late[u].creates - 1
    <3>1. n \in Nat /\ late'[u] = [late[u] EXCEPT !.creates = n]
      BY <1>3, <2>2 DEF Tally
    <3> HIDE DEF n
    <3>2. /\ late'[u] \in Tally /\ late'[u].deletes = late[u].deletes /\ late'[u].creates = n
      BY <1>3, <3>1, TallyFields
    <3>3. created'[u] = created[u] + 1 /\ live'[u] = live[u] \cup {created[u] + 1}
      BY <2>2 DEF L!Create
    <3>4. UserOK(u)'
      BY <1>1, <1>2, <2>1, <3>2, <3>3, CreateServed DEF n
    <3> QED  BY <1>2, <3>4 DEF Turn
  <2>3. ASSUME NEW t \in late[u].deletes,
               late' = [late EXCEPT ![u].deletes = @ \ {t}], L!Delete(u, t)
        PROVE  Turn(u)
    <3> DEFINE D == late[u].deletes \ {t}
    <3>1. D \in SUBSET Nat /\ late'[u] = [late[u] EXCEPT !.deletes = D]
      BY <1>3, <2>3 DEF Tally
    <3>2. D \subseteq late[u].deletes
      OBVIOUS
    <3> HIDE DEF D
    <3>3. /\ late'[u] \in Tally /\ late'[u].creates = late[u].creates /\ late'[u].deletes = D
      BY <1>3, <3>1, TallyFields
    <3>4. created'[u] = created[u] /\ live'[u] = live[u] \ {t}
      BY <2>3 DEF L!Delete
    <3>5. UserOK(u)'
      BY <1>1, <1>2, <2>1, <3>2, <3>3, <3>4, DeleteServed
    <3> QED  BY <1>2, <3>5 DEF Turn
  <2> QED  BY <1>5, <2>2, <2>3 DEF L!ServeLate
<1> QED  BY <1>4, <1>5

LEMMA AnswerTurns ==
    ASSUME LInv, NEW u \in Users, L!RequestSucceeds(u)
    PROVE  Turn(u)
<1> USE DEF LInv, Shape
<1>1. UserOK(u)
  OBVIOUS
<1>2. /\ UNCHANGED <<created, live, late, gaveUp>> /\ main' = main
      /\ Shape' /\ \A v \in Users \ {u} : Stays(v)
  BY DEF L!RequestSucceeds, L!setupSingleUser, L!ActionSucceeds, L!Send, L!Report,
         L!serviceVars, L!boundVars, ListsStay, Stays
<1>3. target[u] \in Nat /\ todos' = [v \in Users |-> todos'[v]]
  BY <1>1, <1>2 DEF UserOK, UserTyped
<1>4. CASE L!setupSingleUser(u)
  <2>1. ListsStay(u)
    BY <1>2, <1>4 DEF L!setupSingleUser, ListsStay
  <2>2. /\ vu[u] \in L!InSetup
        /\ \/ vu'[u] \in L!InSetup /\ target'[u] = 0
           \/ vu'[u] = "reported" /\ flight'[u] = "none" /\ target'[u] = target[u]
    BY <1>4 DEF L!setupSingleUser, L!Send, L!Report, L!InSetup, L!NoTodo
  <2>3. UserOK(u)'
    BY <1>1, <1>3, <2>1, <2>2, UserQuiet DEF Pending, L!InSetup
  <2>4. vu[u] # "none"
    BY <2>2 DEF L!InSetup
  <2> QED  BY <1>2, <2>3, <2>4 DEF Turn
<1>5. CASE L!ActionSucceeds(u)
  <2>1. vu[u] \in L!Commands /\ flight[u] = "accepted" /\ Rests(u)
    BY <1>5 DEF L!ActionSucceeds, Rests, L!NoTodo
  <2>2. CASE vu[u] = "create"
    <3>1. todos'[u] = L!addTodo(todos[u], target[u])
      BY <1>5, <2>2 DEF L!ActionSucceeds
    <3>2. UserOK(u)'
      BY <1>1, <1>2, <2>1, <2>2, <3>1, CreateAnswered DEF Pending
    <3> QED  BY <1>2, <2>2, <3>2 DEF Turn
  <2>3. CASE vu[u] = "delete"
    <3>1. todos'[u] = L!removeTodo(todos[u], target[u])
      BY <1>5, <2>3 DEF L!ActionSucceeds
    <3>2. UserOK(u)'
      BY <1>1, <1>2, <2>1, <2>3, <3>1, DeleteAnswered DEF Pending
    <3> QED  BY <1>2, <2>3, <3>2 DEF Turn
  <2>4. CASE vu[u] = "update"
    <3>1. todos'[u] = todos[u]
      BY <1>5, <2>4 DEF L!ActionSucceeds
    <3>2. ListsStay(u)
      BY <1>2, <3>1 DEF ListsStay
    <3>3. UserOK(u)'
      BY <1>1, <2>1, <2>4, <3>2, UserQuiet DEF Pending, Rests
    <3> QED  BY <1>2, <2>4, <3>3 DEF Turn
  <2> QED  BY <2>1, <2>2, <2>3, <2>4 DEF L!Commands
<1> QED  BY <1>4, <1>5 DEF L!RequestSucceeds

LEMMA FailureTurns ==
    ASSUME LInv, NEW u \in Users, L!RequestFails(u)
    PROVE  Turn(u)
<1> USE DEF LInv, Shape
<1>1. UserOK(u)
  OBVIOUS
<1>2. /\ UNCHANGED <<created, live, todos>> /\ main' = main
      /\ Shape' /\ \A v \in Users \ {u} : Stays(v)
  BY DEF L!RequestFails, L!Report, L!boundVars, ListsStay, Stays
<1>3. /\ flight[u] # "none" /\ flight'[u] = "none" /\ target'[u] = 0
      /\ gaveUp'[u] = IF flight[u] = "refused" THEN gaveUp[u] ELSE L!GivenUp(gaveUp[u], u)
      /\ late'[u] = IF flight[u] = "sent" THEN L!GivenUp(late[u], u) ELSE late[u]
      /\ vu'[u] = IF vu[u] \in L!InSetup THEN "reported" ELSE "idle"
  BY DEF L!RequestFails, L!Report, L!MayFail, L!NoTodo
<1>4. vu[u] \in L!InSetup \cup L!Commands /\ vu[u] # "none"
  BY <1>1, <1>3 DEF UserOK, UserTyped, L!InSetup, L!Commands
<1>5. CASE vu[u] = "create" /\ flight[u] # "refused"
  <2>1. \A g : L!GivenUp(g, u) = [g EXCEPT !.creates = @ + 1]
    BY <1>5 DEF L!GivenUp
  <2>2. Rests(u)
    BY <1>3, <1>5 DEF Rests, L!InSetup
  <2>3. UserOK(u)'
    BY <1>1, <1>2, <1>3, <1>5, <2>1, <2>2, CreateGivenUp
  <2> QED  BY <1>2, <1>4, <2>3 DEF Turn
<1>6. CASE vu[u] = "delete" /\ flight[u] # "refused"
  <2>1. \A g : L!GivenUp(g, u) = [g EXCEPT !.deletes = @ \cup {target[u]}]
    BY <1>6 DEF L!GivenUp
  <2>2. Rests(u)
    BY <1>3, <1>6 DEF Rests, L!InSetup
  <2>3. UserOK(u)'
    BY <1>1, <1>2, <1>3, <1>6, <2>1, <2>2, DeleteGivenUp
  <2> QED  BY <1>2, <1>4, <2>3 DEF Turn
<1>7. CASE vu[u] \notin {"create", "delete"} \/ flight[u] = "refused"
  <2>1. gaveUp'[u] = gaveUp[u] /\ late'[u] = late[u]
    BY <1>3, <1>7 DEF L!GivenUp
  <2>2. ListsStay(u)
    BY <1>2, <2>1 DEF ListsStay
  <2>3. UserOK(u)'
    BY <1>1, <1>3, <1>7, <2>2, UserQuiet DEF Pending
  <2> QED  BY <1>2, <1>4, <2>3 DEF Turn
<1> QED  BY <1>5, <1>6, <1>7

LEMMA StreamTurns ==
    ASSUME LInv, NEW u \in Users, L!StreamStep(u)
    PROVE  Turn(u)
<1>1. UserOK(u) /\ Shape
  BY DEF LInv
<1>2. UNCHANGED <<todos, vu, flight, target, created, live, late, gaveUp, main>>
  BY DEF L!StreamStep, L!ConnectSSE, L!SSEOpened, L!SSERefused, L!SSEBroken, L!SSEReconnect,
         L!SSELoopEnds, L!restOfSSE, L!mainVars, L!serviceVars
<1>3. \A v \in Users : Stays(v)
  BY <1>2 DEF Stays, ListsStay
<1>4. UserOK(u)'
  BY <1>1, <1>3, UserStays
<1>5. Shape'
  BY <1>1, <1>2 DEF Shape
<1> QED  BY <1>2, <1>3, <1>4, <1>5 DEF Turn

LEMMA TurnKeeps == ASSUME LInv, NEW u \in Users, Turn(u) PROVE LInv'
<1>1. ASSUME NEW v \in Users  PROVE UserOK(v)'
  BY UserStays DEF LInv, Turn
<1>2. ASSUME L!Waiting'  PROVE \A v \in Users : vu'[v] = "none"
  <2>1. \A v \in Users : vu[v] = "none"
    BY <1>2 DEF LInv, Turn, L!Waiting
  <2> QED  BY <2>1 DEF Turn, Stays
<1> QED  BY <1>1, <1>2 DEF LInv, Turn

\* The main goroutine lets the users begin, and counts them.
LEMMA MainKeeps ==
    ASSUME LInv, L!MainStep \/ L!ProbeFails \/ L!Expire \/ UNCHANGED L!vars
    PROVE  LInv'
<1>1. /\ UNCHANGED <<todos, flight, target, created, live, late, gaveUp>>
      /\ vu' = [u \in Users |-> vu'[u]]
  BY DEF LInv, Shape, L!MainStep, L!waitForHTTPStatus, L!waitForDependencies_fails,
         L!CollectResult, L!SetupComplete, L!Complete, L!ProbeFails, L!Expire,
         L!restOfWaiting,
         L!mainVars, L!serviceVars, L!boundVars, L!vars
<1>2. \A u \in Users :
        \/ vu'[u] = vu[u]
        \/ vu[u] \in {"none", "set up"} /\ vu'[u] \in {"waiting", "ramp up", "ended"}
  BY DEF LInv, Shape, L!Waiting, L!MainStep, L!waitForHTTPStatus,
     L!waitForDependencies_fails,
         L!CollectResult, L!SetupComplete, L!Complete, L!ProbeFails, L!Expire,
         L!restOfWaiting,
         L!mainVars, L!vars
<1>3. L!Waiting' => L!Waiting /\ vu' = vu
  BY DEF L!Waiting, L!MainStep, L!waitForHTTPStatus, L!waitForDependencies_fails,
         L!CollectResult, L!SetupComplete, L!Complete, L!ProbeFails, L!Expire,
         L!restOfWaiting,
         L!mainVars, L!vars
<1>4. ASSUME NEW u \in Users  PROVE UserOK(u)'
  <2>1. UserOK(u) /\ ListsStay(u) /\ flight'[u] = flight[u] /\ target'[u] = target[u]
    BY <1>1 DEF LInv, ListsStay
  <2>2. CASE vu'[u] = vu[u]
    BY <2>1, <2>2, UserStays DEF Stays
  <2>3. CASE vu[u] \in {"none", "set up"} /\ vu'[u] \in {"waiting", "ramp up", "ended"}
    <3>1. flight[u] = "none" /\ target[u] \in Nat
      BY <2>1, <2>3 DEF UserOK, UserTyped, L!InSetup, L!Commands
    <3> QED  BY <2>1, <2>3, <3>1, UserQuiet DEF Pending
  <2> QED  BY <1>2, <2>2, <2>3
<1> QED  BY <1>1, <1>3, <1>4 DEF LInv, Shape

LEMMA LoadInvariance == L!Spec => []LInv
<1>1. L!Init => LInv
  <2> SUFFICES ASSUME L!Init  PROVE LInv
    OBVIOUS
  <2>1. Shape /\ \A u \in Users : vu[u] = "none" /\ flight[u] = "none"
    BY DEF L!Init, Shape
  <2>2. ASSUME NEW u \in Users  PROVE UserOK(u)
    <3>1. /\ todos[u] = <<>> /\ created[u] = 0 /\ live[u] = {} /\ target[u] = 0
          /\ gaveUp[u] = [creates |-> 0, deletes |-> {}]
          /\ late[u] = [creates |-> 0, deletes |-> {}]
      BY DEF L!Init, L!NoTodo
    <3>2. Listed(u) = {} /\ Unlisted(u) = {} /\ L!IsInjective(todos[u])
      BY <3>1 DEF Listed, Unlisted, L!ToSet, L!IsInjective
    <3>3. UserTyped(u)
      BY <2>1, <3>1, <3>2 DEF UserTyped, Tally
    <3>4. ListOK(u)
      BY <2>1, <3>1, <3>2 DEF ListOK, Pending
    <3>5. CreatesOK(u)
      BY <2>1, <3>1, <3>2, FS_EmptySet DEF CreatesOK, Pending
    <3> QED  BY <3>3, <3>4, <3>5 DEF UserOK
  <2> QED  BY <2>1, <2>2 DEF LInv
<1>2. LInv /\ [L!Next]_L!vars => LInv'
  BY MainKeeps, TurnKeeps, UserTurns, ServiceTurns, AnswerTurns, FailureTurns, StreamTurns
     DEF L!Next, L!RequestEnds, L!Stopped
<1> QED  BY <1>1, <1>2, PTL DEF L!Spec

\* The two copies of FiniteSets agree.
LEMMA SameCardinality == \A T : L!Cardinality(T) = Cardinality(T)
  BY DEF L!Cardinality, Cardinality

\* What a user takes for its todos differs from what the service has only by
\* answers that never came, however many requests were given up and handled late.
THEOREM ListsMatch == L!Spec => []ListMatchesService
<1>1. ASSUME LInv, NEW u \in Users
      PROVE  /\ L!IsInjective(todos[u]) /\ Listed(u) \subseteq 1 .. created[u]
             /\ Listed(u) \ live[u] \subseteq
                  gaveUp[u].deletes \cup
                    { t \in {target[u]} : vu[u] = "delete" /\ flight[u] # "none" }
             /\ L!Cardinality(Unlisted(u)) <=
                  gaveUp[u].creates +
                    (IF vu[u] = "create" /\ flight[u] # "none" THEN 1 ELSE 0)
  <2>1. UserTyped(u) /\ ListOK(u) /\ CreatesOK(u)
    BY <1>1 DEF LInv, UserOK
  <2>2. Listed(u) \ live[u] \subseteq
          gaveUp[u].deletes \cup
            { t \in {target[u]} : vu[u] = "delete" /\ flight[u] # "none" }
    BY <2>1 DEF ListOK, Pending
  <2>3. L!Cardinality(Unlisted(u)) <=
          gaveUp[u].creates + (IF vu[u] = "create" /\ flight[u] # "none" THEN 1 ELSE 0)
    <3>1. /\ Cardinality(Unlisted(u)) \in Nat
          /\ late[u].creates \in Nat /\ gaveUp[u].creates \in Nat
      BY <2>1, UnlistedIsFinite DEF UserTyped, Tally
    <3>2. Pending(u, "create") => vu[u] = "create" /\ flight[u] # "none"
      BY DEF Pending
    <3>3. Cardinality(Unlisted(u)) + late[u].creates
            <= gaveUp[u].creates + (IF Pending(u, "create") THEN 1 ELSE 0)
      BY <2>1 DEF CreatesOK
    <3> QED  BY <3>1, <3>2, <3>3, SameCardinality
  <2> QED  BY <2>1, <2>2, <2>3 DEF UserTyped, ListOK
<1>2. LInv => ListMatchesService
  BY <1>1 DEF ListMatchesService, L!ListMatchesService, Listed, Unlisted
<1> QED  BY LoadInvariance, <1>2, PTL

------------------------------------------------------------------------------
(* The two halves together.                                                  *)

\* The load generator takes no step of a service, and no service one of its: what
\* is proved of each, without a use of fairness, holds of what TLC runs.
LEMMA HalvesOfLifecycle ==
    MCSpec => /\ Init /\ [][Next]_vars
              /\ L!Init /\ [][L!Next]_(L!vars)
<1>1. MCInit => Init /\ L!Init
  BY DEF MCInit
<1>2. [MCNext]_<<part, vars, loadVars>> => [Next]_vars
  BY DEF MCNext
<1>3. [MCNext]_<<part, vars, loadVars>> => [L!Next]_(L!vars)
  BY DEF MCNext, loadVars, L!vars, L!mainVars, L!serviceVars, L!boundVars
<1> QED  BY <1>1, <1>2, <1>3, PTL DEF MCSpec
==============================================================================
