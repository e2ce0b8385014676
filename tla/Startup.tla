------------------------------- MODULE Startup -------------------------------
(***************************************************************************)
(* The services from their start to their end: each makes the tables and     *)
(* streams it needs, in loops that retry until a deadline, then serves until *)
(* it is told to stop.  They start in any order, at the same time, and while *)
(* Postgres or NATS come and go; one that gives up exits and is started      *)
(* again by its supervisor.                                                 *)
(*                                                                          *)
(* A statement of a schema, and a stream, is first looked for and then made, *)
(* and another service may make it in between.  The statements that only add *)
(* columns to a table belong to that table.  Deadlines and back-offs are     *)
(* counted in attempts.                                                     *)
(***************************************************************************)
EXTENDS Naturals, Sequences

CONSTANTS
    Services,      \* the processes
    Deployments,   \* and what they may run: functions from Services to Kinds
    MaxTries,      \* attempts until the deadline of a retry loop
    MaxOutages,    \* bound on outages of Postgres and NATS together
    MaxStops,      \* bound on SIGTERMs and failed listeners
    MaxRequests    \* bound on the requests a service handles at a time

Kinds == {"command-api", "sse-streamer", "domain-engine", "data-sink"}
Backends == {"postgres", "nats"}

ASSUME DeploymentAssumption == Deployments \subseteq [Services -> Kinds]
ASSUME BoundsAssumption ==
    /\ MaxTries \in Nat \ {0} /\ MaxOutages \in Nat /\ MaxStops \in Nat
    /\ MaxRequests \in Nat

\* Mutant: a table before what it refers to.
IdentitySchema_groupsFirst ==
    <<"groups", "users", "group_members", "refresh_tokens", "identity_indexes">>

\* PostgresRepository.EnsureSchema, EventRepository.EnsureSchema; the indexes,
\* which come last, as one.
IdentitySchema ==
    <<"users", "groups", "group_members", "refresh_tokens", "identity_indexes">>
SinkSchema ==
    <<"todo_events", "todos", "group_projection_offsets", "sink_indexes">>
EnsureStreams == <<"COMMANDS", "EVENTS">>

\* What must be there before a statement can succeed: REFERENCES, ON.
IdentityNeeds(o) ==
    CASE o \in {"groups", "refresh_tokens"} -> {"users"}
      [] o = "group_members" -> {"users", "groups"}
      [] o = "identity_indexes" -> {"group_members", "groups"}
      [] OTHER -> {}
SinkNeeds(o) == IF o = "sink_indexes" THEN {"todos", "todo_events"} ELSE {}
\* A consumer needs its stream.
QueueNeeds(o) ==
    CASE o = "domain-engine" -> {"COMMANDS"}
      [] o = "data-sink" -> {"EVENTS"}
      [] OTHER -> {}
Needs(o) == IdentityNeeds(o) \cup SinkNeeds(o) \cup QueueNeeds(o)

\* waitForIdentitySchema, waitForPostgres and ConnectJetStreamWithRetry retry;
\* a QueueSubscribe that fails ends the process.
OnPostgres(schema) == [on |-> "postgres", makes |-> schema, retries |-> TRUE]
ConnectJetStream == [on |-> "nats", makes |-> EnsureStreams, retries |-> TRUE]
QueueSubscribe(name) == [on |-> "nats", makes |-> <<name>>, retries |-> FALSE]

\* What each main does before it serves.
CommandApiStages == <<OnPostgres(IdentitySchema), ConnectJetStream>>
SseStreamerStages == <<OnPostgres(IdentitySchema), ConnectJetStream>>
DomainEngineStages == <<ConnectJetStream, QueueSubscribe("domain-engine")>>
DataSinkStages ==
    <<OnPostgres(SinkSchema), ConnectJetStream, QueueSubscribe("data-sink")>>

Stages(kind) ==
    CASE kind = "command-api" -> CommandApiStages
      [] kind = "sse-streamer" -> SseStreamerStages
      [] kind = "domain-engine" -> DomainEngineStages
      [] kind = "data-sink" -> DataSinkStages

Objects(kind) ==
    UNION { { Stages(kind)[i].makes[j] : j \in DOMAIN Stages(kind)[i].makes } :
              i \in DOMAIN Stages(kind) }

VARIABLES
    kindOf,     \* what each service runs, which never changes
    up,         \* Postgres and NATS
    made,       \* tables, indexes, streams and consumers there are
    pc,         \* what each service is at
    at,         \* its place in its stages: stage, statement, and whether it
                \* was looked for and is missing
    tries,      \* attempts of this stage so far
    conn,       \* its NATS connection
    requests,   \* requests it is handling
    told,       \* it has got a SIGTERM: runCtx is done
    outages, stops

boundVars == <<kindOf, outages, stops>>
vars == <<up, made, pc, at, tries, conn, requests, told, boundVars>>

ServesHttp(s) == kindOf[s] \in {"command-api", "sse-streamer"}

Begin == [stage |-> 1, step |-> 1, missing |-> FALSE]

TypeOK ==
    /\ kindOf \in Deployments
    /\ up \in [Backends -> BOOLEAN]
    /\ made \subseteq UNION { Objects(kind) : kind \in Kinds }
    /\ pc \in [Services -> {"starting", "serving", "stopping", "exited"}]
    /\ \A s \in Services :
         /\ at[s].stage \in DOMAIN Stages(kindOf[s])
         /\ at[s].step \in DOMAIN Stages(kindOf[s])[at[s].stage].makes
         /\ at[s].missing \in BOOLEAN
    /\ tries \in [Services -> 0 .. MaxTries - 1]
    /\ conn \in [Services -> {"none", "open", "lost", "closed"}]
    /\ requests \in [Services -> 0 .. MaxRequests]
    /\ told \in [Services -> BOOLEAN]
    /\ outages \in 0 .. MaxOutages /\ stops \in 0 .. MaxStops

Init ==
    /\ kindOf \in Deployments
    /\ up \in [Backends -> BOOLEAN]
    /\ made = {}
    /\ pc = [s \in Services |-> "starting"]
    /\ at = [s \in Services |-> Begin]
    /\ tries = [s \in Services |-> 0]
    /\ conn = [s \in Services |-> "none"]
    /\ requests = [s \in Services |-> 0]
    /\ told = [s \in Services |-> FALSE]
    /\ outages = 0 /\ stops = 0

------------------------------------------------------------------------------
(* Starting.                                                                 *)

Stage(s) == Stages(kindOf[s])[at[s].stage]
Object(s) == Stage(s).makes[at[s].step]

\* The statement is done: the next one, the next stage, or serving.
Advance(s) ==
    LET last == at[s].step = Len(Stage(s).makes)
        done == last /\ at[s].stage = Len(Stages(kindOf[s]))
    IN  /\ pc' = IF done THEN [pc EXCEPT ![s] = "serving"] ELSE pc
        /\ at' = IF done THEN [at EXCEPT ![s].missing = FALSE]
                 ELSE [at EXCEPT ![s] =
                         IF last THEN [Begin EXCEPT !.stage = at[s].stage + 1]
                         ELSE [at[s] EXCEPT !.step = @ + 1, !.missing = FALSE]]
        /\ tries' = IF last THEN [tries EXCEPT ![s] = 0] ELSE tries
        /\ conn' = IF last /\ Stage(s) = ConnectJetStream
                   THEN [conn EXCEPT ![s] = "open"] ELSE conn

\* Mutant: a statement that fails is passed over.
Fail_goesOn(s) == Advance(s)

\* It fails: the loop begins its stage again, or log.Fatal after the deadline.
Fail(s) ==
    IF Stage(s).retries /\ tries[s] + 1 < MaxTries
    THEN /\ tries' = [tries EXCEPT ![s] = @ + 1]
         /\ at' = [at EXCEPT ![s] = [Begin EXCEPT !.stage = at[s].stage]]
         /\ UNCHANGED <<pc, conn>>
    ELSE /\ pc' = [pc EXCEPT ![s] = "exited"]
         /\ conn' = [conn EXCEPT ![s] = "none"]
         /\ UNCHANGED <<at, tries>>

\* The statements of a schema are made under runCtx; NATS is not.
Reachable(s) ==
    /\ up[Stage(s).on]
    /\ IF Stage(s).on = "postgres" THEN ~ told[s] ELSE conn[s] \in {"none", "open"}

\* IF NOT EXISTS, StreamInfo, or the lookup of the consumer.
LookFor(s) ==
    /\ pc[s] = "starting" /\ ~ at[s].missing
    /\ Reachable(s)
    /\ IF Object(s) \in made THEN Advance(s)
       ELSE at' = [at EXCEPT ![s].missing = TRUE] /\ UNCHANGED <<pc, tries, conn>>
    /\ UNCHANGED <<up, made, requests, told, boundVars>>

\* It is made.  NATS accepts the same stream or consumer twice; Postgres reports
\* a duplicate to whoever was slower.
Make(s) ==
    /\ pc[s] = "starting" /\ at[s].missing
    /\ Reachable(s)
    /\ IF Needs(Object(s)) \subseteq made
          /\ (Object(s) \notin made \/ Stage(s).on = "nats")
       THEN made' = made \cup {Object(s)} /\ Advance(s)
       ELSE Fail(s) /\ UNCHANGED made
    /\ UNCHANGED <<up, requests, told, boundVars>>

\* Ping, connect, or a statement returns an error.
BackendAway(s) ==
    /\ pc[s] = "starting"
    /\ ~ Reachable(s)
    /\ Fail(s)
    /\ UNCHANGED <<up, made, requests, told, boundVars>>

\* The supervisor starts a process that has exited.
Restart(s) ==
    /\ pc[s] = "exited"
    /\ pc' = [pc EXCEPT ![s] = "starting"]
    /\ at' = [at EXCEPT ![s] = Begin]
    /\ tries' = [tries EXCEPT ![s] = 0]
    /\ requests' = [requests EXCEPT ![s] = 0]
    /\ told' = [told EXCEPT ![s] = FALSE]
    /\ UNCHANGED <<up, made, conn, boundVars>>

------------------------------------------------------------------------------
(* Serving and stopping.                                                     *)

BeginRequest(s) ==
    /\ pc[s] = "serving" /\ ServesHttp(s)
    /\ requests[s] < MaxRequests
    /\ requests' = [requests EXCEPT ![s] = @ + 1]
    /\ UNCHANGED <<up, made, pc, at, tries, conn, told, boundVars>>

EndRequest(s) ==
    /\ pc[s] \in {"serving", "stopping"}
    /\ requests[s] > 0
    /\ requests' = [requests EXCEPT ![s] = @ - 1]
    /\ UNCHANGED <<up, made, pc, at, tries, conn, told, boundVars>>

\* SIGTERM.  A service that is still starting goes on with its loops.
Terminate(s) ==
    /\ pc[s] \in {"starting", "serving"} /\ ~ told[s]
    /\ stops < MaxStops
    /\ stops' = stops + 1
    /\ told' = [told EXCEPT ![s] = TRUE]
    /\ UNCHANGED <<up, made, pc, at, tries, conn, requests, kindOf, outages>>

\* It ends the wait of main; the server takes no more requests.
BeginShutdown(s) ==
    /\ pc[s] = "serving" /\ told[s]
    /\ pc' = [pc EXCEPT ![s] = "stopping"]
    /\ UNCHANGED <<up, made, at, tries, conn, requests, told, boundVars>>

\* ListenAndServe returns an error: log.Fatal.
ListenFails(s) ==
    /\ pc[s] = "serving"
    /\ stops < MaxStops
    /\ stops' = stops + 1
    /\ pc' = [pc EXCEPT ![s] = "exited"]
    /\ conn' = [conn EXCEPT ![s] = "none"]
    /\ UNCHANGED <<up, made, at, tries, requests, told, kindOf, outages>>

\* The deferred Close of the NATS client and of the pool, and the end.
Exit(s) ==
    /\ pc' = [pc EXCEPT ![s] = "exited"]
    /\ conn' = [conn EXCEPT ![s] = "none"]

\* Shutdown waited for the requests that were being handled.
ShutdownDone(s) ==
    /\ pc[s] = "stopping"
    /\ requests[s] = 0
    /\ Exit(s)
    /\ UNCHANGED <<up, made, at, tries, requests, told, boundVars>>

\* Mutant: no timeout.
ShutdownTimesOut_never(s) == FALSE /\ UNCHANGED vars

\* SHUTDOWN_TIMEOUT: a stream of /events does not end by itself.
ShutdownTimesOut(s) ==
    /\ pc[s] = "stopping"
    /\ requests[s] > 0
    /\ Exit(s)
    /\ UNCHANGED <<up, made, at, tries, requests, told, boundVars>>

------------------------------------------------------------------------------
(* Postgres and NATS; the client library reconnects.                         *)

Lose(b) ==
    /\ up[b]
    /\ outages < MaxOutages
    /\ outages' = outages + 1
    /\ up' = [up EXCEPT ![b] = FALSE]
    /\ conn' = IF b = "nats"
               THEN [s \in Services |-> IF conn[s] = "open" THEN "lost" ELSE conn[s]]
               ELSE conn
    /\ UNCHANGED <<made, pc, at, tries, requests, told, kindOf, stops>>

Recover(b) ==
    /\ ~ up[b]
    /\ up' = [up EXCEPT ![b] = TRUE]
    /\ UNCHANGED <<made, pc, at, tries, conn, requests, told, boundVars>>

Reconnect(s) ==
    /\ conn[s] = "lost" /\ up["nats"]
    /\ conn' = [conn EXCEPT ![s] = "open"]
    /\ UNCHANGED <<up, made, pc, at, tries, requests, told, boundVars>>

\* After its last attempt the library closes the connection for good.
GiveUpReconnecting(s) ==
    /\ conn[s] = "lost" /\ ~ up["nats"]
    /\ conn' = [conn EXCEPT ![s] = "closed"]
    /\ UNCHANGED <<up, made, pc, at, tries, requests, told, boundVars>>

------------------------------------------------------------------------------
\* At each point at most one of these can be taken next, but for the two ends of
\* a Shutdown.
Run(s) ==
    \/ LookFor(s) \/ Make(s) \/ BackendAway(s) \/ Restart(s)
    \/ BeginShutdown(s) \/ ShutdownDone(s) \/ ShutdownTimesOut(s)

Next ==
    \/ \E s \in Services :
         \/ Run(s)
         \/ BeginRequest(s) \/ EndRequest(s)
         \/ Terminate(s) \/ ListenFails(s)
         \/ Reconnect(s) \/ GiveUpReconnecting(s)
    \/ \E b \in Backends : Lose(b) \/ Recover(b)

\* A process runs, its supervisor restarts it, Shutdown has a timeout and the
\* library reconnects.  Backends come back; requests need not end.
Fairness ==
    /\ \A s \in Services : WF_vars(Run(s)) /\ WF_vars(Reconnect(s))
    /\ \A b \in Backends : WF_vars(Recover(b))

Spec == Init /\ [][Next]_vars /\ Fairness

------------------------------------------------------------------------------
\* What /readyz answers.
checkCommandAPIReadiness(s) == conn[s] = "open" /\ up["postgres"]
checkSSEStreamerReadiness(s) == conn[s] = "open" /\ up["postgres"]
checkDataSinkReadiness(s) == conn[s] = "open" /\ up["postgres"]
checkDomainEngineReadiness(s) == conn[s] = "open"

Ready(s) ==
    /\ pc[s] = "serving"
    /\ CASE kindOf[s] = "command-api" -> checkCommandAPIReadiness(s)
         [] kindOf[s] = "sse-streamer" -> checkSSEStreamerReadiness(s)
         [] kindOf[s] = "data-sink" -> checkDataSinkReadiness(s)
         [] kindOf[s] = "domain-engine" -> checkDomainEngineReadiness(s)

\* Whatever races and outages there were while it started, a service that serves
\* has every table, stream and consumer it made or found on its way.
ServingIsEquipped ==
    \A s \in Services : pc[s] = "serving" => Objects(kindOf[s]) \subseteq made

\* Started in any order, over backends that come and go, every service becomes
\* ready for good, or its connection was away for so long that the library has
\* given it up (then nothing restarts it: /healthz always answers ok).
EveryServiceReady ==
    \A s \in Services : <>[](Ready(s) \/ conn[s] = "closed")

\* A service that is told to stop does, still starting or not, with streams open
\* or not.
EveryStopEnds ==
    \A s \in Services : told[s] ~> pc[s] = "exited"
==============================================================================
