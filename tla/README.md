# A TLA+ model of todo-1M

todo-1M is a group todo service in Go, split into four processes around NATS
JetStream and Postgres. This directory models its core logic in TLA+, checks the
models with TLC on small instances and proves nearly all the safety they claim, for
every instance, with TLAPS. Line numbers refer to the sources in `src/`.

## 1. The system

### Parts, state, operations

| part | state | operations | module |
|---|---|---|---|
| command API, todo commands (`internal/app/commandapi`, `query.GetTodoByID`) | none of its own; a request in progress | `POST /api/v1/command`: role, look at the read model, validation, publish to stream COMMANDS | `TodoPipeline` |
| domain engine (`cmd/domain-engine`, `internal/app/domainengine`) | inbox of its queue subscription | `Handle`: command → event, under a callback that sends Ack, Nak or Term | `TodoPipeline` |
| data sink (`cmd/data-sink`, `internal/app/datasink`) | tables `todo_events`, `todos`, `group_projection_offsets` | `InsertEvent`, one transaction, under a callback with Ack, Nak or Term | `TodoPipeline` |
| JetStream (external) | streams COMMANDS and EVENTS, one durable queue consumer on each | first delivery in order, redelivery until settled | `QueueConsumer` |
| waiting for the projection (`waitForCommandProjection`, `waitForGroupProjection`, `internal/app/query`) | none of its own | poll `todo_events` or the offset, then list | `BoardReads` |
| read endpoints and access checks (`/api/v1/todos`, `/ui/workspace`, `/events`, `canEdit`) | a page or a stream in progress | membership and role, then todos, then buttons | `GroupAccess` |
| identity: groups (`internal/app/identity`) | tables `groups`, `group_members` | create, delete, add member, change role: a check, then a write | `GroupRoles`, `Memberships` |
| identity: accounts (`internal/app/identity`) | tables `users`, `refresh_tokens` | register, login, refresh, logout: one statement at a time | `Sessions` |
| rate limiter (`commandapi/http.go`) | the map `clients` | `Allow` with its sweep | `RateLimiter` |
| SSE streamer, a stream per user (`cmd/sse-streamer`) | `userStreamRegistry.byUser` | `Replace`, `Release`, `Cancel`; `/events`, `/events/disconnect` | `UserStreams` |
| SSE streamer, group fan-out | `groupStreamRegistry.byGroup`, `groupStream` | `Subscribe`, `addSubscriber`, `ensureSubscription`, `removeSubscriber` | `GroupFanout` |
| SSE streamer, snapshots | `pendingSeq`, `refreshTimer`, the subscribers' channels | broadcast, debounce, wait for the projection, list, broadcast | `SnapshotRefresh` |
| metrics (`internal/platform/metrics`) | the registry; the locks of the maps its gauge functions count | a scrape, and all that takes the same locks | `Metrics` |
| start, readiness, shut-down (the four `main`s, `EnsureSchema`, `EnsureStreams`, `natsutil`) | tables, streams, consumers; a process and its connection | retry loops, `/readyz`, SIGTERM, `Shutdown` with a timeout | `Startup` |
| load generator (`cmd/load-generator`) | `simulatedUser.todos`, the channel of `setupUsers` | wait, set up, act, follow `/events`, stop | `LoadGenerator` |

Not modelled, with the reason: access tokens (signing and parsing of one
request, no state), sharding (a checksum that names a subject; both consumers take
every subject), the connection pool and the environment (settings read once), the
gauges that are set and the counter vectors of the metrics (each a map under a lock
of its own), the frontend (templates) and the deployment.

### How they interact

1. The API reads the actor's role and, for an update or a delete, the row of the
   todo; then it publishes a command. It answers 202 when it has seen the event in
   `todo_events`, or when that took too long.
2. A domain engine takes the command from its queue, publishes an event and
   acknowledges the command. An error before the Ack brings the command back.
3. A data sink takes the event, applies it in one transaction (the event row, the
   todo row, the offset of the group) and acknowledges it.
4. The API's next check reads what the sinks wrote: a loop through two queues
   with any number of workers on each.
5. The SSE streamer receives the same events straight from JetStream, once per
   group, and pushes them to the connections. For the board it waits until the
   offset of the group has reached the event, lists the todos and pushes the list.
6. Each of these requests asks the identity tables for a role or a membership, which
   other requests change meanwhile; nothing spans both in a transaction.
7. The load generator is a client of all of it: it keeps a list of the todos it
   believes in and never reads the real one.

### What is hard about it

* Nothing in the pipeline is deduplicated by id: a failed publish that did store
  its message, a lost Ack and a crashed worker all lead to a second event or to a
  second application of the same event, possibly long after later ones.
* The decision (the row was read, group and author compared) and its effect
  (the event is applied) are separated by two queues.
* The statements of the sink are silent when the row is not there or is deleted
  and never compare the group: they are right only if the API looked first.
* Every group operation and every token operation is a check in one statement and
  a write in another.
* The three registries of the streamer are maps under locks that are released
  around the calls that matter: cancelling a context, calling NATS, waiting for
  the projection, sending to channels.
* The limiter reads the clock before it takes its mutex.
* Four processes make the same tables and streams at the same time, over backends
  that come and go, and are told to stop at any moment.

`PROJECT.json` lists these hazards one by one, at their lines, with the properties
that would catch them.

## 2. The modules

```
QueueConsumer            operators: one durable queue consumer, one queue member
  ├─ TodoPipeline        command API ∥ engines ∥ sinks ∥ Postgres
  │    │   refines TodoReadModel (INSTANCE ... WITH, property ImplementsReadModel)
  │    ├─ MCTodoPipeline     request sets and symmetry for TLC
  │    └─ TodoPipelineProofs            types, rows, permission
  │         └─ TodoProjectionProofs     what the tables say of the applied events;
  │                                     nothing is lost; the refinement
  └─ BoardReads          clients and boards that wait ∥ sinks ∥ tables
GroupRoles               refines Memberships (property ImplementsMemberships)
  └─ MCGroupRoles        its run of a claim that fails
GroupAccess              readers and commands over Memberships, which it INSTANCEs
SnapshotRefresh ─ SnapshotRefreshProofs
UserStreams   Sessions   RateLimiter   GroupFanout   Metrics   Startup   LoadGenerator

MCIdentity  = GroupRoles  + Sessions       ─ IdentityProofs
MCRequests  = RateLimiter + GroupAccess    ─ RequestsProofs
MCEvents    = BoardReads  + GroupFanout    ─ EventsProofs
MCLifecycle = Startup     + LoadGenerator  ─ LifecycleProofs
MCStreamer  = UserStreams + Metrics        ─ StreamerProofs
```

`GroupAccess` composes the readers with `Memberships` and not with `GroupRoles`: the
latter implements the former (`ImplementsMemberships`, checked and proved), and who
reads roles can see no more of the groups than their rows.

A module written with `+` runs two models that share no variable. A variable `part`
is chosen at the start and only that model moves, so TLC explores each of them
exactly as it would alone, under its own fairness, and the number of states is the
sum and not the product. Since neither reads what the other writes, a property of one
that holds of all its behaviours holds of all interleavings with the other. The
theorems are about the specification of each component by itself; the lemmas
`HalvesOfIdentity`, `HalvesOfRequests`, `HalvesOfEvents`, `HalvesOfLifecycle` and
`HalvesOfStreamer` say that every behaviour of such a run is one of each of its two
components (of the last two, leaving fairness aside, which no proof here uses).

A definition whose comment begins with "Mutant" is a plausible bug in the
definition that follows it (`Projected_upserts`: the create statement overwrites
an existing row). No specification uses it. Putting it in the place of the
original makes TLC report the property it is paired with in `PROJECT.json`, which
shows that the property depends on that code.

### TodoPipeline

Abstractions. A command is its number in the stream COMMANDS; an event is the
number of the command it was made from, because `Handle` copies every field; the
number of the event in EVENTS stands for its `event_id`, which is fresh in every
call. A row keeps its group, its creator, whether it is deleted and, in place of its
title and of its `updated_by`, the command that wrote each of them last: a delete
writes the second only (`applyTodoDeletedSQL`). The role of a member
is an input: `moderator` says whether `CanModerateMessages` held when it was read.

| code | actions |
|---|---|
| `handleCreateCommand` | `Receive`, `Lookup`, `Reject`, `Accept`, `AcceptFails` |
| callback of the domain engine and `Service.Handle` | `EngineTake`, `EnginePublish`, `EngineAck`, `EngineAckLost`, `EngineFails` (Nak), `EngineDiscard` (Term) |
| callback of the data sink and `InsertEvent` | `SinkTake`, `SinkCommit`, `SinkAck`, `SinkAckLost`, `SinkFails` (Nak), `SinkDiscard` (Term) |
| process stops | `EngineCrash`, `SinkCrash` |
| AckWait of the broker | `CommandExpires`, `EventExpires` |
| other publishers on the subjects | `ForeignCommand`, `ForeignEventArrives` |

`AcceptFails`, `EngineFails` and `SinkFails` have two outcomes each, because an
error of a publish or of a commit does not tell whether it took effect. A copy of
a message that is in an inbox when the broker redelivers it is still handled.

Properties:

* `NoLostCommand`, `NoLostEvent`: what a queue has settled has had its effect.
* `AppliedIsProjected`: the sink's silent statements never swallow an applied
  create, update or delete, and never touch a todo of another group. It holds only
  because the API read the row first.
* `RowHasOrigin`: the title of a row is that of an applied create or update of its
  todo. On a live row `updated_by` is of the same command; a deleted row names the
  delete, an applied one, beside the title it had.
* `ChangeIsPermitted`: the permission seen by the API still holds whenever it is
  looked at later, because no event rewrites the creator.
* `OffsetIsLastApplied`, `DeletedStaysDeleted`, `RowIdentityIsStable`.
* `ImplementsReadModel`: the pipeline implements `TodoReadModel`, which has no
  workers, deliveries or faults: accepted commands reach the rows as a whole, in
  any order and any number of times.
* `EveryCommandApplied`, `QueuesDrain`: liveness.
* `LastUpdateWins` does not hold; see the findings.

### GroupRoles, Memberships and Sessions

Each request is a handler that checks (`Check`, `FindToken`) and later writes
(`DeleteGroup`, `AddMember`, `UpdateMemberRole`; `RevokeToken`, `IssueSession`),
with anything in between; each statement may fail. In `GroupRoles` a check that
went stale must not give ownership away (`OnlyCreatorOwns`), make admins that the
creator did not want (`AdminsComeFromCreator`), or revive what is gone
(`GoneStaysGone`). `Memberships` has no handlers and no checks, only the rows and the
three ways they change (`Create`, `Grant`, `Delete`); `ImplementsMemberships` says
that the overlapping requests look like these from outside. In `Sessions` a token and
the one it was exchanged for are never both usable (`PredecessorIsRevoked`). Two
overlapping refreshes with one token may both be answered, and a refresh that fails
after the old token was revoked leaves its client without one; the code does not
prevent either and no property says otherwise.

### GroupAccess

The requests for todos, over the rows of `Memberships` that change meanwhile:

| code | actions |
|---|---|
| `handleCreateCommand`: `ensureMemberRole`, `GetTodoByID`, the checks, publish | `EnsureMemberRole`, `GetTodoByID`, `Accept`; `Apply` is the engine and the sink |
| `/api/v1/todos`: `IsUserInGroup`, `ListGroupTodos` | `IsUserInGroup`, `SendPage` |
| `/ui/workspace`: `ListGroupsForUser` | `ListGroupsForUser`, `SendPage` |
| `/events`: `IsUserInGroup`, `GetMembershipRole`, then lists | `IsUserInGroup`, `GetMembershipRole`, `SendPatch` as often as it likes, `Close` |

`held` is history: the roles the user of a request had in its group since the request
began. Nobody changes a todo without having been its author or a moderator of its
group while the request ran (`ChangesWereAllowed`), nobody is shown a board without
having been a member (`ReadersWereMembers`), and the buttons, which are computed by
`canEdit` in one program, are at the todos the other program lets the user change
(`ButtonsWork`). What the code does not promise, no property says: a stream goes on
sending after its group was deleted, for membership is read once.

### BoardReads

The two waits of the code, over sinks that may work out of order: a client that waits
for its own command (`Post`, `CommandApplied` or `CommandLate`, `ListTodos`) and a
`groupStream` that waits for the offset (`ScheduleSnapshot`, `RunSnapshotRefresh`,
`OffsetReached` or `OffsetLate`). `ReadYourWrites` holds because the first wait is for
the row of the event itself. The second is for a maximum: with several sinks, or after
a Nak, the offset passes events that are not applied, and a board that waited may
lack them. `BoardMissesOnlyOpenEvents` says which: those that a sink had been given and
none had settled when the list was made. A list that does not wait (`OffsetLate`, and
the mutant `OffsetReached_atOnce`) may also lack events that no sink has been given yet;
that these are not among what a board misses is what the wait is good for.

### UserStreams, GroupFanout, SnapshotRefresh

One action per critical section and per call made without the lock.

* `UserStreams`: whoever streams holds the user's lease or is about to be cancelled
  (`ActiveIsLeased`), a lease is never stale and no pending cancellation hits its
  holder (`LeaseIsKept`), and a replaced stream ends (`ReplacedEnds`).
* `GroupFanout`: a served connection is registered with a stream whose
  subscription is open (`ServedHasFanout`), although the registry may already have
  dropped that stream; no subscription is lost or closed twice
  (`NoLostSubscription`); and while no `js.Subscribe` fails, a group that everybody
  has left leaves no entry in the registry and no subscription
  (`NothingLeftAtRest`). A subscribe that failed may leave an empty stream in the
  registry (with a subscription, if another connection installed one and left
  meanwhile), which the gauge of streams counts until somebody joins the group and
  leaves it again; and a connection that joined while the last one left is served by a stream the
  registry no longer has, which the gauge of subscribers misses.
* `SnapshotRefresh`: an event that was scheduled is owed a refresh whatever is reset
  after it fired or stopped after it was replaced (`SnapshotIsOwed`); an open board
  was sent a list with every event, unless a wait ran out, a list failed, its own
  channel was full or the subscription had skipped an event that was not projected
  yet (`CurrentSnapshotWasSent`, and `BoardsCatchUp` as a promise). Every event sets the
  timer to 75 ms again (`main.go:657`), so events that come closer together than that
  postpone the refresh as long as they come: `BoardsCatchUp` promises a list only once
  the group is silent (`FallSilent`). The first list may fail (`main.go:303`); the
  connection then goes on with an empty board, which counts as a failed list. The variables
  `missed`, `lags` and `gap` record those four exceptions and decide nothing but
  the bound on `lags`; `best` is the latest list a connection was sent. Sending to
  all channels is one action although the code sends to one after the other.

### Metrics

A process has a path before it: the calls of `Lock` and `Unlock` of the code it runs, in
their order, whatever comes between them. `Take` waits for a free lock, `Give` returns
it, and nothing in the model keeps a path from taking a second lock inside the first.
`Handler` is a scrape: the registry copies its gauge functions under its lock, then each
of them takes the lock of the map it counts; `CountSubscribers` collects the streams
under the lock of the group registry and, having given that back, asks each under its
own. `Others` is all that takes these locks besides: a connection to `/events` with
`Replace`, `Subscribe`, both critical sections of `ensureSubscription`, its failure,
`removeSubscriber` and `Release` (`Connection`, `End`), `/events/disconnect` (`Cancel`),
the callback of the subscription and the refresh. Each outcome of what is done under a
lock (found, made, surplus, last) is a path of its own, so the module has more paths than
the program and none less. `Streams` are stream objects, not groups: two of one group have
two locks. `EveryScrapeEnds` is that nobody keeps a scrape out for ever; the mutant
`addSubscriber_underLock`, which calls `ensureSubscription` with the lock it takes
itself, stops the stream for good and with it the scrape. What the gauges show is no
subject of it: a stream left over by a failed subscribe goes on being counted (see
`GroupFanout`).

### Startup

| code | actions |
|---|---|
| `CREATE TABLE IF NOT EXISTS`, `EnsureStreams`, `QueueSubscribe` | `LookFor`, then `Make`, with another service in between |
| `waitForIdentitySchema`, `waitForPostgres`, `ConnectJetStreamWithRetry` | `Fail`: the same stage from its start, until `MaxTries` |
| `log.Fatal`, and the supervisor | `Fail`, `ListenFails`, `Restart` |
| SIGTERM, `server.Shutdown`, deferred closes | `Terminate`, `BeginShutdown`, `ShutdownDone` or `ShutdownTimesOut` |
| the NATS client's reconnects | `Lose`, `Reconnect`, `GiveUpReconnecting` |

Two that create one table at the same time may see one of them fail, which the loop
repairs. `ServingIsEquipped`: whoever serves has all it needs, whatever was retried.
`EveryServiceGetsReady`: every service becomes ready for good, unless its connection was
away so long that the client library has closed it; then `/readyz` says no for ever,
`/healthz` goes on saying yes and nothing restarts the process. `EveryStopEnds`: an
open stream of `/events` cannot hold a stop up for longer than its timeout.

### LoadGenerator

The main goroutine (`waitForHTTPStatus`, `CollectResult`, `SetupComplete`, `Complete`),
a goroutine per user (`AcquirePermit`, `setupSingleUser`, `runAction`,
`RequestSucceeds`, `RequestFails`, `LeaveIdle`) and one per stream (`ConnectSSE` to
`SSELoopEnds`). The services are what a client sees of them: a request may be
refused, served, or given up and served late. `ListMatchesService` relates the list
a user keeps to the todos that exist, with history of what was given up; `RunEnds`
says that the run ends whatever happens to its requests.

### RateLimiter

`full` is the map a limiter that never sweeps would have, and `ages` says how long ago
the last requests of each client that passed did so; both are history.
`EvictionIsInvisible` says that no request that can still arrive is answered
differently because of the sweep. `BurstIsBounded` says what the limit means: of the
last `Burst + 1` requests that passed, the oldest is a whole window back. `Burst` is
not the limit, because the windows are fixed and because a request reads the clock
before it waits for the mutex:

| the longest wait for the mutex | requests in one window of time |
|---|---|
| none | 2·limit − 1: the last of one window and all of the next, but the request that opened the first |
| one unit | 2·limit |
| longer | 3·limit − 1: a late request opens a window in the past, which is soon over |

TLC finds runs that attain each of them.

## 3. The runs

| run | instance | shows |
|---|---|---|
| `todo_faults` | 2 engines, 2 sinks, 1 todo, 2 users, every request, 2 commands, 1 fault, 1 foreign message | safety under redelivery, crashes, failed calls, duplicates |
| `todo_race` | 2 handlers, 2 groups, 2 users, 2 sinks, 3 commands, no faults | stale checks and reordering; the refinement |
| `todo_live` | 2 engines, 1 sink, 2 commands, 1 fault, 1 foreign command or event | every command is applied, both queues drain |
| `identity` | 3 users, 2 groups, 2 requests at a time, 3 tokens | stale checks of groups and tokens; the refinement of `Memberships` |
| `requests` | limit 2, window 2, 2 clients, room for 1, lag 2, clock to 7; 2 users, 2 groups, 1 request, 1 todo | the sweep and its bursts; who may change and see what while roles change |
| `events` | 2 clients, 2 sinks, 3 events, lists of 2, 1 fault; 3 connections, 2 failing subscriptions | reading after waiting; the fan-out; deadlock is checked in the latter |
| `streamer` | 2 users, 3 connections, 2 disconnects; 1 scraper, 2 goroutines, 2 streams | leases and cancellation; a scrape against everything that takes its locks |
| `snapshot` | 2 connections, 2 events, 2 timers, 2 refreshes, channels of 2, 1 lag | the debounce and its races, with liveness |
| `lifecycle` | 2 services, 2 tries, 1 outage, 1 stop, 1 request; 2 load users, 1 permit | start, readiness, stop; the lists and the end of a load run |
| `todo_replay` | 1 engine, 1 sink, 3 commands, 1 fault | violates `LastUpdateWins` |
| `roles_promotion` | 3 users, 1 group, 1 request at a time | violates `OnlyOwnerChangesRoles` |
| `snapshot_gap` | 1 connection, 1 event | violates `SettledBoardIsCurrent` |

### Bounds, and why they are enough

* Todos do not interact except through the offset of their group, so one todo with
  two groups (a request may name the wrong one) has every case of the row
  statements. Two commands and one fault give a redelivery after a later event;
  three commands give create, update and delete in any order. Two workers are the
  least that reorder.
* `identity`: the stale check needs two requests. Three users are an owner, an admin
  and a member; three tokens are one and two successors of it.
* `requests`: the clock passes three windows, which is what a window, the sweep
  after two and a late request need; the map has room for one of two clients, so
  the sweep happens. One request is enough for access, because requests meet only in
  the rows: everything another could do to them (roles, groups, an accepted command
  applied in between) happens while it runs.
  At most one of the two groups has roles that were granted (`OneGroupGrows`), so a
  user may own, moderate, belong to or be a stranger to the group a request names and
  the group a todo is in.
* `events`: three events and lists of two make a list overflow; two sinks and one
  failure apply them out of order and twice. Three connections are one that leaves,
  one that arrives and one that is served meanwhile. Streams and subscriptions are
  recycled once nothing refers to them.
* `streamer`: three connections of two users are a holder, the one that replaces it
  and somebody else, or three in a row of one user. A scrape waits in a circle only with
  others that each keep what the next wants: the two goroutines and the two streams make
  every circle of up to three, of locks in any order, and one of a single goroutine.
* Two timers are enough in `snapshot`: with a third the same states are reached,
  up to a renaming. Channels of capacity 2 overflow, as those of capacity 64 do.
* `lifecycle`: the services are the two that share the identity schema, or the two
  workers that own a consumer each. An outage may outlast the retries of one of them.
  The load generator is explored in two parts: in one a single user takes up to three
  actions, so that create, lost answer and reuse happen, while streams stay closed; in
  the other, users act once and one stream reconnects. Users meet only in the set-up
  permit and in the end of the run, which both parts have.

Deadlock is not checked where the system may come to rest: all requests are
handled, or all tokens or connections of the instance are used up. In the limiter and
the fan-out the inputs never run out, so there it is checked; the models they are run
with are given a step that does nothing where they may rest. The locks of `Metrics` are
run with the leases, which do rest; `EveryScrapeEnds` sees their deadlocks.

`TypeOK` is an invariant of `todo_faults`. It is proved of every module but `BoardReads`
and `LoadGenerator`, where it documents the state and the invariants of the proofs say
what they need. That of `Memberships` is the lemma `RolesTyped`.

### Fairness

* `todo_live`: weak fairness of the workers' callbacks and of delivery. The client
  library calls back as long as messages are in an inbox, and the broker delivers as
  long as something is due. Clients owe nothing, and faults are finite (`MaxFaults`);
  a fault that repeats for ever would rightly prevent progress.
* `streamer`: a handler goroutine runs on and notices its cancelled context
  (`main.go:308`); nobody need hang up. A mutex starves nobody, which is Go's promise
  for `sync.Mutex`: strong fairness of `Take`, weak of `Give`. Nobody has to scrape, to
  connect or to close a stream.
* `snapshot`: the projection catches up and goroutines run. A timer fires for sure only
  once the group is silent, for until then an event may set it again and again; that a
  wait runs out, that a list fails or that the group falls silent is never assumed.
* `lifecycle`: processes run, are restarted, and `Shutdown` times out; a backend that
  is away comes back; the library reconnects while the backend is there. For the load
  generator: goroutines run, a request ends by its timeout, the duration ends, and a
  `select` that finds `ctx.Done()` ready time and again takes it in the end, for Go
  picks among the ready cases at random (strong fairness of leaving).

## 4. The findings

* `LastUpdateWins` (`todo_replay`). `page_login.templ:34` says "Durable ordered
  events". The update statement overwrites the title whatever was applied before.
  When the first of two updates is delivered again it lands after the second, and
  the row keeps the older title although every message is settled.
* `OnlyOwnerChangesRoles` (`roles_promotion`). `README.md:109` of the service says
  that only the owner can promote or demote. Adding a member is an upsert of the
  role, so an admin who adds an admin or the owner as a plain member demotes them.
* `SettledBoardIsCurrent` (`snapshot_gap`). `README.md:165` promises a consistent
  board under projection lag. The subscription delivers new events only and the
  first list does not wait for the projection: an event published just before the
  subscription and projected after the list is not shown until another one comes.

## 5. The proofs

Each theorem holds for every value of the constants that satisfies the assumptions
named; an assumption that is not named is not used. Bounds (`MaxFaults`, `MaxEvents`
and the like) are constants as well, so no fault, retry or event is too many.

### TodoPipelineProofs

For any sets of users, groups, todos, handlers, engines and sinks, any set of
requests and any bounds. Assumptions: `RequestsAssumption` (requests have the
fields of a request), `NoRowAssumption`, `BoundsAssumption`.

* `TypeCorrect`. `TypeOK` is inductive. It is more than a list of types: inboxes,
  consumers and events only name messages that exist. The streams grow, so the
  lemmas `SeqWidens`, `ConsumerWidens` and `WorkersWiden` carry those facts over an
  append, and `ConsumerSteps` and `WorkerSteps` say once what each step of a queue
  does; then there is one step per action.
* `DeletedIsFinal`, `IdentityIsStable`. Only `InsertEvent` writes rows
  (`RowsChangeByProjection`); `ProjectedRow` says what it does to each of them, and
  `RowsOnlyGrow` that a row keeps its group and creator and, once deleted,
  everything.
* `ChangesArePermitted`. `ChangeIsPermitted` is not inductive: a handler that passed
  its check publishes later. `Causality` adds that what is about to be published is
  permitted too; a permission, once there, stays (`PermittedIsStable`), because
  rows only grow.

### TodoProjectionProofs

From the same assumptions.

* `AppliedAreShown`, `RowsHaveOrigins`, `OffsetCorrect`. `StreamsGrow` and
  `TablesChange` reduce every step to what the tables see of it: the streams are
  extended, or one transaction runs. `EventsOK` says that every event is foreign or
  made from a supported command, and that only the latter are applied.
  For `RowHasOrigin` a row that is not written keeps its origins because what was applied
  stays applied, and one that is written takes both from the event, or one of them and
  the other from the live row it was.
  `AppliedIsProjected` is inductive together with `Causality`: the transaction of a
  change finds its row, in its group, because the command was permitted.
* `CommandsReachEvents`, `EventsReachTables`. `NoLostCommand` is not inductive: an
  Ack settles a command because of what the callback did before. `EngineDone`
  says that an engine which has only its Ack left to send has published its command;
  `SinkDone` the same of commits. A settled message was settled by an Ack after
  that, or was one that nobody can handle.
* `PipelineImplementsReadModel`. The initial states agree; a publish is `Accept`,
  allowed by `Causality`; a transaction is `Project` for the command of its event,
  with or without an effect; everything else is a stutter.

### RequestsProofs

`RateLimiter`, for any clients, handlers, limit, window, map size and clock bound,
under `ParameterAssumption`, `NoWindowAssumption` and `LagAssumption`: no request waits
longer than a window between `time.Now()` and the mutex.

* `LimiterTypeCorrect`, `SweepForgivesNobody`. The invariant adds to `TypeOK` that
  a waiting request is at most `MaxLag` old (`LagOK`), and that wherever the map
  differs from the one that never sweeps, the swept entry's window is over for every
  request that may still arrive (`SweptIsOver`). The sweep's two windows
  minus the lag leave the one window this needs.
* `BurstsAreBounded`. The entry of a client knows how many requests passed in its
  window; the bound needs to know how old those of earlier windows are. `BurstsFit` says
  so for three windows back, in terms of the present entry: when it is renewed each
  window takes the place of the one before (`RenewingFits`, and `OpeningFits` for a
  client that has no entry), and whatever passed before a window was opened did so
  strictly earlier, which is where the last unit of the bound comes from. `BurstIsOver` adds the windows
  up. The argument is about the map that never sweeps; `SweepForgivesNobody` is what
  makes it one about the code. With `Burst` one less the proof fails, as it must.

`GroupAccess`, for any users, groups, todos and requests at a time, with no assumption
(`AccessTypesCorrect` among them):

* `ChangesAreAllowed`, `ReadersAreMembers`, `ButtonsAgree`. A check that has passed has
  to stay true until it is relied on, and it does for two different reasons.
  `RequestOK` says that what a request saw is among the roles it had (`held` only
  grows), and that the todo whose author and group it compared still has that author
  and group. The latter is `RowsKept`: a command to create may name a todo that is
  there, but the data sink inserts with `ON CONFLICT DO NOTHING`, and the other
  statements do not write those columns. `KnownTodos` says that what is to be changed
  is in a row. `ShownOK` says the same of the boards already shown.

### IdentityProofs

`GroupRoles`, for any users, groups and number of requests at a time; assumption:
`NoUserAssumption`.

* `Ownership`, `NoOrphans`, `TypeCorrect`. None is inductive alone: a request that is
  late relies on what it saw. `RequestsWereChecked` says that a request under way
  passed the checks of its operation, and that an owner it was seen to come from is the
  creator. The invariant is these with `NoMembersWithoutGroup`.
* `Refinement`. `StatementsAreAbstract` maps each statement to a `Create`, `Grant` or
  `Delete` of `Memberships` or to a stutter; `StepIsAbstract` lifts it to `Next`. The
  lemmas on the invariant then argue about three abstract steps instead of the
  statements, as do `NoRevival` and `PromotionByCreator`.

`Sessions`, for any users, tokens and requests; assumption: `SessionsAssumption` (the
names for nothing name nothing else).

* `ExchangedIsRevoked`. The predecessor was revoked before the new row is written;
  `CallOK` keeps that, and the user, for the time between the two statements.
  `AgingKeeps` says once that steps which only mark rows disturb none of this.

### StreamerProofs

`UserStreams`, for any users, connections and disconnects; assumption: None is not one
of them (`NoneAssumption`).

* `OneStreamPerUser`, `LeasesAreKept` (and `LeaseTypesCorrect`) hold only together: a
  release is harmless because leases are open, a replacement because the connection it
  replaces is of the same user and known, and a late cancel because whoever is about
  to be cancelled came before the present holder (`PendingIsKnown`).

`Metrics`, for any scrapers, goroutines and finite set of streams; assumption:
`StreamsAssumption` (a stream is none of the three registries). The theorems are about
`M!Init` and the steps of `M!Next`; fairness is not used.

* `NoCircularWait`. Whoever waits for a lock waits for somebody else, whose very next call
  gives that lock back (`NobodyWaitsForAWaiter`). That paths take one lock at a time is
  not in the actions, which let them nest: it is proved of the code's paths
  (`OneAtATime`, `PathsAreWhole`), of which a scrape is one of any length, for it asks as
  many streams as it found (`CountsAreWhole`). The invariant says that whoever has a
  lock is about to give it back. With the path of `addSubscriber_underLock` the proof
  fails at `PathsAreWhole`. This is the safe half of `EveryScrapeEnds`; that the lock is
  then handed on is fairness. `LockTypesCorrect` comes from the same invariant.

### EventsProofs

`GroupFanout`, for any connections, stream objects and subscriptions and any number of
failures of `js.Subscribe`; assumption: `FanoutAssumption` (None is none of them).

* `ServedIsHeard`, `SubscriptionsAreOwned`, `NothingIsLeft`. The property about owners
  counts them; the invariant says instead that each subscription is held by one stream
  or one connection and that no two hold the same (`OwnersDiffer`, `OpenIsOwned`), and
  the count follows. A connection closes its own subscription as surplus only
  because its stream has another; `StreamKeepsSub` says that this one stays as long as
  the connection is registered. `InUse` is the part that needs that no subscribe has
  failed.

`BoardReads`, for any clients, sinks, events and length of a list; assumption:
`BoundsAssumption` (a list has room for something).

* `WritesAreRead`. A client that was told its command is applied has its event in
  `todo_events`, from which nothing is taken (`TablesStep`). It need not be in the list,
  which is cut off: `NewestAreShown` shows that there are then `Limit` newer ones in it.
  Because the theorem is about lists of every length, this is an argument about
  finite sets (it looks at the todo left out that has the fewest above it), not an
  evaluation.
* `BoardsMissOpenEventsOnly`. The wait ends when the offset has reached the target, and
  the offset is an event that was applied (`OffsetOK`), hence one that a sink was given
  (`TablesOK`), hence, since first deliveries are in order, so was everything before it.
  Of what was given to sinks, what the queue has settled is in the tables: a sink that
  has only its Ack left to send has committed. The rest is what the board may lack.

### SnapshotRefreshProofs

For any connections, timers, refreshes, events and capacity of the channels;
assumption: `ParametersAssumption`.

* `ScheduledIsOwed`. The timer in use is not one that is about to be stopped
  (`TimerIsKept`): a late `Stop` hits only timers that were replaced, whose events the
  new one has taken over.
* `SettledWasSent` speaks of states in which nothing is under way; the invariant
  `LastIsCovered` of those in which something is. While anybody is subscribed, the last
  event delivered is in a callback, in `pendingSeq`, in a refresh that waits for it or
  has listed it, or else it is applied and was sent to every open connection that is
  not recorded as having missed one. Each step hands the event from one of these to the
  next; `BroadcastReaches` says what a broadcast does to the channels.

### LifecycleProofs

`Startup`, for any services, deadlines, outages, stops and requests; assumption:
`DeploymentAssumption` (every service is one of the four programs).

* `ServesWithAllItNeeds`. A service at a statement has passed all statements before it,
  in all earlier stages and in its own, so what those make is there (`PlaceOK`):
  nothing is ever dropped, a failed statement goes back to the start of its
  stage and a restart to that of the program. `StagesTyped` is about the lists of
  stages themselves.
* `NothingIsMadeTooEarly`. The same invariant gives more: what a statement refers to
  (`REFERENCES`, `ON`, the stream of a consumer) comes before it in its list or in the
  stage before (`StagesInOrder`), so it is there when the statement runs. Statements
  fail only because a backend is away or because another service made the same table
  in between, and both pass: this is the safe half of `EveryServiceGetsReady`.
* `ServicesTypeCorrect`: among other things no service tries more often than it may.

`LoadGenerator`, for any users, permits and bounds; no assumption.

* `ListsMatch`. Late requests are what makes it hard: a create or a delete that the
  user gave up may be served at any time after. The invariant follows each of them:
  what is late was given up (`ListOK`), and the todos the user does not know of
  are, with the creates still late, no more than the creates it gave up
  (`CreatesOK`). `RemoveTodo` is about `removeTodo`, which overwrites an entry with
  the last one: it removes that todo and keeps the rest without repetition. There is a
  lemma for each kind of effect (`CreateServed`, `DeleteAnswered`, `CreateGivenUp`, ...)
  and one for each group of actions.

### What the proofs found

`GroupAccess` used to give a create an id that nobody had, with a definition that looked
at the requests only if a command had been published: with two requests at a time they
could get one id. The run has one request and could not show it; the proof, which is
about any number of them, failed. The code promises no such thing either, for a client
may send any `todo_id` (`commandapi/service.go:98` makes one only if there is
none). Now a create names any todo, and the properties still hold.

`BurstIsBounded` used to allow 2·limit and 3·limit requests and was said to be attained.
The proof went through with one to spare where nobody waits or where the wait is long:
the request that opens the oldest window is exactly one window old when the last of the
newest gets through. The bound is now the exact one. It used to be a sum over ages, too,
which cannot be reasoned about without an induction over data; the list of ages of the
last requests says the same and can.

### Only model-checked

* Liveness: `EveryCommandApplied`, `QueuesDrain`, `ReplacedEnds`, `EveryScrapeEnds`,
  `BoardsCatchUp`, `EveryServiceGetsReady`, `EveryStopEnds`, `RunEnds`. Fairness is
  out of the prover's reach.
* `TypeOK` of `BoardReads` and of `LoadGenerator`, which no run checks either.

Every invariant and every action property of a run that passes is stated by a theorem,
and so are both refinements. What a theorem can say of a liveness property it says:
`CommandsReachEvents` and `EventsReachTables` (nothing is settled without its effect),
`NoCircularWait`, `NothingIsMadeTooEarly`, `ScheduledIsOwed` (a refresh is always under
way) are what remains of `EveryCommandApplied`, `QueuesDrain`, `EveryScrapeEnds`,
`EveryServiceGetsReady` and `BoardsCatchUp` when fairness is taken away.

## 6. Limits of the models

* The streams keep everything: `MaxAge`, `MaxBytes` and `DiscardOld` of
  `EnsureStreams` are not modelled, nor is the loss of a consumer when the
  subscription that created it is drained. Both depend on the broker and its client,
  whose code is not part of the repository.
* Roles are free inputs of `TodoPipeline`; that a role was read before it was used
  is all that module does about it. `GroupAccess` has the roles, and applies an
  accepted command in one step.
* Nothing promises that a group keeps an owner, and the code does not see to it: the
  owner may be made a plain member by an admin, and then nobody can delete the group.
* Stream ids (`main.go:247`) are clock readings and are assumed to differ.
* In `SnapshotRefresh` the projection applies events in order; sinks that do not are
  the subject of `BoardReads`, where refreshes do not overlap.
* In `Startup` the indexes of a schema are made as one, and deadlines and back-offs
  are counted in attempts. In `LoadGenerator` tokens never expire; in a stress profile
  that runs longer than an access token lives, the rest of the requests would be
  refused.
* Timestamps, titles and user names are data; the models keep who wrote what.
* `InsertEvent` always has the number of its event. The callback leaves it 0 if
  `msg.Metadata()` fails (`data-sink/main.go:52-55`), which it does only for a message
  that JetStream did not deliver; the offset would then stay as it is.
* What the gauges of the streamer show is not followed under their locks; what they may
  show wrongly is said under `GroupFanout`.

### Not modelled

* Access tokens: signing and parsing are pure functions of one request.
* Sharding: `crc32 % 1024` names a subject, and both consumers take all subjects.
* Connection pool and environment: settings clamped once at start.
* Gauges that are set and counter vectors: independent maps, each under its own lock.
* Frontend (templates and generated code), end-to-end tests, chart and dashboards: no
  state of their own.

## 7. Plan

Done: the modules above, their runs, and the theorems of section 5. What is left, in
order:

1. A composition of `GroupFanout` and `SnapshotRefresh` over one stream object, and
   of `SnapshotRefresh` with the sinks of `BoardReads`.
2. An abstract specification of the fan-out (a connection that is told it is subscribed
   hears what comes after) and the proof that `GroupFanout` implements it.
3. The limits of the streams, and workers that are away for longer than them.
