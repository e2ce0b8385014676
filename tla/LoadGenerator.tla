---------------------------- MODULE LoadGenerator ----------------------------
(***************************************************************************)
(* The load generator: it waits for the services, sets up its users with a   *)
(* bounded number of them at work at a time, and then lets each create,      *)
(* update and delete todos of its own group until the time is over.  A user   *)
(* keeps the ids of the todos it believes to be there, and a stream of        *)
(* events that reconnects by itself.                                        *)
(*                                                                          *)
(* Every request may be refused, and may be given up (RequestTimeout, end of *)
(* the run) before or after the service handled it; one that was given up    *)
(* may still be handled later.  Counters and log lines are left out.        *)
(***************************************************************************)
EXTENDS Naturals, Sequences, FiniteSets, SequencesExt

CONSTANTS
    Users,              \* LOADGEN_USERS of them
    SetupConcurrency,   \* LOADGEN_SETUP_CONCURRENCY
    EnableSSE,          \* LOADGEN_ENABLE_SSE
    MaxTries,           \* attempts until LOADGEN_STARTUP_WAIT is over
    MaxActions,         \* bound on the actions of a user
    MaxConnects         \* bound on the connections of a user's stream

SizeAssumption ==
    /\ IsFiniteSet(Users) /\ Users # {}
    /\ SetupConcurrency \in Nat \ {0} /\ EnableSSE \in BOOLEAN
    /\ MaxTries \in Nat \ {0} /\ MaxActions \in Nat /\ MaxConnects \in Nat

VARIABLES
    main,        \* what the main goroutine is at
    tries,       \* failed probes of the service it waits for
    expired,     \* ctx is done: the duration is over, or a signal came
    results,     \* the channel of setupUsers: user |-> set up or not
    users,       \* the users that were set up
    vu,          \* what the goroutine of each user is at
    todos,       \* simulatedUser.todos
    flight,      \* its request: none, or how the service answered
    target,      \* the todo of that request; of an accepted create, its id
    sse,         \* what the stream goroutine of each user is at
    \* The services.
    accounts,           \* users that have an account
    made, live,         \* todos created so far; those not deleted
    late,               \* requests given up and not handled yet
    \* History.
    gaveUp,      \* creates and deletes given up
    acted, connected   \* actions and connections of a user

mainVars == <<main, tries, results, users>>
serviceVars == <<accounts, made, live, late>>
boundVars == <<acted, connected>>
vars == <<mainVars, expired, vu, todos, flight, target, sse, serviceVars, gaveUp, boundVars>>

Ended == main \in {"complete", "fatal"}
InSetup == {"register", "login", "create_group"}
Commands == {"create", "update", "delete"}
NoTodo == 0
Ids == 1 .. MaxActions
Given == [creates : 0 .. MaxActions, deletes : SUBSET Ids]

TypeOK ==
    /\ main \in {"command-api", "sse-streamer", "setup", "running",
                 "complete", "fatal"}
    /\ tries \in 0 .. MaxTries - 1 /\ expired \in BOOLEAN
    /\ results \subseteq Users \X BOOLEAN /\ users \subseteq Users
    /\ vu \in [Users -> {"none", "waiting", "reported", "set up", "ramp up",
                         "idle", "ended"} \cup InSetup \cup Commands]
    /\ todos \in [Users -> BoundedSeq(Ids, MaxActions)]
    /\ flight \in [Users -> {"none", "sent", "accepted", "refused", "conflict"}]
    /\ target \in [Users -> Ids \cup {NoTodo}]
    /\ sse \in [Users -> {"off", "head", "connecting", "open", "pause", "ended"}]
    /\ accounts \subseteq Users
    /\ made \in [Users -> 0 .. MaxActions] /\ live \in [Users -> SUBSET Ids]
    /\ late \in [Users -> Given] /\ gaveUp \in [Users -> Given]
    /\ acted \in [Users -> 0 .. MaxActions]
    /\ connected \in [Users -> 0 .. MaxConnects]

\* Two generators that start in the same nanosecond have the same names.
Init ==
    /\ main = "command-api" /\ tries = 0 /\ expired = FALSE
    /\ results = {} /\ users = {}
    /\ vu = [u \in Users |-> "none"] /\ todos = [u \in Users |-> <<>>]
    /\ flight = [u \in Users |-> "none"] /\ target = [u \in Users |-> NoTodo]
    /\ sse = [u \in Users |-> "off"]
    /\ accounts \in SUBSET Users
    /\ made = [u \in Users |-> 0] /\ live = [u \in Users |-> {}]
    /\ late = [u \in Users |-> [creates |-> 0, deletes |-> {}]]
    /\ gaveUp = [u \in Users |-> [creates |-> 0, deletes |-> {}]]
    /\ acted = [u \in Users |-> 0]
    /\ connected = [u \in Users |-> 0]

\* The duration is over, or the process is told to stop.
Expire ==
    /\ ~Ended /\ ~expired /\ expired' = TRUE
    /\ UNCHANGED <<mainVars, vu, todos, flight, target, sse, serviceVars,
                   gaveUp, boundVars>>

-----------------------------------------------------------------------------
(* waitForDependencies: one service after the other, probed until it is      *)
(* ready, the deadline is over or ctx is done.                               *)
Waiting == main \in {"command-api", "sse-streamer"}
restOfWaiting == <<expired, results, users, todos, flight, target, sse,
                   serviceVars, gaveUp, boundVars>>

waitForHTTPStatus ==
    /\ Waiting /\ ~expired
    /\ tries' = 0
    /\ \/ main = "command-api" /\ main' = "sse-streamer" /\ UNCHANGED vu
       \/ /\ main = "sse-streamer" /\ main' = "setup"
          /\ vu' = [u \in Users |-> "waiting"]
    /\ UNCHANGED restOfWaiting

ProbeFails ==
    /\ Waiting /\ ~expired /\ tries < MaxTries - 1
    /\ tries' = tries + 1
    /\ UNCHANGED <<main, vu, restOfWaiting>>

waitForDependencies_fails ==
    /\ Waiting /\ (expired \/ tries = MaxTries - 1)
    /\ main' = "fatal"
    /\ UNCHANGED <<tries, vu, restOfWaiting>>

-----------------------------------------------------------------------------
(* requestJSON and the services that answer it.                             *)
Send(u, what, t) ==
    /\ vu' = [vu EXCEPT ![u] = what]
    /\ flight' = [flight EXCEPT ![u] = "sent"]
    /\ target' = [target EXCEPT ![u] = t]

Create(u) ==
    /\ made' = [made EXCEPT ![u] = @ + 1]
    /\ live' = [live EXCEPT ![u] = @ \cup {made[u] + 1}]
Delete(u, t) == live' = [live EXCEPT ![u] = @ \ {t}] /\ UNCHANGED made

\* The service refuses: rate limit, failure, no such todo, expired token.
Refuse(u) ==
    /\ ~Ended /\ flight[u] = "sent"
    /\ flight' = [flight EXCEPT ![u] = "refused"]
    /\ UNCHANGED <<mainVars, expired, vu, todos, target, sse, serviceVars,
                   gaveUp, boundVars>>

\* Or does what it is asked for.  A todo that was just deleted may still be in
\* the read model: its delete or update is accepted.
Serve(u) ==
    /\ ~Ended /\ flight[u] = "sent"
    /\ flight' = [flight EXCEPT ![u] =
                    IF vu[u] = "register" /\ u \in accounts
                    THEN "conflict" ELSE "accepted"]
    /\ target' = IF vu[u] = "create"
                 THEN [target EXCEPT ![u] = made[u] + 1] ELSE target
    /\ accounts' = accounts \cup { x \in {u} : vu[u] = "register" }
    /\ CASE vu[u] = "create" -> Create(u)
         [] vu[u] = "delete" -> Delete(u, target[u])
         [] OTHER -> UNCHANGED <<made, live>>
    /\ UNCHANGED <<mainVars, expired, vu, todos, sse, late, gaveUp, boundVars>>

\* A request that was given up is handled after all.
ServeLate(u) ==
    /\ \/ /\ late[u].creates > 0
          /\ late' = [late EXCEPT ![u].creates = @ - 1]
          /\ Create(u)
       \/ \E t \in late[u].deletes :
            /\ late' = [late EXCEPT ![u].deletes = @ \ {t}]
            /\ Delete(u, t)
    /\ UNCHANGED <<mainVars, expired, vu, todos, flight, target, sse, accounts,
                   gaveUp, boundVars>>

GivenUp(g, u) ==
    CASE vu[u] = "create" -> [g EXCEPT !.creates = @ + 1]
      [] vu[u] = "delete" -> [g EXCEPT !.deletes = @ \cup {target[u]}]
      [] OTHER -> g

-----------------------------------------------------------------------------
(* setupUsers: a goroutine per user that takes a permit of the semaphore,    *)
(* reports its result to a channel that holds them all and gives the permit  *)
(* back; another closes the channel when all are done.                      *)
HoldsPermit(u) == vu[u] \in InSetup \cup {"reported"}

AcquirePermit(u) ==
    /\ ~Ended /\ vu[u] = "waiting"
    /\ Cardinality({v \in Users : HoldsPermit(v)}) < SetupConcurrency
    /\ Send(u, "register", NoTodo)
    /\ UNCHANGED <<mainVars, expired, todos, sse, serviceVars, gaveUp,
                   boundVars>>

ReleasePermit(u) ==
    /\ ~Ended /\ vu[u] = "reported"
    /\ vu' = [vu EXCEPT ![u] = "set up"]
    /\ UNCHANGED <<mainVars, expired, todos, flight, target, sse, serviceVars,
                   gaveUp, boundVars>>

\* for result := range results: one at a time, until the channel is closed.
Collect ==
    \E r \in results :
      /\ results' = results \ {r}
      /\ users' = users \cup { x \in {r[1]} : r[2] }

CollectResult ==
    /\ main = "setup"
    /\ Collect
    /\ UNCHANGED <<main, tries, expired, vu, todos, flight, target, sse,
                   serviceVars, gaveUp, boundVars>>

SetupComplete ==
    /\ main = "setup" /\ results = {} /\ \A u \in Users : vu[u] = "set up"
    /\ main' = IF users = {} THEN "fatal" ELSE "running"
    /\ vu' = [u \in Users |-> IF u \in users THEN "ramp up" ELSE "ended"]
    /\ UNCHANGED <<tries, expired, results, users, todos, flight, target, sse,
                   serviceVars, gaveUp, boundVars>>

Report(u, ok) ==
    /\ vu' = [vu EXCEPT ![u] = "reported"]
    /\ results' = results \cup {<<u, ok>>}

\* setupSingleUser goes on with an answer it expected.
setupSingleUser(u) ==
    /\ \/ /\ vu[u] = "register" /\ flight[u] = "conflict"
          /\ Send(u, "login", NoTodo)
          /\ UNCHANGED results
       \/ /\ vu[u] \in {"register", "login"} /\ flight[u] = "accepted"
          /\ Send(u, "create_group", NoTodo)
          /\ UNCHANGED results
       \/ /\ vu[u] = "create_group" /\ flight[u] = "accepted"
          /\ Report(u, TRUE)
          /\ flight' = [flight EXCEPT ![u] = "none"]
          /\ UNCHANGED target
    /\ UNCHANGED <<todos, main>>

-----------------------------------------------------------------------------
(* runUser: ramp-up, then an action per tick.  The pause before the first    *)
(* tick is a wait like those between ticks.                                 *)
StartActing(u) ==
    /\ ~Ended /\ vu[u] = "ramp up"
    /\ vu' = [vu EXCEPT ![u] = "idle"]
    /\ sse' = IF EnableSSE THEN [sse EXCEPT ![u] = "head"] ELSE sse
    /\ UNCHANGED <<mainVars, expired, todos, flight, target, serviceVars,
                   gaveUp, boundVars>>

LeaveRampUp(u) ==
    /\ ~Ended /\ vu[u] = "ramp up" /\ expired
    /\ vu' = [vu EXCEPT ![u] = "ended"]
    /\ UNCHANGED <<mainVars, expired, todos, flight, target, sse, serviceVars,
                   gaveUp, boundVars>>

\* The tick: a random todo, if there is one, and a random choice.  Both cases
\* of the select may be ready, so an action may begin after the end.
runAction(u) ==
    /\ ~Ended /\ vu[u] = "idle" /\ acted[u] < MaxActions
    /\ \/ Send(u, "create", NoTodo)
       \/ \E i \in DOMAIN todos[u], what \in {"update", "delete"} :
            Send(u, what, todos[u][i])
    /\ acted' = [acted EXCEPT ![u] = @ + 1]
    /\ UNCHANGED <<mainVars, expired, todos, sse, serviceVars, gaveUp,
                   connected>>

LeaveIdle(u) ==
    /\ ~Ended /\ vu[u] = "idle" /\ expired
    /\ vu' = [vu EXCEPT ![u] = "ended"]
    /\ UNCHANGED <<mainVars, expired, todos, flight, target, sse, serviceVars,
                   gaveUp, boundVars>>

addTodo(s, t) == Append(s, t)

\* Mutant: the last one is cut off without being moved.
removeTodo_cutsLast(s, t) == IF Contains(s, t) THEN Front(s) ELSE s

\* The last one takes the place of the one to go.
removeTodo(s, t) ==
    IF Contains(s, t)
    THEN LET i == SelectInSeq(s, LAMBDA x : x = t) IN Front([s EXCEPT ![i] = Last(s)])
    ELSE s

\* createTodo, updateTodo and deleteTodo after an answer they expected.
ActionSucceeds(u) ==
    /\ vu[u] \in Commands /\ flight[u] = "accepted"
    /\ todos' = [todos EXCEPT ![u] =
                   CASE vu[u] = "create" -> addTodo(@, target[u])
                     [] vu[u] = "update" -> @
                     [] vu[u] = "delete" -> removeTodo(@, target[u])]
    /\ vu' = [vu EXCEPT ![u] = "idle"]
    /\ flight' = [flight EXCEPT ![u] = "none"]
    /\ target' = [target EXCEPT ![u] = NoTodo]
    /\ UNCHANGED <<results, main>>

\* requestJSON returns a status that was expected.
RequestSucceeds(u) ==
    /\ ~Ended
    /\ setupSingleUser(u) \/ ActionSucceeds(u)
    /\ UNCHANGED <<tries, users, expired, sse, serviceVars, gaveUp, boundVars>>

\* Mutant: a client without a timeout.
MayFail_answered(u) == flight[u] \notin {"none", "sent"}

MayFail(u) == flight[u] # "none"

\* It returns an error: another status, no answer in time, or ctx is done.
RequestFails(u) ==
    /\ ~Ended /\ MayFail(u)
    /\ IF vu[u] \in InSetup THEN Report(u, FALSE)
       ELSE vu' = [vu EXCEPT ![u] = "idle"] /\ UNCHANGED results
    /\ flight' = [flight EXCEPT ![u] = "none"]
    /\ target' = [target EXCEPT ![u] = NoTodo]
    /\ IF flight[u] = "refused" THEN UNCHANGED gaveUp
       ELSE gaveUp' = [gaveUp EXCEPT ![u] = GivenUp(@, u)]
    /\ IF flight[u] = "sent" THEN late' = [late EXCEPT ![u] = GivenUp(@, u)]
       ELSE UNCHANGED late
    /\ UNCHANGED <<main, tries, users, expired, todos, sse, accounts, made,
                   live, boundVars>>

\* ctx is done and the goroutines of all users have ended.
Complete ==
    /\ main = "running" /\ expired /\ \A u \in users : vu[u] = "ended"
    /\ main' = "complete"
    /\ UNCHANGED <<tries, expired, results, users, vu, todos, flight, target,
                   sse, serviceVars, gaveUp, boundVars>>

-----------------------------------------------------------------------------
(* runSSELoop and connectAndReadSSE, which nobody waits for.                *)
restOfSSE == <<mainVars, expired, vu, todos, flight, target,
               serviceVars, gaveUp, acted>>
MoveSSE(u, from, to) == ~Ended /\ sse[u] = from /\ sse' = [sse EXCEPT ![u] = to]

ConnectSSE(u) ==
    /\ ~expired /\ connected[u] < MaxConnects
    /\ MoveSSE(u, "head", "connecting")
    /\ connected' = [connected EXCEPT ![u] = @ + 1]
    /\ UNCHANGED restOfSSE

SSEOpened(u) ==
    /\ MoveSSE(u, "connecting", "open")
    /\ UNCHANGED <<restOfSSE, connected>>

SSERefused(u) ==
    /\ MoveSSE(u, "connecting", "pause")
    /\ UNCHANGED <<restOfSSE, connected>>

\* The streamer or the network ends the stream, or ctx is done.
SSEBroken(u) ==
    /\ MoveSSE(u, "open", "pause")
    /\ UNCHANGED <<restOfSSE, connected>>

SSEReconnect(u) ==
    /\ MoveSSE(u, "pause", "head")
    /\ UNCHANGED <<restOfSSE, connected>>

SSELoopEnds(u) ==
    /\ expired
    /\ MoveSSE(u, "head", "ended") \/ MoveSSE(u, "pause", "ended")
    /\ UNCHANGED <<restOfSSE, connected>>

Stopped == Ended /\ UNCHANGED vars

MainStep ==
    \/ waitForHTTPStatus \/ waitForDependencies_fails
    \/ CollectResult \/ SetupComplete \/ Complete
UserStep(u) ==
    AcquirePermit(u) \/ ReleasePermit(u) \/ StartActing(u)
RequestEnds(u) == RequestSucceeds(u) \/ RequestFails(u)
UserLeaves(u) == LeaveRampUp(u) \/ LeaveIdle(u)
StreamStep(u) ==
    \/ ConnectSSE(u) \/ SSEOpened(u) \/ SSERefused(u)
    \/ SSEBroken(u) \/ SSEReconnect(u) \/ SSELoopEnds(u)

Next ==
    \/ MainStep \/ ProbeFails \/ Expire
    \/ \E u \in Users :
         \/ UserStep(u) \/ RequestEnds(u) \/ UserLeaves(u) \/ runAction(u)
         \/ Serve(u) \/ Refuse(u) \/ ServeLate(u) \/ StreamStep(u)
    \/ Stopped

\* Go runs every goroutine that can run; a request ends by its timeout; the
\* duration ends; and a select in which ctx.Done() is ready again and again
\* takes it in the end, for it picks at random.  (A user leaves once, so one
\* condition serves for all.)
Fairness ==
    /\ WF_vars(MainStep) /\ WF_vars(Expire)
    /\ \A u \in Users : WF_vars(UserStep(u)) /\ WF_vars(RequestEnds(u))
    /\ SF_vars(\E u \in Users : UserLeaves(u))

Spec == Init /\ [][Next]_vars /\ Fairness

-----------------------------------------------------------------------------
(* Safety.                                                                  *)

\* What a user takes for its todos differs from what the service has only by
\* answers that never came: a todo that is gone is still listed only if its
\* delete was given up (or is under way), and no more todos are unknown to
\* their user than creates were given up (or are under way).  No todo is listed
\* twice, so one that was deleted is never used again.
ListMatchesService ==
    \A u \in Users :
      LET listed == ToSet(todos[u])
          underWay(what) == vu[u] = what /\ flight[u] # "none" IN
      /\ IsInjective(todos[u]) /\ listed \subseteq 1 .. made[u]
      /\ listed \ live[u] \subseteq
           gaveUp[u].deletes \cup { t \in {target[u]} : underWay("delete") }
      /\ Cardinality(live[u] \ listed) <=
           gaveUp[u].creates + (IF underWay("create") THEN 1 ELSE 0)

(* Liveness.                                                                *)

\* The run comes to its end: permits are given back, every result is collected
\* and every user notices that the time is over, whatever happens to requests.
RunEnds == <>Ended
=============================================================================
