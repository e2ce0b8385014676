------------------------------ MODULE RateLimiter ------------------------------
(***************************************************************************)
(* The per-client limiter of the command API.  A request reads the clock     *)
(* and only then waits for the mutex of Allow, so the times that Allow sees  *)
(* need not increase: a request may carry a time up to MaxLag old, older     *)
(* even than the window it is counted in.                                    *)
(***************************************************************************)
EXTENDS Integers, FiniteSets

CONSTANTS
    Clients,        \* rate keys
    Handlers,       \* concurrent requests
    Limit, Window,  \* 240 and one minute in the code
    MaxClients,     \* entries above which Allow evicts: 100_000 in the code
    MaxLag,         \* how long a request waits between time.Now and the mutex
    MaxClock,       \* bound on the clock
    NoWindow        \* no entry for a client

State == [windowStart : Nat, count : Nat]

ASSUME ParameterAssumption ==
    /\ Limit \in Nat \ {0} /\ Window \in Nat \ {0} /\ MaxClients \in Nat
    /\ MaxLag \in Nat /\ MaxClock \in Nat
ASSUME NoWindowAssumption == NoWindow \notin State

\* The critical section is a look into a map: nobody waits a minute for it.
ASSUME LagAssumption == MaxLag <= Window

VARIABLES
    clock,
    call,       \* the requests between time.Now and the mutex
    clients,    \* the limiter's map
    full,       \* the map of a limiter that never evicts (history)
    ages        \* how long ago the last Burst + 1 requests of each client passed, the
                \* newest first; Window if that was earlier still or never (history)

vars == <<clock, call, clients, full, ages>>

Idle == [client |-> "none"]

\* What a client may get through in a Window of time.  A window of the limiter is
\* Limit requests from the one that opened it on.  When nobody waits for the mutex,
\* two of them count, but for the request that opened the older one, which is a
\* Window old when the newer one opens; a lag of one keeps that request in, and
\* with a longer one a third window counts in the same way.
Burst ==
    CASE MaxLag = 0 -> 2 * Limit - 1
      [] MaxLag = 1 -> 2 * Limit
      [] OTHER -> 3 * Limit - 1
Last == 1 .. Burst + 1

Init ==
    /\ clock = 0
    /\ call = [h \in Handlers |-> Idle]
    /\ clients = [c \in Clients |-> NoWindow]
    /\ full = [c \in Clients |-> NoWindow]
    /\ ages = [c \in Clients |-> [i \in Last |-> Window]]

\* The request of h reads the clock.
Arrive(h, c) ==
    /\ call[h] = Idle
    /\ call' = [call EXCEPT ![h] = [client |-> c, now |-> clock]]
    /\ UNCHANGED <<clock, clients, full, ages>>

\* No entry, or one whose window is over at time now.
Renews(w, now) == w = NoWindow \/ now - w.windowStart >= Window

\* The answer of Allow to a request of time now that finds w, and the entry
\* it leaves.
Verdict(w, now) == Renews(w, now) \/ w.count < Limit

\* Mutant: the copy of the entry is not written back.
Charged_notStored(w, now) ==
    IF Renews(w, now) THEN [windowStart |-> now, count |-> 1] ELSE w

Charged(w, now) ==
    IF Renews(w, now) THEN [windowStart |-> now, count |-> 1]
    ELSE IF w.count < Limit THEN [w EXCEPT !.count = @ + 1] ELSE w

Entries(map) == { c \in Clients : map[c] # NoWindow }

\* Mutant: one window is enough.
Stale_oneWindow(w, now) == w.windowStart < now - Window

\* An entry the sweep deletes: its window started before now - 2 * Window.
Stale(w, now) == w.windowStart < now - 2 * Window

\* The sweep, after an entry was made.
Swept(map, now) ==
    IF Cardinality(Entries(map)) > MaxClients
    THEN [c \in Clients |-> IF c \in Entries(map) /\ Stale(map[c], now)
                            THEN NoWindow ELSE map[c]]
    ELSE map

\* One more request passes; time passes.
Passing(last) == [i \in Last |-> IF i = 1 THEN 0 ELSE last[i - 1]]
Older(last) == [i \in Last |-> IF last[i] < Window THEN last[i] + 1 ELSE Window]

\* Allow, in one piece since it holds the mutex throughout.
Allow(h) ==
    /\ call[h] # Idle
    /\ LET c   == call[h].client
           now == call[h].now
           map == [clients EXCEPT ![c] = Charged(@, now)]
       IN  /\ clients' = IF Renews(clients[c], now) THEN Swept(map, now) ELSE map
           /\ full' = [full EXCEPT ![c] = Charged(@, now)]
           /\ ages' = IF Verdict(clients[c], now)
                      THEN [ages EXCEPT ![c] = Passing(@)] ELSE ages
    /\ call' = [call EXCEPT ![h] = Idle]
    /\ UNCHANGED clock

\* Time passes; no request waits longer than MaxLag.
Tick ==
    /\ clock < MaxClock
    /\ \A h \in Handlers : call[h] # Idle => clock < call[h].now + MaxLag
    /\ clock' = clock + 1
    /\ ages' = [c \in Clients |-> Older(ages[c])]
    /\ UNCHANGED <<call, clients, full>>

Next ==
    \/ \E h \in Handlers : Allow(h) \/ \E c \in Clients : Arrive(h, c)
    \/ Tick

Spec == Init /\ [][Next]_vars

------------------------------------------------------------------------------
Call == [client : Clients, now : 0 .. MaxClock]

\* Every variable has its type, and no entry counts above the limit.
TypeOK ==
    /\ clock \in 0 .. MaxClock
    /\ call \in [Handlers -> {Idle} \cup Call]
    /\ clients \in [Clients -> State \cup {NoWindow}]
    /\ full \in [Clients -> State \cup {NoWindow}]
    /\ ages \in [Clients -> [Last -> 0 .. Window]]

\* The times a request may bring to Allow from now on: those of the waiting
\* requests and the clock.
Stamps == {clock} \cup { call[h].now : h \in { g \in Handlers : call[g] # Idle } }

\* Eviction forgives nobody: a client whose entry was swept gets from Allow the
\* answer, and an entry as new, as if the map had kept everything.  The sweep
\* waits for two windows, although an entry is of no use after one, exactly
\* because a request may still be waiting with a time one window old.
EvictionIsInvisible ==
    \A c \in Clients, now \in Stamps :
        /\ Verdict(clients[c], now) = Verdict(full[c], now)
        /\ Charged(clients[c], now) = Charged(full[c], now)

\* No client gets more than Burst requests through in any Window of time,
\* however late its requests reach the mutex: of the last Burst + 1 that passed
\* the first did so a Window ago or earlier.
BurstIsBounded == \A c \in Clients : ages[c][Burst + 1] = Window
==============================================================================
