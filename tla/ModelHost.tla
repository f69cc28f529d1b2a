------------------------------ MODULE ModelHost ------------------------------
(***************************************************************************)
(* The worker's host of the inference server (worker/src/inference/mod.rs  *)
(* and models.rs) and the two tasks that call it: the warm-up the daemon   *)
(* spawns when it starts (main.rs) and the handler of activations          *)
(* (booking/mod.rs).                                                       *)
(*                                                                         *)
(* A server is a process the host spawns and signals; between the signal   *)
(* and its end it still holds its port.  Both callers ask for the same     *)
(* port, so the port is not a parameter here.  ModelHost::stop is called   *)
(* by nobody.                                                              *)
(***************************************************************************)
EXTENDS Naturals, Sequences, FiniteSets

CONSTANTS
    Catalog,        \* the ids of CATALOG
    UnknownIds,     \* other ids an agent_config may name
    DefaultModel,   \* "qwen"
    MaxLoads,       \* bound: activations the handler takes up
    MaxDeaths,      \* bound: servers that die by themselves
    MaxNoStarts     \* bound: times uv is not found or does not start

ASSUME CatalogAssumption == DefaultModel \in Catalog /\ UnknownIds \cap Catalog = {}
ASSUME HostBounds == {MaxLoads, MaxDeaths, MaxNoStarts} \subseteq Nat

Callers == {"warm-up", "handler"}
Free == "free"
NoServer == 0

VARIABLES
    call,           \* what each caller is doing: [at, model]
    holder,         \* who holds the lock of the host
    current,        \* HostState.current: an index of servers, or NoServer
    servers,        \* every server ever spawned: [model, state]
    signalled,      \* history: the servers the host has sent a kill
    loads, deaths, noStarts

hostVars == <<call, holder, current, servers, signalled, loads, deaths, noStarts>>

Alive == {i \in DOMAIN servers : servers[i].state # "dead"}

\* What the host believes of itself: a server of the model asked for.
\* mutant: the model is not compared
AnyCurrent(m) == current # NoServer
IsCurrent(m) == current # NoServer /\ servers[current].model = m

HostInit ==
    /\ call = [c \in Callers |-> [at |-> IF c = "warm-up" THEN "starting" ELSE "idle",
                                  model |-> DefaultModel]]
    /\ holder = Free /\ current = NoServer
    /\ servers = << >> /\ signalled = {}
    /\ loads = 0 /\ deaths = 0 /\ noStarts = 0

Goes(c, to) == call' = [call EXCEPT ![c].at = to]

\* mutant: the lookup is left out
AnyName(m) == TRUE
Known(m) == m \in Catalog

\* The warm-up runs once; the handler takes up one activation at a time and
\* starts the sandbox whatever the outcome, so an outcome ends the call.
\* An unknown id is refused before the lock.
Activated(m) ==
    /\ call["handler"].at = "idle" /\ loads < MaxLoads
    /\ call' = [call EXCEPT !["handler"] =
                  [at |-> IF Known(m) THEN "waiting" ELSE "idle", model |-> m]]
    /\ loads' = loads + 1
    /\ UNCHANGED <<holder, current, servers, signalled, deaths, noStarts>>

WarmUp ==
    /\ call["warm-up"].at = "starting" /\ Goes("warm-up", "waiting")
    /\ UNCHANGED <<holder, current, servers, signalled, loads, deaths, noStarts>>

\* A process that is spawned while another holds the port cannot bind and ends.
Spawned(m) == [model |-> m, state |-> IF Alive = {} THEN "up" ELSE "dead"]

Launch(c) ==
    \/ /\ servers' = Append(servers, Spawned(call[c].model))
       /\ current' = Len(servers')
       /\ UNCHANGED noStarts
    \/ /\ noStarts < MaxNoStarts /\ noStarts' = noStarts + 1
       /\ UNCHANGED <<servers, current>>

\* The lock is taken, and either the model is current, or nothing is, or the
\* old server is taken out of the state and killed.
TakeLock(c) ==
    /\ call[c].at = "waiting" /\ holder = Free
    /\ IsCurrent(call[c].model) \/ current = NoServer
    /\ Goes(c, "idle")
    /\ IF IsCurrent(call[c].model) THEN UNCHANGED <<servers, current, noStarts>>
                                   ELSE Launch(c)
    /\ UNCHANGED <<holder, signalled, loads, deaths>>

\* mutant: the entry stays until a new server replaces it
LeaveIn == current
TakenOut == NoServer

\* mutant: the process is waited for, and not killed
WaitedFor(i) == {}
Killed(i) == {i}

TakeAndKill(c) ==
    /\ call[c].at = "waiting" /\ holder = Free
    /\ current # NoServer /\ ~IsCurrent(call[c].model)
    /\ holder' = c /\ Goes(c, "killing")
    /\ signalled' = signalled \cup Killed(current)
    /\ current' = TakenOut
    /\ UNCHANGED <<servers, loads, deaths, noStarts>>

\* kill().await returns when the process has ended: only then is uv looked up
\* and the next server spawned.
\* mutant: the signal is sent and nobody waits
NoWait == TRUE
OldIsGone == servers[Len(servers)].state = "dead"

Replace(c) ==
    /\ call[c].at = "killing" /\ OldIsGone
    /\ Launch(c)
    /\ holder' = Free /\ Goes(c, "idle")
    /\ UNCHANGED <<signalled, loads, deaths>>

Obeys(i) ==                                     \* the signal takes effect
    /\ i \in signalled /\ servers[i].state # "dead"
    /\ servers' = [servers EXCEPT ![i].state = "dead"]
    /\ UNCHANGED <<call, holder, current, signalled, loads, deaths, noStarts>>

\* A server may crash, or stop answering when the pipes nobody reads are full.
Fails(i, how) ==
    /\ servers[i].state = "up" /\ deaths < MaxDeaths
    /\ servers' = [servers EXCEPT ![i].state = how]
    /\ deaths' = deaths + 1
    /\ UNCHANGED <<call, holder, current, signalled, loads, noStarts>>

Load(c) == TakeLock(c) \/ TakeAndKill(c) \/ Replace(c)
Dying == \E i \in DOMAIN servers : Obeys(i)

HostNext ==
    \/ WarmUp
    \/ \E m \in Catalog \cup UnknownIds : Activated(m)
    \/ \E c \in Callers : Load(c)
    \/ Dying
    \/ \E i \in DOMAIN servers, how \in {"dead", "stuck"} : Fails(i, how)

\* The mutex is handed over in the order of the waiting, the runtime polls both
\* tasks, and SIGKILL ends a process.
HostFairness ==
    /\ \A c \in Callers : SF_hostVars(Load(c))
    /\ WF_hostVars(Dying)

HostSpec == HostInit /\ [][HostNext]_hostVars /\ HostFairness

------------------------------------------------------------------------------
(* Properties *)

\* The state has its types, a caller is killing exactly while it holds the
\* lock, and the entry is only ever the last server spawned.
HostTypeOK ==
    /\ call \in [Callers -> [at : {"starting", "idle", "waiting", "killing"},
                             model : Catalog \cup UnknownIds]]
    /\ \A c \in Callers :
         /\ call[c].at # "idle" => call[c].model \in Catalog
         /\ call[c].at = "killing" <=> holder = c
    /\ holder \in Callers \cup {Free}
    /\ servers \in Seq([model : Catalog, state : {"up", "stuck", "dead"}])
    /\ signalled \subseteq DOMAIN servers
    /\ current \in {NoServer, Len(servers)}
    /\ {loads, deaths, noStarts} \subseteq Nat

\* Two callers, a slow death and a failed start never leave two servers on the
\* machine, nor one the state has forgotten: whatever is alive is the entry,
\* or the server that the holder of the lock is waiting for.
NoStray == \A i \in Alive : i = current \/ (i \in signalled /\ holder # Free)

\* The entry is never a server the host itself has killed: when it is down, it
\* went down by itself.  A call that finds "already running" would otherwise
\* answer Ok for the server a failed swap has just taken away.
EntryIsNotKilled == current \notin signalled

\* When a call returns Ok the entry is the model it asked for: nobody is
\* answered by the server of the other caller.
AnsweredByItsModel ==
    [][\A c \in Callers :
         (call[c].at \in {"waiting", "killing"} /\ call'[c].at = "idle" /\ noStarts' = noStarts)
            => current' # NoServer /\ servers'[current'].model = call[c].model]_hostVars

\* Every load ends, whatever the other task and the servers do.
LoadsEnd == \A c \in Callers : call[c].at \in {"waiting", "killing"} ~> call[c].at = "idle"

\* At most one server is wanted and the state names it: two callers, kills
\* that take their time and failed starts leave nothing else.
OneServer == NoStray /\ EntryIsNotKilled
==============================================================================
