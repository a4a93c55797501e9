---------------------------- MODULE ContainerLookup ----------------------------
(***************************************************************************)
(* The PID of a container: the cache of GetContainerPid and the containerd *)
(* client it asks (cadvisor/pkg/proc, cadvisor/pkg/client).                *)
(*                                                                         *)
(* Requests (HTTP handlers, the pods' handler) run GetContainerPid side by *)
(* side.  containerPidLookup is looked up, swept and stored into under its *)
(* mutex, but the runtime is asked in between without it; the client and   *)
(* its namespaces are replaced under mu, and read without it.              *)
(*                                                                         *)
(* Abstractions.  Times are kept as ages (how long ago), up to the age     *)
(* from which on the code does not tell them apart.  A client is a number, *)
(* used again once nobody holds it; who holds a closed one holds Closed.   *)
(* A lookup takes at most MaxDelay.                                        *)
(***************************************************************************)
EXTENDS Integers, FiniteSets

CONSTANTS Requests,
          Containers,
          Namespaces,      \* containerd's
          NamespaceOf,     \* the one a container is in
          Runtimes,        \* the configured runtimes looked at
          MaxPid,          \* bound: starts of a container
          TTL,             \* pidCacheTTLSeconds
          SweepInterval,   \* pidCacheSweepIntervalSeconds
          MaxAge,          \* pidCacheMaxAgeSeconds
          MaxDelay         \* bound: how long a lookup takes

ASSUME LookupAssumption ==
    /\ IsFiniteSet(Requests) /\ Containers # {}
    /\ NamespaceOf \in [Containers -> Namespaces]
    /\ Runtimes \subseteq {"docker", "containerd", "crio"}
    /\ MaxPid \in Nat
    /\ TTL \in Nat /\ SweepInterval \in Nat /\ MaxAge \in Nat /\ MaxDelay \in Nat
    /\ TTL <= MaxAge /\ SweepInterval <= MaxAge + 1

Pids   == 0..MaxPid            \* 0: docker's PID of a stopped container
OldAge == MaxAge + MaxDelay + 1
Older(t) == IF t < OldAge THEN t + 1 ELSE t

Nobody   == "nobody"

\* A request holds two clients at most, and one is the current one.
Clients == 1..(2 * Cardinality(Requests) + 1)
None    == 0
Closed  == -1

VARIABLES
    runtime,     \* conf.Runtime
    running,     \* the PID of each container's process
    started,     \* how often it has been started
    exists,      \* the containers the runtime knows
    daemon,      \* the runtime's daemon answers
    outdated,    \* history: how long ago a PID was last the container's
    cached,      \* the keys of containerPidLookup
    pid, age,    \* containerPidLookup: the PID and its timestamp
    lastSweep,   \* lastPidLookupSweepAt
    client,      \* containerdClient
    namespaces,  \* containerdNamespaces
    open,        \* clients whose connection is open
    mu,          \* who holds mu from one step to the next
    pc, con,     \* a request: where it is, and its containerId
    since,       \* its now
    hit,         \* it has found a PID in the cache that is fresh enough
    cli, loader, \* the clients it has: GetContainerPid's and LoadContainerD's
    left,        \* the namespaces it has still to try
    lost,        \* its last error was a connection error
    got          \* the PID it has from the cache or the runtime

clusterVars == <<runtime, running, started, exists, daemon>>
lookupVars  == <<cached, pid, age>>
clientVars  == <<client, namespaces, open, mu>>
requestVars == <<pc, con, since, hit, cli, loader, left, lost, got>>
vars == <<clusterVars, outdated, lookupVars, lastSweep, clientVars, requestVars>>

Places == {"idle", "sweep", "inspect", "readFile", "client", "list", "loader",
           "listAgain", "namespaces", "range", "load", "reset", "task", "store", "remove", "answer"}

TypeOK ==
    /\ runtime \in Runtimes
    /\ running \in [Containers -> Pids]
    /\ started \in [Containers -> Pids]
    /\ exists \subseteq Containers
    /\ daemon \in BOOLEAN
    /\ outdated \in [Containers -> [Pids -> 0..OldAge]]
    /\ cached \subseteq Containers
    /\ pid \in [Containers -> Pids]
    /\ age \in [Containers -> 0..OldAge]
    /\ lastSweep \in 0..OldAge
    /\ client \in Clients \cup {None}
    /\ namespaces \subseteq Namespaces
    /\ open \subseteq Clients
    /\ mu \in Requests \cup {Nobody}
    /\ pc \in [Requests -> Places]
    /\ con \in [Requests -> Containers]
    /\ since \in [Requests -> 0..MaxDelay]
    /\ hit \in [Requests -> BOOLEAN]
    /\ cli \in [Requests -> Clients \cup {None, Closed}]
    /\ loader \in [Requests -> Clients \cup {None, Closed}]
    /\ left \in [Requests -> SUBSET Namespaces]
    /\ lost \in [Requests -> BOOLEAN]
    /\ got \in [Requests -> Pids]

SomeContainer == CHOOSE c \in Containers : TRUE

Init ==
    /\ runtime \in Runtimes
    /\ running = [c \in Containers |-> 0]
    /\ started = [c \in Containers |-> 0]
    /\ exists = Containers
    /\ daemon = TRUE
    /\ outdated = [c \in Containers |-> [p \in Pids |-> IF p = 0 THEN 0 ELSE OldAge]]
    /\ cached = {}
    /\ pid = [c \in Containers |-> 0]
    /\ age = [c \in Containers |-> 0]
    /\ lastSweep = OldAge
    /\ client = None
    /\ namespaces = {}
    /\ open = {}
    /\ mu = Nobody
    /\ pc = [r \in Requests |-> "idle"]
    /\ con = [r \in Requests |-> SomeContainer]
    /\ since = [r \in Requests |-> 0]
    /\ hit = [r \in Requests |-> FALSE]
    /\ cli = [r \in Requests |-> None]
    /\ loader = [r \in Requests |-> None]
    /\ left = [r \in Requests |-> {}]
    /\ lost = [r \in Requests |-> FALSE]
    /\ got = [r \in Requests |-> 0]

-----------------------------------------------------------------------------
(***************************************************************************)
(* The node: containers, the runtime's daemon, the pods' handler, time.    *)
(***************************************************************************)

SystemVars == <<lookupVars, lastSweep, clientVars, requestVars>>

SetRunning(c, p) ==
    /\ running' = [running EXCEPT ![c] = p]
    /\ outdated' = [outdated EXCEPT ![c][p] = 0]

\* A container that is started again keeps its id (docker) and has another PID.
ContainerStarts(c) ==
    /\ c \in exists /\ running[c] = 0 /\ started[c] < MaxPid
    /\ started' = [started EXCEPT ![c] = @ + 1]
    /\ SetRunning(c, started[c] + 1)
    /\ UNCHANGED <<SystemVars, runtime, exists, daemon>>

ContainerStops(c) ==
    /\ running[c] # 0
    /\ SetRunning(c, 0)
    /\ UNCHANGED <<SystemVars, runtime, started, exists, daemon>>

ContainerRemoved(c) ==
    /\ c \in exists
    /\ exists' = exists \ {c}
    /\ SetRunning(c, 0)
    /\ UNCHANGED <<SystemVars, runtime, started, daemon>>

DaemonChanges ==
    /\ daemon' = ~daemon
    /\ UNCHANGED <<SystemVars, runtime, running, started, exists, outdated>>

RemoveContainerPid(c) ==
    /\ cached' = cached \ {c}
    /\ pid' = [pid EXCEPT ![c] = 0]
    /\ age' = [age EXCEPT ![c] = 0]

\* The pod of a removed container is deleted.
PodForgotten(c) ==
    /\ c \notin exists
    /\ RemoveContainerPid(c)
    /\ UNCHANGED <<clusterVars, outdated, lastSweep, clientVars, requestVars>>

Tick ==
    /\ \A r \in Requests : pc[r] # "idle" => since[r] < MaxDelay
    /\ since' = [r \in Requests |-> IF pc[r] = "idle" THEN 0 ELSE since[r] + 1]
    /\ age' = [c \in Containers |-> IF c \in cached THEN Older(age[c]) ELSE 0]
    /\ lastSweep' = Older(lastSweep)
    /\ outdated' = [c \in Containers |-> [p \in Pids |->
                      IF p = running[c] THEN 0 ELSE Older(outdated[c][p])]]
    /\ UNCHANGED <<clusterVars, cached, pid, clientVars, pc, con, hit, cli, loader,
                   left, lost, got>>

-----------------------------------------------------------------------------
(***************************************************************************)
(* GetContainerPid: the cache.                                             *)
(***************************************************************************)

NodeVars == <<clusterVars, outdated>>

At(r, place) == pc[r] = place
Goto(r, place) == pc' = [pc EXCEPT ![r] = place]

\* The request returns, and what it had is gone.
ReturnWith(r, clis, loaders) ==
    /\ Goto(r, "idle")
    /\ con' = [con EXCEPT ![r] = SomeContainer]
    /\ since' = [since EXCEPT ![r] = 0]
    /\ hit' = [hit EXCEPT ![r] = FALSE]
    /\ cli' = [clis EXCEPT ![r] = None]
    /\ loader' = [loaders EXCEPT ![r] = None]
    /\ left' = [left EXCEPT ![r] = {}]
    /\ lost' = [lost EXCEPT ![r] = FALSE]
    /\ got' = [got EXCEPT ![r] = 0]

Return(r) == ReturnWith(r, cli, loader)

\* A fresh PID is the answer; otherwise the configured runtime is asked.
AfterCache(fresh) ==
    CASE fresh                             -> "answer"
      [] ~fresh /\ runtime = "docker"      -> "inspect"
      [] ~fresh /\ runtime = "crio"        -> "readFile"
      [] ~fresh /\ runtime = "containerd"  -> "client"

\* Mutant: the entry's age is not looked at.
IsFresh_Always(c) == c \in cached

IsFresh(c) == c \in cached /\ age[c] <= TTL

\* The critical section under RLock.
LookupCache(r, c) ==
    /\ At(r, "idle")
    /\ con' = [con EXCEPT ![r] = c]
    /\ hit' = [hit EXCEPT ![r] = IsFresh(c)]
    /\ got' = [got EXCEPT ![r] = IF IsFresh(c) THEN pid[c] ELSE 0]
    /\ Goto(r, IF lastSweep >= SweepInterval THEN "sweep" ELSE AfterCache(IsFresh(c)))
    /\ UNCHANGED <<NodeVars, lookupVars, lastSweep, clientVars, since, cli, loader, left, lost>>

\* Mutant: the comparison is the other way round.
Stale_Inverted(r, c) == c \in cached /\ age[c] - since[r] <= MaxAge

\* The entry is older than maxAge at the request's now.
Stale(r, c) == c \in cached /\ age[c] - since[r] > MaxAge

\* sweepStaleContainerPids: due no more if another request has swept by now.
Sweep(r) ==
    /\ At(r, "sweep")
    /\ IF lastSweep - since[r] < SweepInterval
       THEN UNCHANGED <<lookupVars, lastSweep>>
       ELSE /\ lastSweep' = since[r]
            /\ cached' = {c \in cached : ~Stale(r, c)}
            /\ pid' = [c \in Containers |-> IF Stale(r, c) THEN 0 ELSE pid[c]]
            /\ age' = [c \in Containers |-> IF Stale(r, c) THEN 0 ELSE age[c]]
    /\ Goto(r, AfterCache(hit[r]))
    /\ UNCHANGED <<NodeVars, clientVars, con, since, hit, cli, loader, left, lost, got>>

\* Mutant: the entry gets the time of the store.
StorePid_Now(r) ==
    /\ cached' = cached \cup {con[r]}
    /\ pid' = [pid EXCEPT ![con[r]] = got[r]]
    /\ age' = [age EXCEPT ![con[r]] = 0]

\* The entry gets the time of the request's now, from before the runtime was asked.
StorePid(r) ==
    /\ cached' = cached \cup {con[r]}
    /\ pid' = [pid EXCEPT ![con[r]] = got[r]]
    /\ age' = [age EXCEPT ![con[r]] = since[r]]

Store(r) ==
    /\ At(r, "store")
    /\ StorePid(r)
    /\ Goto(r, "answer")
    /\ UNCHANGED <<NodeVars, lastSweep, clientVars, con, since, hit, cli, loader, left, lost, got>>

\* The runtime does not know the container, or does not answer.
Remove(r) ==
    /\ At(r, "remove")
    /\ RemoveContainerPid(con[r])
    /\ Return(r)
    /\ UNCHANGED <<NodeVars, lastSweep, clientVars>>

Answer(r) ==
    /\ At(r, "answer")
    /\ Return(r)
    /\ UNCHANGED <<NodeVars, lookupVars, lastSweep, clientVars>>

-----------------------------------------------------------------------------
(***************************************************************************)
(* Asking the runtime.                                                     *)
(***************************************************************************)

Got(r, p, place) ==
    /\ got' = [got EXCEPT ![r] = p]
    /\ Goto(r, place)

\* Mutant: the error is not looked at, and what is not a PID is stored.
Inspect_NoError(r) ==
    /\ At(r, "inspect")
    /\ Got(r, IF daemon /\ con[r] \in exists THEN running[con[r]] ELSE -1, "store")
    /\ UNCHANGED <<NodeVars, lookupVars, lastSweep, clientVars, con, since, hit, cli, loader, left, lost>>

\* docker: a stopped container has the PID 0.
Inspect(r) ==
    /\ At(r, "inspect")
    /\ IF daemon /\ con[r] \in exists
       THEN Got(r, running[con[r]], "store")
       ELSE Goto(r, "remove") /\ UNCHANGED got
    /\ UNCHANGED <<NodeVars, lookupVars, lastSweep, clientVars, con, since, hit, cli, loader, left, lost>>

\* cri-o: its state file is read, and nothing is cached.
ReadFile(r) ==
    /\ At(r, "readFile")
    /\ IF con[r] \in exists
       THEN /\ Got(r, running[con[r]], "answer")
            /\ UNCHANGED <<con, since, hit, cli, loader, left, lost>>
       ELSE Return(r)
    /\ UNCHANGED <<NodeVars, lookupVars, lastSweep, clientVars>>

\* GetContainerdClient is called twice, by GetContainerPid and by LoadContainerD.
Has(r, c) ==
    IF pc[r] \in {"client", "list"}
    THEN cli' = [cli EXCEPT ![r] = c] /\ Goto(r, "loader") /\ UNCHANGED loader
    ELSE loader' = [loader EXCEPT ![r] = c] /\ Goto(r, "namespaces") /\ UNCHANGED cli

TakeClient(r) ==
    /\ pc[r] \in {"client", "loader"}
    /\ mu = Nobody /\ client # None
    /\ Has(r, client)
    /\ UNCHANGED <<NodeVars, lookupVars, lastSweep, clientVars, con, since, hit, left, lost, got>>

\* One that no request holds: which number a new client has does not matter.
Unused == CHOOSE c \in Clients :
              LET free(d) == d \notin open /\ \A r \in Requests : d \notin {cli[r], loader[r]}
              IN  free(c) /\ \A d \in Clients : free(d) => c <= d

\* There is no client: one is made, while mu is held.
NewClient(r) ==
    /\ pc[r] \in {"client", "loader"}
    /\ mu = Nobody /\ client = None
    /\ IF daemon
       THEN /\ client' = Unused
            /\ open' = open \cup {Unused}
            /\ mu' = r
            /\ Goto(r, IF pc[r] = "client" THEN "list" ELSE "listAgain")
            /\ UNCHANGED <<con, since, hit, cli, loader, left, lost, got>>
       ELSE Return(r) /\ UNCHANGED <<client, open, mu>>
    /\ UNCHANGED <<NodeVars, lookupVars, lastSweep, namespaces>>

\* Its namespaces are listed; it is kept without them when that fails.
ListNamespaces(r) ==
    /\ pc[r] \in {"list", "listAgain"}
    /\ namespaces' = IF daemon THEN Namespaces ELSE namespaces
    /\ mu' = Nobody
    /\ Has(r, client)
    /\ UNCHANGED <<NodeVars, lookupVars, lastSweep, client, open, con, since, hit, left, lost, got>>

\* Mutant: no namespaces is an error like any other.
WithoutNamespaces_Returns(r) == Return(r)

\* The client is reset, to be made again by the next request.
WithoutNamespaces(r) ==
    /\ Goto(r, "reset")
    /\ UNCHANGED <<con, since, hit, cli, loader, left, lost, got>>

\* LoadContainerD looks at the namespaces, without mu ...
CheckNamespaces(r) ==
    /\ At(r, "namespaces")
    /\ IF namespaces = {}
       THEN WithoutNamespaces(r)
       ELSE Goto(r, "range") /\ UNCHANGED <<con, since, hit, cli, loader, left, lost, got>>
    /\ UNCHANGED <<NodeVars, lookupVars, lastSweep, clientVars>>

\* ... and once more: when a reset has come between, there is nothing to try.
RangeNamespaces(r) ==
    /\ At(r, "range")
    /\ IF namespaces = {}
       THEN Return(r)
       ELSE /\ left' = [left EXCEPT ![r] = namespaces]
            /\ Goto(r, "load")
            /\ UNCHANGED <<con, since, hit, cli, loader, lost, got>>
    /\ UNCHANGED <<NodeVars, lookupVars, lastSweep, clientVars>>

\* A closed client's error is not one of those isGrpcConnectionError knows.
Reaches(c) == c \in open /\ daemon
IsGrpcConnectionError(c) == c \in open /\ ~daemon

\* The container is in the namespace, or the next one is tried.
LoadContainer(r, n) ==
    /\ At(r, "load") /\ n \in left[r]
    /\ IF Reaches(loader[r]) /\ con[r] \in exists /\ NamespaceOf[con[r]] = n
       THEN /\ left' = [left EXCEPT ![r] = {}]
            /\ lost' = [lost EXCEPT ![r] = FALSE]
            /\ Goto(r, "task")
       ELSE /\ left' = [left EXCEPT ![r] = @ \ {n}]
            /\ lost' = [lost EXCEPT ![r] = IsGrpcConnectionError(loader[r])]
            /\ UNCHANGED pc
    /\ UNCHANGED <<NodeVars, lookupVars, lastSweep, clientVars, con, since, hit, cli, loader, got>>

\* None had it: the last error decides.
NotLoaded(r) ==
    /\ At(r, "load") /\ left[r] = {}
    /\ IF lost[r]
       THEN Goto(r, "reset") /\ UNCHANGED <<con, since, hit, cli, loader, left, lost, got>>
       ELSE Return(r)
    /\ UNCHANGED <<NodeVars, lookupVars, lastSweep, clientVars>>

\* Mutant: the client's connection is left open.
CloseClient_Not == UNCHANGED open

CloseClient == open' = open \ {client}

AfterClose(c) == IF c # None /\ c \notin open' THEN Closed ELSE c

\* resetContainerdClient: whichever client is current is closed, be it a newer one.
ResetContainerdClient(r) ==
    /\ At(r, "reset") /\ mu = Nobody
    /\ CloseClient
    /\ client' = None
    /\ namespaces' = {}
    /\ ReturnWith(r, [q \in Requests |-> AfterClose(cli[q])],
                     [q \in Requests |-> AfterClose(loader[q])])
    /\ UNCHANGED <<NodeVars, lookupVars, lastSweep, mu>>

\* TaskService().Get, with the client from before LoadContainerD.  A stopped container
\* has no task.
GetTask(r) ==
    /\ At(r, "task")
    /\ IF Reaches(cli[r]) /\ running[con[r]] # 0
       THEN Got(r, running[con[r]], "store")
       ELSE Goto(r, "remove") /\ UNCHANGED got
    /\ UNCHANGED <<NodeVars, lookupVars, lastSweep, clientVars, con, since, hit, cli, loader, left, lost>>

-----------------------------------------------------------------------------

Node == \/ \E c \in Containers : ContainerStarts(c) \/ ContainerStops(c) \/ ContainerRemoved(c)
        \/ \E c \in Containers : PodForgotten(c)
        \/ DaemonChanges

Step(r) == \/ Sweep(r) \/ Inspect(r) \/ ReadFile(r)
           \/ TakeClient(r) \/ NewClient(r) \/ ListNamespaces(r)
           \/ CheckNamespaces(r) \/ RangeNamespaces(r)
           \/ (\E n \in Namespaces : LoadContainer(r, n)) \/ NotLoaded(r)
           \/ ResetContainerdClient(r) \/ GetTask(r)
           \/ Store(r) \/ Remove(r) \/ Answer(r)

Poll == \E r \in Requests, c \in Containers : LookupCache(r, c)

Next == Node \/ Poll \/ (\E r \in Requests : Step(r)) \/ Tick

Spec == Init /\ [][Next]_vars

\* Time passes (MaxDelay is a bound on the states, not a deadline), and the goroutine of
\* a request that can go on does.  That mu, a sync.Mutex, lets nobody starve is not used.
Fairness == SF_vars(Tick) /\ \A r \in Requests : WF_vars(Step(r))

\* An assumption on the master, not on this code: it goes on polling.  Both the sweep
\* and a new client come with a request only.
PollsContinue == SF_vars(Poll)

FairSpec == Spec /\ Fairness /\ PollsContinue

-----------------------------------------------------------------------------
(***************************************************************************)
(* Properties.                                                             *)
(***************************************************************************)

\* A PID that is answered was the container's at some time within TTL of the request's
\* start, however long lookups take and in whatever order they store what they found.
FreshAnswers ==
    \A r \in Requests : At(r, "answer") => outdated[con[r]][got[r]] <= TTL + since[r]

\* Only the current client has an open connection: requests that reset the client at the
\* same time, or make a new one, leak none.
OneConnection == open \subseteq {client}

\* An entry of a removed container is gone for good in the end, even if a lookup that was
\* under way has stored it again after the removal.
DeadForgotten == \A c \in Containers : c \notin exists ~> [](c \notin cached)

\* A client that could not list its namespaces is not kept: as long as it is, no container
\* is found, whether the daemon answers or not.
NamespacesLoaded == client # None /\ namespaces = {} ~> client = None \/ namespaces # {}

=============================================================================
