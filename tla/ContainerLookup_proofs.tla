------------------------ MODULE ContainerLookup_proofs ------------------------
(***************************************************************************)
(* Proofs about ContainerLookup: an answered PID is no older than TTL, and *)
(* the current client's connection is the only one open.                   *)
(*                                                                         *)
(* The argument.  A PID that is running is up to date.  What the runtime   *)
(* has told a request is therefore outdated by the request's own duration  *)
(* at most, and that is the age the entry gets when it is stored: an entry *)
(* is never more outdated than it is old.  So a fresh one is outdated by   *)
(* TTL at most, and by the request's duration more when it is answered.    *)
(***************************************************************************)
EXTENDS ContainerLookup, FiniteSetTheorems, TLAPS

\* What of the state the argument is about.
LookupType ==
    /\ runtime \in {"docker", "containerd", "crio"}
    /\ running \in [Containers -> Pids]
    /\ started \in [Containers -> Pids]
    /\ outdated \in [Containers -> [Pids -> 0..OldAge]]
    /\ cached \subseteq Containers
    /\ pid \in [Containers -> Pids]
    /\ age \in [Containers -> 0..OldAge]
    /\ pc \in [Requests -> Places]
    /\ con \in [Requests -> Containers]
    /\ since \in [Requests -> 0..MaxDelay]
    /\ hit \in [Requests -> BOOLEAN]
    /\ got \in [Requests -> Pids]

\* The current PID is up to date.
RunningInv == \A c \in Containers : outdated[c][running[c]] = 0

\* An entry is never more outdated than it is old.
EntryInv == \A c \in cached : outdated[c][pid[c]] <= age[c]

\* What the runtime has told a request is not older than the request.
ToldInv == \A r \in Requests : pc[r] = "store" => outdated[con[r]][got[r]] <= since[r]

\* What the cache has told it is, at the request's start, not older than TTL.
HitInv == \A r \in Requests :
             pc[r] = "answer" \/ (pc[r] = "sweep" /\ hit[r])
                 => outdated[con[r]][got[r]] <= TTL + since[r]

FreshInv == LookupType /\ RunningInv /\ EntryInv /\ ToldInv /\ HitInv

\* Ageing keeps the order, takes one step at most, and stays within its range.
LEMMA OlderFacts ==
    ASSUME NEW s \in 0..OldAge, NEW t \in 0..OldAge
    PROVE  /\ Older(t) \in 0..OldAge
           /\ Older(t) <= t + 1
           /\ s <= t => Older(s) <= Older(t)
BY LookupAssumption DEF Older, OldAge

\* The constants are numbers, the largest duration is an age, and a PID of zero exists.
LEMMA Numbers ==
    /\ TTL \in Nat /\ MaxDelay \in Nat /\ OldAge \in Nat /\ MaxPid \in Nat
    /\ MaxDelay <= OldAge
    /\ 0 \in Pids
    /\ Runtimes \subseteq {"docker", "containerd", "crio"}
BY LookupAssumption DEF OldAge, Pids

\* The state the argument is about.
freshVars == <<runtime, running, started, outdated, cached, pid, age, pc, con, since, hit, got>>

\* A step that leaves all of it alone changes nothing.
LEMMA FreshStutter == FreshInv /\ UNCHANGED freshVars => FreshInv'
BY DEF FreshInv, LookupType, RunningInv, EntryInv, ToldInv, HitInv, freshVars

\* The initial state: nothing is cached, and nobody is asking.
LEMMA FreshInit == Init => FreshInv
<1> SUFFICES ASSUME Init PROVE FreshInv
    OBVIOUS
<1>1. LookupType
    <2>1. SomeContainer \in Containers
        BY LookupAssumption DEF SomeContainer
    <2> QED
        BY <2>1, Numbers, LookupAssumption DEF Init, LookupType, Places, Pids, OldAge
<1>2. RunningInv
    BY Numbers DEF Init, RunningInv, Pids
<1>3. EntryInv /\ ToldInv /\ HitInv
    BY DEF Init, EntryInv, ToldInv, HitInv
<1> QED BY <1>1, <1>2, <1>3 DEF FreshInv

-----------------------------------------------------------------------------
(***************************************************************************)
(* The node's steps.                                                       *)
(***************************************************************************)

\* A container that starts or stops: its new PID is up to date, and the one it had is so
\* up to this moment.
LEMMA SetRunningKeeps ==
    ASSUME FreshInv, NEW c \in Containers, NEW p \in Pids, SetRunning(c, p),
           started' \in [Containers -> Pids],
           UNCHANGED <<runtime, cached, pid, age, pc, con, since, hit, got>>
    PROVE  FreshInv'
<1>1. running' = [running EXCEPT ![c] = p] /\ outdated' = [outdated EXCEPT ![c][p] = 0]
    BY DEF SetRunning
<1>2. LookupType'
    BY <1>1, Numbers DEF FreshInv, LookupType
<1>3. \A d \in Containers, q \in Pids :
          /\ outdated'[d][q] = IF d = c /\ q = p THEN 0 ELSE outdated[d][q]
          /\ outdated'[d][q] <= outdated[d][q]
    BY <1>1, Numbers DEF FreshInv, LookupType
<1>4. RunningInv'
    <2> SUFFICES ASSUME NEW d \in Containers PROVE outdated'[d][running'[d]] = 0
        BY DEF RunningInv
    <2>1. running'[d] \in Pids /\ running'[d] = IF d = c THEN p ELSE running[d]
        BY <1>1 DEF FreshInv, LookupType
    <2> QED BY <1>3, <2>1 DEF FreshInv, RunningInv
<1>5. EntryInv'
    <2> SUFFICES ASSUME NEW d \in cached PROVE outdated'[d][pid[d]] <= age[d]
        BY DEF EntryInv
    <2>1. d \in Containers /\ pid[d] \in Pids
        BY DEF FreshInv, LookupType
    <2>2. outdated[d][pid[d]] <= age[d] /\ outdated[d][pid[d]] \in Int
          /\ outdated'[d][pid[d]] \in Int /\ age[d] \in Int
        BY <2>1, <1>2, Numbers DEF FreshInv, LookupType, EntryInv
    <2> QED BY <1>3, <2>1, <2>2
<1>6. ASSUME NEW r \in Requests, NEW bound \in Int, outdated[con[r]][got[r]] <= bound
      PROVE  outdated'[con[r]][got[r]] <= bound
    <2>1. con[r] \in Containers /\ got[r] \in Pids
        BY DEF FreshInv, LookupType
    <2>2. outdated[con[r]][got[r]] \in Int /\ outdated'[con[r]][got[r]] \in Int
        BY <2>1, <1>2, Numbers DEF FreshInv, LookupType
    <2> QED BY <1>3, <1>6, <2>1, <2>2
<1>7. \A r \in Requests : since[r] \in Int /\ TTL + since[r] \in Int
    BY Numbers DEF FreshInv, LookupType
<1>8. ToldInv'
    BY <1>6, <1>7 DEF FreshInv, ToldInv
<1>9. HitInv'
    BY <1>6, <1>7 DEF FreshInv, HitInv
<1> QED BY <1>2, <1>4, <1>5, <1>8, <1>9 DEF FreshInv

\* Containers start, stop and are removed; the daemon goes and comes back.
LEMMA NodeKeeps == FreshInv /\ Node => FreshInv'
<1> SUFFICES ASSUME FreshInv, Node PROVE FreshInv'
    OBVIOUS
<1>1. ASSUME NEW c \in Containers, ContainerStarts(c) PROVE FreshInv'
    <2>1. started[c] + 1 \in Pids
        BY <1>1, Numbers DEF FreshInv, LookupType, ContainerStarts, Pids
    <2>2. started' \in [Containers -> Pids]
        BY <1>1, <2>1 DEF FreshInv, LookupType, ContainerStarts
    <2> QED
        BY <1>1, <2>1, <2>2, SetRunningKeeps
           DEF ContainerStarts, SystemVars, lookupVars, requestVars
<1>2. ASSUME NEW c \in Containers, ContainerStops(c) \/ ContainerRemoved(c) PROVE FreshInv'
    <2>1. SetRunning(c, 0) /\ started' = started
          /\ UNCHANGED <<runtime, cached, pid, age, pc, con, since, hit, got>>
        BY <1>2 DEF ContainerStops, ContainerRemoved, SystemVars, lookupVars, requestVars
    <2>2. started' \in [Containers -> Pids]
        BY <2>1 DEF FreshInv, LookupType
    <2> QED BY <2>1, <2>2, Numbers, SetRunningKeeps
<1>3. ASSUME NEW c \in Containers, PodForgotten(c) PROVE FreshInv'
    <2>1. /\ RemoveContainerPid(c)
          /\ UNCHANGED <<runtime, running, started, outdated, pc, con, since, hit, got>>
        BY <1>3 DEF PodForgotten, clusterVars, requestVars
    <2>2. LookupType'
        BY <2>1, Numbers DEF FreshInv, LookupType, RemoveContainerPid
    <2>3. EntryInv'
        BY <2>1 DEF FreshInv, LookupType, EntryInv, RemoveContainerPid
    <2> QED BY <2>1, <2>2, <2>3 DEF FreshInv, RunningInv, ToldInv, HitInv
<1>4. CASE DaemonChanges
    BY <1>4, FreshStutter DEF DaemonChanges, SystemVars, lookupVars, requestVars, freshVars
<1> QED BY <1>1, <1>2, <1>3, <1>4 DEF Node

\* Time passes: what is outdated ages as fast as the entry or the request it is held by.
LEMMA TickKeeps == FreshInv /\ Tick => FreshInv'
<1> SUFFICES ASSUME FreshInv, Tick PROVE FreshInv'
    OBVIOUS
<1>1. LookupType'
    <2>1. since' \in [Requests -> 0..MaxDelay]
        <3> SUFFICES ASSUME NEW r \in Requests
                     PROVE  (IF pc[r] = "idle" THEN 0 ELSE since[r] + 1) \in 0..MaxDelay
            BY DEF Tick
        <3> QED BY Numbers DEF FreshInv, LookupType, Tick
    <2>2. age' \in [Containers -> 0..OldAge]
        <3> SUFFICES ASSUME NEW c \in Containers
                     PROVE  (IF c \in cached THEN Older(age[c]) ELSE 0) \in 0..OldAge
            BY DEF Tick
        <3> QED BY OlderFacts, Numbers DEF FreshInv, LookupType
    <2>3. outdated' \in [Containers -> [Pids -> 0..OldAge]]
        <3> SUFFICES ASSUME NEW c \in Containers, NEW p \in Pids
                     PROVE  (IF p = running[c] THEN 0 ELSE Older(outdated[c][p])) \in 0..OldAge
            BY DEF Tick
        <3> QED BY OlderFacts, Numbers DEF FreshInv, LookupType
    <2> QED BY <2>1, <2>2, <2>3 DEF FreshInv, LookupType, Tick, clusterVars
<1>2. \A c \in Containers, p \in Pids :
          outdated'[c][p] = IF p = running[c] THEN 0 ELSE Older(outdated[c][p])
    BY DEF Tick
<1>3. ASSUME NEW c \in Containers, NEW p \in Pids
      PROVE  /\ outdated'[c][p] <= Older(outdated[c][p])
             /\ outdated'[c][p] <= outdated[c][p] + 1
             /\ outdated'[c][p] \in Int
    <2>1. outdated[c][p] \in 0..OldAge
        BY DEF FreshInv, LookupType
    <2> QED BY <1>2, <2>1, OlderFacts
<1>4. RunningInv'
    BY <1>2 DEF FreshInv, LookupType, RunningInv, Tick, clusterVars
<1>5. EntryInv'
    <2> SUFFICES ASSUME NEW c \in cached PROVE outdated'[c][pid[c]] <= age'[c]
        BY DEF EntryInv, Tick
    <2>1. c \in Containers /\ pid[c] \in Pids
        BY DEF FreshInv, LookupType
    <2>2. age'[c] = Older(age[c])
        BY <2>1 DEF Tick
    <2>3. /\ outdated[c][pid[c]] \in 0..OldAge /\ age[c] \in 0..OldAge
          /\ outdated[c][pid[c]] <= age[c]
        BY <2>1 DEF FreshInv, LookupType, EntryInv
    <2>4. Older(outdated[c][pid[c]]) <= Older(age[c])
          /\ Older(outdated[c][pid[c]]) \in 0..OldAge /\ Older(age[c]) \in 0..OldAge
        BY <2>3, OlderFacts
    <2> QED BY <1>3, <2>1, <2>2, <2>4
<1>6. ASSUME NEW r \in Requests, pc[r] # "idle"
      PROVE  /\ since'[r] = since[r] + 1
             /\ outdated'[con[r]][got[r]] <= outdated[con[r]][got[r]] + 1
             /\ outdated'[con[r]][got[r]] \in Int /\ outdated[con[r]][got[r]] \in Int
             /\ since[r] \in Int
    <2>1. con[r] \in Containers /\ got[r] \in Pids
        BY DEF FreshInv, LookupType
    <2>2. outdated[con[r]][got[r]] \in Int /\ since[r] \in Int
        BY <2>1 DEF FreshInv, LookupType
    <2> QED BY <1>3, <1>6, <2>1, <2>2 DEF Tick
<1>7. ToldInv'
    <2> SUFFICES ASSUME NEW r \in Requests, pc[r] = "store"
                 PROVE  outdated'[con[r]][got[r]] <= since'[r]
        BY DEF ToldInv, Tick
    <2>1. outdated[con[r]][got[r]] <= since[r]
        BY DEF FreshInv, ToldInv
    <2> QED BY <1>6, <2>1
<1>8. HitInv'
    <2> SUFFICES ASSUME NEW r \in Requests, pc[r] = "answer" \/ (pc[r] = "sweep" /\ hit[r])
                 PROVE  outdated'[con[r]][got[r]] <= TTL + since'[r]
        BY DEF HitInv, Tick
    <2>1. outdated[con[r]][got[r]] <= TTL + since[r]
        BY DEF FreshInv, HitInv
    <2> QED BY <1>6, <2>1, Numbers
<1> QED BY <1>1, <1>4, <1>5, <1>7, <1>8 DEF FreshInv

-----------------------------------------------------------------------------
(***************************************************************************)
(* The steps of a request.                                                 *)
(***************************************************************************)

nodeAndCache == <<runtime, running, started, outdated, cached, pid, age>>

\* A request that goes on, to a place where what it has got is not for the cache or the
\* caller yet.
LEMMA GoesOnKeeps ==
    ASSUME FreshInv, NEW r \in Requests, NEW place \in Places \ {"sweep", "store", "answer"},
           Goto(r, place), UNCHANGED <<nodeAndCache, con, since, hit, got>>
    PROVE  FreshInv'
<1>1. pc' = [pc EXCEPT ![r] = place]
    BY DEF Goto
<1>2. LookupType'
    BY <1>1 DEF FreshInv, LookupType, nodeAndCache
<1>3. ToldInv' /\ HitInv'
    BY <1>1 DEF FreshInv, LookupType, ToldInv, HitInv, nodeAndCache
<1>4. RunningInv' /\ EntryInv'
    BY DEF FreshInv, RunningInv, EntryInv, nodeAndCache
<1> QED BY <1>2, <1>3, <1>4 DEF FreshInv

\* A request that returns.
LEMMA ReturnKeeps ==
    ASSUME FreshInv, NEW r \in Requests, NEW clis, NEW loaders, ReturnWith(r, clis, loaders),
           UNCHANGED nodeAndCache
    PROVE  FreshInv'
<1>1. /\ pc' = [pc EXCEPT ![r] = "idle"]
      /\ con' = [con EXCEPT ![r] = SomeContainer]
      /\ since' = [since EXCEPT ![r] = 0]
      /\ hit' = [hit EXCEPT ![r] = FALSE]
      /\ got' = [got EXCEPT ![r] = 0]
    BY DEF ReturnWith, Goto
<1>2. SomeContainer \in Containers
    BY LookupAssumption DEF SomeContainer
<1>3. LookupType'
    BY <1>1, <1>2, Numbers DEF FreshInv, LookupType, nodeAndCache, Places
<1>4. ASSUME NEW q \in Requests, q # r
      PROVE  UNCHANGED <<pc[q], con[q], since[q], hit[q], got[q]>>
    BY <1>1, <1>4 DEF FreshInv, LookupType
<1>5. pc'[r] = "idle"
    BY <1>1 DEF FreshInv, LookupType
<1>6. ToldInv' /\ HitInv'
    BY <1>4, <1>5 DEF FreshInv, ToldInv, HitInv, nodeAndCache
<1>7. RunningInv' /\ EntryInv'
    BY DEF FreshInv, RunningInv, EntryInv, nodeAndCache
<1> QED BY <1>3, <1>6, <1>7 DEF FreshInv

\* The runtime tells the current PID, which is for the cache or (cri-o) for the caller.
LEMMA GotKeeps ==
    ASSUME FreshInv, NEW r \in Requests, NEW place \in {"store", "answer"},
           Got(r, running[con[r]], place), UNCHANGED <<nodeAndCache, con, since, hit>>
    PROVE  FreshInv'
<1>1. got' = [got EXCEPT ![r] = running[con[r]]] /\ pc' = [pc EXCEPT ![r] = place]
    BY DEF Got, Goto
<1>2. con[r] \in Containers /\ running[con[r]] \in Pids
    BY DEF FreshInv, LookupType
<1>3. LookupType'
    BY <1>1, <1>2 DEF FreshInv, LookupType, nodeAndCache, Places
<1>4. outdated'[con'[r]][got'[r]] = 0 /\ since'[r] \in Nat
    BY <1>1, <1>2, <1>3, Numbers DEF FreshInv, LookupType, RunningInv, nodeAndCache
<1>5. ASSUME NEW q \in Requests, q # r
      PROVE  UNCHANGED <<pc[q], con[q], since[q], hit[q], got[q]>>
    BY <1>1, <1>5 DEF FreshInv, LookupType, nodeAndCache
<1>6. 0 <= since'[r] /\ 0 <= TTL + since'[r]
    BY <1>4, Numbers
<1>7. ToldInv' /\ HitInv'
    BY <1>4, <1>5, <1>6 DEF FreshInv, ToldInv, HitInv, nodeAndCache
<1>8. RunningInv' /\ EntryInv'
    BY DEF FreshInv, RunningInv, EntryInv, nodeAndCache
<1> QED BY <1>3, <1>7, <1>8 DEF FreshInv

\* Where a request goes after the cache.
LEMMA AfterCachePlaces ==
    ASSUME FreshInv
    PROVE  /\ AfterCache(TRUE) = "answer"
           /\ AfterCache(FALSE) \in Places \ {"sweep", "store", "answer"}
BY DEF FreshInv, LookupType, AfterCache, Places

\* A hit is an entry of TTL at most.
LEMMA LookupKeeps ==
    ASSUME FreshInv, NEW r \in Requests, NEW c \in Containers, LookupCache(r, c)
    PROVE  FreshInv'
<1>1. /\ pc[r] = "idle"
      /\ con' = [con EXCEPT ![r] = c]
      /\ hit' = [hit EXCEPT ![r] = IsFresh(c)]
      /\ got' = [got EXCEPT ![r] = IF IsFresh(c) THEN pid[c] ELSE 0]
      /\ pc' = [pc EXCEPT ![r] = IF lastSweep >= SweepInterval THEN "sweep"
                                 ELSE AfterCache(IsFresh(c))]
      /\ UNCHANGED <<nodeAndCache, since>>
    BY DEF LookupCache, At, Goto, NodeVars, clusterVars, lookupVars, nodeAndCache
<1>2. IsFresh(c) \in BOOLEAN
    BY DEF IsFresh
<1>3. pc'[r] \in Places \ {"store"} /\ (pc'[r] = "answer" => IsFresh(c))
    BY <1>1, <1>2, AfterCachePlaces DEF FreshInv, LookupType, Places
<1>4. (IF IsFresh(c) THEN pid[c] ELSE 0) \in Pids
    BY Numbers DEF FreshInv, LookupType
<1>5. pc' \in [Requests -> Places]
    BY <1>1, <1>3 DEF FreshInv, LookupType
<1>6. LookupType'
    BY <1>1, <1>2, <1>4, <1>5 DEF FreshInv, LookupType, nodeAndCache
<1>7. ASSUME NEW q \in Requests, q # r
      PROVE  UNCHANGED <<pc[q], con[q], since[q], hit[q], got[q]>>
    BY <1>1, <1>7 DEF FreshInv, LookupType, nodeAndCache
<1>8. con'[r] = c /\ hit'[r] = IsFresh(c) /\ got'[r] = IF IsFresh(c) THEN pid[c] ELSE 0
    BY <1>1 DEF FreshInv, LookupType
<1>9. ASSUME IsFresh(c) PROVE outdated'[con'[r]][got'[r]] <= TTL + since'[r]
    <2>1. outdated[c][pid[c]] <= age[c] /\ age[c] <= TTL
        BY <1>9 DEF FreshInv, EntryInv, IsFresh
    <2>2. outdated[c][pid[c]] \in Int /\ age[c] \in Int /\ since[r] \in Nat
        BY Numbers DEF FreshInv, LookupType
    <2>3. outdated[c][pid[c]] <= TTL + since[r]
        BY <2>1, <2>2, Numbers
    <2> QED BY <1>1, <1>8, <1>9, <2>3 DEF nodeAndCache
<1>10. ToldInv'
    BY <1>1, <1>3, <1>7 DEF FreshInv, ToldInv, nodeAndCache
<1>11. HitInv'
    BY <1>1, <1>3, <1>7, <1>8, <1>9 DEF FreshInv, HitInv, nodeAndCache
<1>12. RunningInv' /\ EntryInv'
    BY <1>1 DEF FreshInv, RunningInv, EntryInv, nodeAndCache
<1> QED BY <1>6, <1>10, <1>11, <1>12 DEF FreshInv

\* The sweep removes entries, and leaves the others and the request's hit as they are.
LEMMA SweepKeeps ==
    ASSUME FreshInv, NEW r \in Requests, Sweep(r)
    PROVE  FreshInv'
<1>1. /\ pc[r] = "sweep"
      /\ pc' = [pc EXCEPT ![r] = AfterCache(hit[r])]
      /\ UNCHANGED <<runtime, running, started, outdated, con, since, hit, got>>
    BY DEF Sweep, At, Goto, NodeVars, clusterVars
<1>2. hit[r] \in BOOLEAN
    BY DEF FreshInv, LookupType
<1>3. pc'[r] \in Places \ {"store", "sweep"} /\ (pc'[r] = "answer" => hit[r])
    BY <1>1, <1>2, AfterCachePlaces DEF FreshInv, LookupType, Places
<1>4. /\ cached' \subseteq cached
      /\ \A c \in cached' : pid'[c] = pid[c] /\ age'[c] = age[c]
      /\ pid' \in [Containers -> Pids] /\ age' \in [Containers -> 0..OldAge]
    <2>1. CASE UNCHANGED lookupVars
        BY <2>1 DEF lookupVars, FreshInv, LookupType
    <2>2. CASE /\ cached' = {c \in cached : ~Stale(r, c)}
               /\ pid' = [c \in Containers |-> IF Stale(r, c) THEN 0 ELSE pid[c]]
               /\ age' = [c \in Containers |-> IF Stale(r, c) THEN 0 ELSE age[c]]
        BY <2>2, Numbers DEF FreshInv, LookupType
    <2> QED BY <2>1, <2>2 DEF Sweep
<1>5. pc' \in [Requests -> Places]
    BY <1>1, <1>3 DEF FreshInv, LookupType
<1>6. LookupType'
    BY <1>1, <1>4, <1>5 DEF FreshInv, LookupType
<1>7. \A q \in Requests : q # r => pc'[q] = pc[q]
    BY <1>1 DEF FreshInv, LookupType
<1>8. ToldInv' /\ HitInv'
    BY <1>1, <1>3, <1>7 DEF FreshInv, ToldInv, HitInv
<1>9. RunningInv' /\ EntryInv'
    BY <1>1, <1>4 DEF FreshInv, RunningInv, EntryInv
<1> QED BY <1>6, <1>8, <1>9 DEF FreshInv

\* An entry gets the age of the request that stores it.
LEMMA StoreKeeps ==
    ASSUME FreshInv, NEW r \in Requests, Store(r)
    PROVE  FreshInv'
<1>1. /\ pc[r] = "store"
      /\ pc' = [pc EXCEPT ![r] = "answer"]
      /\ cached' = cached \cup {con[r]}
      /\ pid' = [pid EXCEPT ![con[r]] = got[r]]
      /\ age' = [age EXCEPT ![con[r]] = since[r]]
      /\ UNCHANGED <<runtime, running, started, outdated, con, since, hit, got>>
    BY DEF Store, StorePid, At, Goto, NodeVars, clusterVars
<1>2. con[r] \in Containers /\ got[r] \in Pids /\ since[r] \in 0..MaxDelay /\ since[r] \in 0..OldAge
    BY Numbers DEF FreshInv, LookupType
<1>3. LookupType'
    BY <1>1, <1>2 DEF FreshInv, LookupType, Places
<1>4. outdated[con[r]][got[r]] <= since[r]
    BY <1>1 DEF FreshInv, ToldInv
<1>5. outdated[con[r]][got[r]] <= TTL + since[r]
    BY <1>2, <1>4, Numbers DEF FreshInv, LookupType
<1>6. EntryInv'
    <2> SUFFICES ASSUME NEW c \in cached' PROVE outdated[c][pid'[c]] <= age'[c]
        BY <1>1 DEF EntryInv
    <2>1. CASE c = con[r]
        BY <1>1, <1>2, <1>4, <2>1 DEF FreshInv, LookupType
    <2>2. CASE c # con[r]
        BY <1>1, <2>2 DEF FreshInv, LookupType, EntryInv
    <2> QED BY <2>1, <2>2
<1>7. \A q \in Requests : pc'[q] = IF q = r THEN "answer" ELSE pc[q]
    BY <1>1 DEF FreshInv, LookupType
<1>8. ToldInv' /\ HitInv'
    BY <1>1, <1>5, <1>7 DEF FreshInv, ToldInv, HitInv
<1>9. RunningInv'
    BY <1>1 DEF FreshInv, RunningInv
<1> QED BY <1>3, <1>6, <1>8, <1>9 DEF FreshInv

\* The entry of a container whose lookup has failed goes, and the request returns.
LEMMA RemoveKeeps ==
    ASSUME FreshInv, NEW r \in Requests, Remove(r)
    PROVE  FreshInv'
<1>1. /\ cached' = cached \ {con[r]}
      /\ pid' = [pid EXCEPT ![con[r]] = 0]
      /\ age' = [age EXCEPT ![con[r]] = 0]
      /\ pc' = [pc EXCEPT ![r] = "idle"]
      /\ con' = [con EXCEPT ![r] = SomeContainer]
      /\ since' = [since EXCEPT ![r] = 0]
      /\ hit' = [hit EXCEPT ![r] = FALSE]
      /\ got' = [got EXCEPT ![r] = 0]
      /\ UNCHANGED <<runtime, running, started, outdated>>
    BY DEF Remove, RemoveContainerPid, Return, ReturnWith, Goto, NodeVars, clusterVars
<1>2. SomeContainer \in Containers
    BY LookupAssumption DEF SomeContainer
<1>3. LookupType'
    BY <1>1, <1>2, Numbers DEF FreshInv, LookupType, Places
<1>4. ASSUME NEW q \in Requests, q # r
      PROVE  UNCHANGED <<pc[q], con[q], since[q], hit[q], got[q]>>
    BY <1>1, <1>4 DEF FreshInv, LookupType
<1>5. pc'[r] = "idle"
    BY <1>1 DEF FreshInv, LookupType
<1>6. ToldInv' /\ HitInv'
    BY <1>1, <1>4, <1>5 DEF FreshInv, ToldInv, HitInv
<1>7. RunningInv' /\ EntryInv'
    BY <1>1 DEF FreshInv, LookupType, RunningInv, EntryInv
<1> QED BY <1>3, <1>6, <1>7 DEF FreshInv

\* Every step of a request.
LEMMA StepKeeps ==
    ASSUME FreshInv, NEW r \in Requests, Step(r)
    PROVE  FreshInv'
<1> DEFINE Going == Places \ {"sweep", "store", "answer"}
<1> USE DEF nodeAndCache, NodeVars, clusterVars, lookupVars
<1>1. ASSUME \E place \in Going : Goto(r, place),
             UNCHANGED <<nodeAndCache, con, since, hit, got>>
      PROVE  FreshInv'
    BY <1>1, GoesOnKeeps
<1>2. ASSUME Return(r), UNCHANGED nodeAndCache
      PROVE  FreshInv'
    BY <1>2, ReturnKeeps DEF Return
<1>3. \A place \in {"inspect", "readFile", "client", "list", "loader", "listAgain",
                    "namespaces", "range", "load", "reset", "task", "remove"} : place \in Going
    BY DEF Places
<1>4. CASE Sweep(r)
    BY <1>4, SweepKeeps
<1>5. CASE Inspect(r)
    <2>1. CASE Got(r, running[con[r]], "store")
        BY <1>5, <2>1, GotKeeps DEF Inspect
    <2>2. CASE Goto(r, "remove") /\ UNCHANGED got
        BY <1>5, <2>2, <1>1, <1>3 DEF Inspect
    <2> QED BY <1>5, <2>1, <2>2 DEF Inspect
<1>6. CASE ReadFile(r)
    <2>1. CASE Got(r, running[con[r]], "answer") /\ UNCHANGED <<con, since, hit>>
        BY <1>6, <2>1, GotKeeps DEF ReadFile
    <2>2. CASE Return(r)
        BY <1>6, <2>2, <1>2 DEF ReadFile
    <2> QED BY <1>6, <2>1, <2>2 DEF ReadFile
<1>7. CASE TakeClient(r)
    BY <1>7, <1>1, <1>3 DEF TakeClient, Has
<1>8. CASE NewClient(r)
    <2>1. CASE daemon
        BY <1>8, <2>1, <1>1, <1>3 DEF NewClient
    <2>2. CASE ~daemon
        BY <1>8, <2>2, <1>2 DEF NewClient
    <2> QED BY <2>1, <2>2
<1>9. CASE ListNamespaces(r)
    BY <1>9, <1>1, <1>3 DEF ListNamespaces, Has
<1>10. CASE CheckNamespaces(r)
    BY <1>10, <1>1, <1>3 DEF CheckNamespaces, WithoutNamespaces
<1>11. CASE RangeNamespaces(r)
    <2>1. CASE namespaces = {}
        BY <1>11, <2>1, <1>2 DEF RangeNamespaces
    <2>2. CASE namespaces # {}
        BY <1>11, <2>2, <1>1, <1>3 DEF RangeNamespaces
    <2> QED BY <2>1, <2>2
<1>12. ASSUME NEW n \in Namespaces, LoadContainer(r, n)
       PROVE  FreshInv'
    <2>1. CASE Goto(r, "task")
        BY <1>12, <2>1, <1>1, <1>3 DEF LoadContainer
    <2>2. CASE UNCHANGED pc
        BY <1>12, <2>2, FreshStutter DEF LoadContainer, freshVars
    <2> QED BY <1>12, <2>1, <2>2 DEF LoadContainer
<1>13. CASE NotLoaded(r)
    <2>1. CASE lost[r]
        BY <1>13, <2>1, <1>1, <1>3 DEF NotLoaded
    <2>2. CASE ~lost[r]
        BY <1>13, <2>2, <1>2 DEF NotLoaded
    <2> QED BY <2>1, <2>2
<1>14. CASE ResetContainerdClient(r)
    BY <1>14, ReturnKeeps DEF ResetContainerdClient
<1>15. CASE GetTask(r)
    <2>1. CASE Got(r, running[con[r]], "store")
        BY <1>15, <2>1, GotKeeps DEF GetTask
    <2>2. CASE Goto(r, "remove") /\ UNCHANGED got
        BY <1>15, <2>2, <1>1, <1>3 DEF GetTask
    <2> QED BY <1>15, <2>1, <2>2 DEF GetTask
<1>16. CASE Store(r)
    BY <1>16, StoreKeeps
<1>17. CASE Remove(r)
    BY <1>17, RemoveKeeps
<1>18. CASE Answer(r)
    BY <1>18, <1>2 DEF Answer
<1> QED BY <1>4, <1>5, <1>6, <1>7, <1>8, <1>9, <1>10, <1>11, <1>12, <1>13, <1>14, <1>15,
           <1>16, <1>17, <1>18 DEF Step

\* The inductive step.
LEMMA FreshNext == FreshInv /\ [Next]_vars => FreshInv'
<1> SUFFICES ASSUME FreshInv, [Next]_vars PROVE FreshInv'
    OBVIOUS
<1>1. CASE Node
    BY <1>1, NodeKeeps
<1>2. CASE Poll
    BY <1>2, LookupKeeps DEF Poll
<1>3. ASSUME NEW r \in Requests, Step(r) PROVE FreshInv'
    BY <1>3, StepKeeps
<1>4. CASE Tick
    BY <1>4, TickKeeps
<1>5. CASE UNCHANGED vars
    BY <1>5, FreshStutter DEF vars, clusterVars, lookupVars, requestVars, freshVars
<1> QED BY <1>1, <1>2, <1>3, <1>4, <1>5 DEF Next

\* For any number of requests and containers, any TTL, and lookups of any length: a PID
\* that GetContainerPid answers was the container's within TTL of the request's start.
THEOREM FreshAnswersHold == Spec => []FreshAnswers
<1>1. FreshInv => FreshAnswers
    BY DEF FreshInv, HitInv, FreshAnswers, At
<1> QED BY FreshInit, FreshNext, <1>1, PTL DEF Spec

-----------------------------------------------------------------------------
(***************************************************************************)
(* The connections.                                                        *)
(***************************************************************************)

\* What a request may hold.
Handle == {None, Closed} \cup open

\* The current client, if there is one, is open, and no other; and nobody holds another
\* open one: that is why a number is free when a new client is made.
ConnectionInv ==
    /\ client = None => open = {}
    /\ client # None => open = {client}
    /\ cli \in [Requests -> Handle]
    /\ loader \in [Requests -> Handle]

connectionVars == <<client, open, cli, loader>>

\* A step that leaves the clients alone.
LEMMA ConnectionStutter == ConnectionInv /\ UNCHANGED connectionVars => ConnectionInv'
BY DEF ConnectionInv, Handle, connectionVars

\* With no connection open, the first number is unused.
LEMMA UnusedIsClient ==
    ASSUME ConnectionInv, client = None
    PROVE  Unused \in Clients
<1> DEFINE free(d) == d \notin open /\ \A r \in Requests : d \notin {cli[r], loader[r]}
<1>1. Cardinality(Requests) \in Nat
    BY LookupAssumption, FS_CardinalityType
<1>2. 1 \in Clients /\ \A d \in Clients : d \in Int /\ 1 <= d
    BY <1>1 DEF Clients
<1>3. free(1)
    BY DEF ConnectionInv, Handle, None, Closed
<1>4. \E c \in Clients : free(c) /\ \A d \in Clients : free(d) => c <= d
    BY <1>2, <1>3
<1> QED BY <1>4 DEF Unused

\* A request takes the current client, whether it is there or not.
LEMMA HasKeeps ==
    ASSUME ConnectionInv, NEW r \in Requests, Has(r, client), UNCHANGED <<client, open>>
    PROVE  ConnectionInv'
<1>1. client \in Handle
    BY DEF ConnectionInv, Handle
<1> QED BY <1>1 DEF Has, ConnectionInv, Handle

\* A request returns.
LEMMA ReturnKeepsConnections ==
    ASSUME ConnectionInv, NEW r \in Requests, Return(r), UNCHANGED <<client, open>>
    PROVE  ConnectionInv'
BY DEF Return, ReturnWith, ConnectionInv, Handle

\* A reset closes the current client, and with it the handles on it.
LEMMA ResetKeepsConnections ==
    ASSUME ConnectionInv, NEW r \in Requests, ResetContainerdClient(r)
    PROVE  ConnectionInv'
<1>1. open' = {} /\ client' = None
    BY DEF ResetContainerdClient, CloseClient, ConnectionInv
<1>2. \A c : AfterClose(c) \in {None, Closed}
    BY <1>1 DEF AfterClose
<1>3. /\ cli' = [[q \in Requests |-> AfterClose(cli[q])] EXCEPT ![r] = None]
      /\ loader' = [[q \in Requests |-> AfterClose(loader[q])] EXCEPT ![r] = None]
    BY DEF ResetContainerdClient, ReturnWith
<1>4. cli' \in [Requests -> {None, Closed}] /\ loader' \in [Requests -> {None, Closed}]
    BY <1>2, <1>3
<1> QED BY <1>1, <1>4 DEF ConnectionInv, Handle

\* The inductive step.
LEMMA ConnectionNext == ConnectionInv /\ [Next]_vars => ConnectionInv'
<1> SUFFICES ASSUME ConnectionInv, [Next]_vars PROVE ConnectionInv'
    OBVIOUS
<1> USE DEF clientVars, requestVars, SystemVars
<1>1. CASE Node
    <2>1. UNCHANGED connectionVars
        BY <1>1 DEF Node, ContainerStarts, ContainerStops, ContainerRemoved, PodForgotten,
                    DaemonChanges, connectionVars
    <2> QED BY <2>1, ConnectionStutter
<1>2. CASE Poll \/ Tick
    <2>1. UNCHANGED connectionVars
        BY <1>2 DEF Poll, LookupCache, Tick, connectionVars
    <2> QED BY <2>1, ConnectionStutter
<1>3. ASSUME NEW r \in Requests, Step(r) PROVE ConnectionInv'
    <2>1. CASE Return(r) /\ UNCHANGED <<client, open>>
        BY <2>1, ReturnKeepsConnections
    <2>2. CASE UNCHANGED connectionVars
        BY <2>2, ConnectionStutter
    <2>3. CASE Sweep(r) \/ Inspect(r) \/ Store(r) \/ GetTask(r)
        <3>1. UNCHANGED connectionVars
            BY <2>3 DEF Sweep, Inspect, Store, GetTask, connectionVars
        <3> QED BY <3>1, <2>2
    <2>4. CASE ReadFile(r) \/ Remove(r) \/ Answer(r)
        <3>1. \/ Return(r) /\ UNCHANGED <<client, open>>
              \/ UNCHANGED connectionVars
            BY <2>4 DEF ReadFile, Remove, Answer, connectionVars
        <3> QED BY <3>1, <2>1, <2>2
    <2>5. CASE CheckNamespaces(r) \/ RangeNamespaces(r) \/ NotLoaded(r)
        <3>1. \/ Return(r) /\ UNCHANGED <<client, open>>
              \/ UNCHANGED connectionVars
            BY <2>5 DEF CheckNamespaces, WithoutNamespaces, RangeNamespaces, NotLoaded,
                        connectionVars
        <3> QED BY <3>1, <2>1, <2>2
    <2>6. CASE \E n \in Namespaces : LoadContainer(r, n)
        BY <2>6, <2>2 DEF LoadContainer, connectionVars
    <2>7. CASE TakeClient(r) \/ ListNamespaces(r)
        <3>1. Has(r, client) /\ UNCHANGED <<client, open>>
            BY <2>7 DEF TakeClient, ListNamespaces
        <3> QED BY <3>1, HasKeeps
    <2>8. CASE NewClient(r)
        <3>1. CASE daemon
            <4>1. /\ client = None /\ client' = Unused /\ open' = open \cup {Unused}
                  /\ UNCHANGED <<cli, loader>>
                BY <2>8, <3>1 DEF NewClient
            <4>2. Unused \in Clients
                BY <4>1, UnusedIsClient
            <4>3. Unused # None
                BY <4>2 DEF Clients, None
            <4> QED BY <4>1, <4>3 DEF ConnectionInv, Handle
        <3>2. CASE ~daemon
            BY <2>8, <3>2, <2>1 DEF NewClient
        <3> QED BY <3>1, <3>2
    <2>9. CASE ResetContainerdClient(r)
        BY <2>9, ResetKeepsConnections
    <2> QED BY <1>3, <2>3, <2>4, <2>5, <2>6, <2>7, <2>8, <2>9 DEF Step
<1>4. CASE UNCHANGED vars
    BY <1>4, ConnectionStutter DEF vars, connectionVars
<1> QED BY <1>1, <1>2, <1>3, <1>4 DEF Next

\* For any number of requests: no race of requests that reset the containerd client and
\* make a new one leaves a connection open that is not the current client's.
THEOREM OneConnectionHolds == Spec => []OneConnection
<1>1. Init => ConnectionInv
    BY DEF Init, ConnectionInv, Handle
<1>2. ConnectionInv => OneConnection
    BY DEF ConnectionInv, OneConnection
<1> QED BY <1>1, <1>2, ConnectionNext, PTL DEF Spec

-----------------------------------------------------------------------------
(***************************************************************************)
(* Types: what the two arguments above have left out.                      *)
(***************************************************************************)

RestType ==
    /\ runtime \in Runtimes /\ exists \subseteq Containers /\ daemon \in BOOLEAN
    /\ lastSweep \in 0..OldAge
    /\ client \in Clients \cup {None} /\ open \subseteq Clients
    /\ namespaces \subseteq Namespaces
    /\ mu \in Requests \cup {Nobody}
    /\ left \in [Requests -> SUBSET Namespaces] /\ lost \in [Requests -> BOOLEAN]

restVars == <<runtime, exists, daemon, lastSweep, clientVars, left, lost>>

LEMMA RestStutter == RestType /\ UNCHANGED restVars => RestType'
BY DEF RestType, restVars, clientVars

LEMMA RestReturn ==
    ASSUME RestType, NEW r \in Requests, NEW clis, NEW loaders, ReturnWith(r, clis, loaders),
           UNCHANGED <<runtime, exists, daemon, lastSweep>>,
           UNCHANGED clientVars \/ (client' = None /\ namespaces' = {} /\ open' \subseteq open
                                      /\ UNCHANGED mu)
    PROVE  RestType'
BY DEF RestType, ReturnWith, clientVars

LEMMA RestNext == FreshInv /\ ConnectionInv /\ RestType /\ [Next]_vars => RestType'
<1> SUFFICES ASSUME FreshInv, ConnectionInv, RestType, [Next]_vars PROVE RestType'
    OBVIOUS
<1> USE DEF NodeVars, clusterVars, SystemVars, requestVars
<1>1. /\ \A r \in Requests : since[r] \in 0..OldAge
      /\ Older(lastSweep) \in 0..OldAge
    BY Numbers, OlderFacts DEF FreshInv, LookupType, RestType
<1>2. CASE Node
    BY <1>2 DEF Node, ContainerStarts, ContainerStops, ContainerRemoved, PodForgotten,
                DaemonChanges, RestType, clientVars
<1>3. CASE Poll
    BY <1>3, RestStutter DEF Poll, LookupCache, restVars
<1>4. CASE Tick
    BY <1>1, <1>4 DEF Tick, RestType, clientVars
<1>5. ASSUME NEW r \in Requests, Step(r) PROVE RestType'
    <2>1. CASE UNCHANGED restVars BY <2>1, RestStutter
    <2>2. CASE Return(r) /\ UNCHANGED <<runtime, exists, daemon, lastSweep, clientVars>>
        BY <2>2, RestReturn DEF Return
    <2>3. CASE Sweep(r)
        BY <1>1, <2>3 DEF Sweep, RestType, clientVars
    <2>4. CASE Inspect(r) \/ GetTask(r) \/ Store(r) \/ TakeClient(r)
        <3>1. UNCHANGED restVars
            BY <2>4 DEF Inspect, GetTask, Store, TakeClient, restVars
        <3> QED BY <2>1, <3>1
    <2>5. CASE ReadFile(r) \/ Remove(r) \/ Answer(r)
        <3>1. \/ Return(r) /\ UNCHANGED <<runtime, exists, daemon, lastSweep, clientVars>>
              \/ UNCHANGED restVars
            BY <2>5 DEF ReadFile, Remove, Answer, restVars
        <3> QED BY <2>1, <2>2, <3>1
    <2>6. CASE CheckNamespaces(r) \/ NotLoaded(r)
        <3>1. \/ Return(r) /\ UNCHANGED <<runtime, exists, daemon, lastSweep, clientVars>>
              \/ UNCHANGED restVars
            BY <2>6 DEF CheckNamespaces, WithoutNamespaces, NotLoaded, restVars
        <3> QED BY <2>1, <2>2, <3>1
    <2>7. CASE RangeNamespaces(r)
        <3>1. CASE namespaces = {} BY <2>2, <2>7, <3>1 DEF RangeNamespaces
        <3>2. CASE namespaces # {}
            BY <2>7, <3>2 DEF RangeNamespaces, RestType, clientVars
        <3> QED BY <3>1, <3>2
    <2>8. CASE NewClient(r)
        <3>1. CASE daemon
            <4>1. Unused \in Clients BY <2>8, UnusedIsClient DEF NewClient
            <4> QED BY <2>8, <3>1, <4>1 DEF NewClient, RestType
        <3>2. CASE ~daemon
            BY <2>2, <2>8, <3>2 DEF NewClient, clientVars
        <3> QED BY <3>1, <3>2
    <2>9. CASE ListNamespaces(r)
        BY <2>9 DEF ListNamespaces, RestType
    <2>10. ASSUME NEW n \in Namespaces, LoadContainer(r, n) PROVE RestType'
        <3>1. IsGrpcConnectionError(loader[r]) \in BOOLEAN BY DEF IsGrpcConnectionError
        <3>2. /\ left' \in [Requests -> SUBSET Namespaces]
              /\ lost' \in [Requests -> BOOLEAN]
            BY <2>10, <3>1 DEF LoadContainer, RestType
        <3> QED BY <2>10, <3>2 DEF LoadContainer, RestType, clientVars
    <2>11. CASE ResetContainerdClient(r)
        BY <2>11, RestReturn DEF ResetContainerdClient, CloseClient
    <2> QED BY <1>5, <2>3, <2>4, <2>5, <2>6, <2>7, <2>8, <2>9, <2>10, <2>11 DEF Step
<1>6. CASE UNCHANGED vars
    BY <1>6, RestStutter DEF vars, restVars
<1> QED BY <1>2, <1>3, <1>4, <1>5, <1>6 DEF Next

\* The cache, the clients and the requests are what TypeOK says at all times; that a new
\* client always finds a number to have is part of it.
THEOREM TypeCorrect == Spec => []TypeOK
<1>1. Init => RestType
    BY Numbers DEF Init, RestType
<1>2. Init => ConnectionInv
    BY DEF Init, ConnectionInv, Handle
<1>3. FreshInv /\ ConnectionInv /\ RestType => TypeOK
    BY DEF FreshInv, LookupType, ConnectionInv, Handle, RestType, TypeOK
<1> QED BY FreshInit, FreshNext, ConnectionNext, RestNext, <1>1, <1>2, <1>3, PTL DEF Spec

=============================================================================
