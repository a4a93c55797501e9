----------------------------- MODULE ControlPlane -----------------------------
(***************************************************************************)
(* The control-plane helper: the scrapers of the API server, of etcd and   *)
(* of the scheduler, from the discovery of their targets to the cache the  *)
(* HTTP handlers read (controlplane/scraper, controlplane/router).         *)
(*                                                                         *)
(* The three have the same shape: a ticker runs collectMetrics, which      *)
(* starts one goroutine per target and merges what they send into a new    *)
(* cache.  They differ in how targets are found and in what becomes of a   *)
(* failed request; kind says which one a behaviour is about.               *)
(*                                                                         *)
(* Abstractions.  A metric is the target it is from (its instance label)   *)
(* and the collection that fetched it.  A channel lives for one            *)
(* collection; what is sent to one nobody reads any more is lost.          *)
(***************************************************************************)
EXTENDS Integers, Sequences, FiniteSets

CONSTANTS Kinds,        \* the scrapers looked at
          Namespaces, Names,
          ApiServer,    \* the namespace and name of the API server's Endpoints object
          Urls,         \* targets
          NoIp,         \* the IP of a pod that has none yet
          Families,     \* metric families asked for
          MaxRound,     \* bound: collections
          MaxQueue      \* bound: notifications the informer's handler lags behind

ASSUME ScrapeAssumption ==
    /\ Kinds \subseteq {"apiserver", "etcd", "scheduler"}
    /\ ApiServer \in Namespaces \X Names
    /\ NoIp \notin Urls
    /\ MaxRound \in Nat
    /\ MaxQueue \in Nat

Objects == Namespaces \X Names
NameOf(o) == o[2]
Kubernetes == NameOf(ApiServer)

Sample == [url : Urls, round : 1..MaxRound]

VARIABLES
    kind,        \* which scraper this is
    addrs,       \* the API server's Endpoints objects: their https addresses
    exists,      \* those there are
    queue,       \* notifications not yet handled
    known,       \* the keys of endPointsMap
    urls,        \* endPointsMap: Urls
    clients,     \* endPointsMap: the keys of TargetClient
    tracked,     \* schedulerPodIpCache
    reloading,   \* pod IPs reloadSchedulerInfo has still to store
    round,       \* the collection that is, or was last, under way
    collecting,  \* collectMetrics is waiting for its goroutines
    fetching,    \* requests under way
    waiting,     \* those the WaitGroup of the current collection counts
    results,     \* what they have sent to the current channel
    cache,       \* the cached families: metrics of each
    up,          \* the process runs (FALSE: it has panicked)
    wiped        \* history: a deletion has emptied endPointsMap since a name's last update

discoveryVars == <<known, urls, clients, wiped, tracked, reloading>>
collectVars   == <<round, collecting, fetching, waiting, results, cache>>
clusterVars   == <<addrs, exists>>
vars == <<kind, clusterVars, queue, discoveryVars, collectVars, up>>

Notification == [obj : Objects, gone : BOOLEAN, addrs : SUBSET Urls]
Result == [url : Urls, round : 1..MaxRound, found : SUBSET Families]

TypeOK ==
    /\ kind \in Kinds
    /\ addrs \in [Objects -> SUBSET Urls]
    /\ exists \subseteq Objects
    /\ queue \in Seq(Notification)
    /\ known \subseteq Names
    /\ urls \in [Names -> SUBSET Urls]
    /\ clients \in [Names -> SUBSET Urls]
    /\ wiped \in [Names -> BOOLEAN]
    /\ tracked \subseteq Urls \cup {NoIp}
    /\ reloading \subseteq Urls \cup {NoIp}
    /\ round \in 0..MaxRound
    /\ collecting \in BOOLEAN
    /\ fetching \subseteq Sample
    /\ waiting \subseteq Sample
    /\ results \subseteq Result
    /\ cache \in [Families -> SUBSET Sample]
    /\ up \in BOOLEAN

Init ==
    /\ kind \in Kinds
    /\ addrs = [o \in Objects |-> {}]
    /\ exists = {}
    /\ queue = <<>>
    /\ known = {}
    /\ urls = [n \in Names |-> {}]
    /\ clients = [n \in Names |-> {}]
    /\ wiped = [n \in Names |-> FALSE]
    /\ tracked = {}
    /\ reloading = {}
    /\ round = 0
    /\ collecting = FALSE
    /\ fetching = {}
    /\ waiting = {}
    /\ results = {}
    /\ cache = [f \in Families |-> {}]
    /\ up = TRUE

-----------------------------------------------------------------------------
(***************************************************************************)
(* The cluster, as the informer sees it.                                   *)
(***************************************************************************)

Notify(o, gone, as) ==
    /\ Len(queue) < MaxQueue
    /\ queue' = Append(queue, [obj |-> o, gone |-> gone, addrs |-> as])

EndpointsSet(o, as) ==
    /\ kind = "apiserver" /\ up
    /\ o \notin exists \/ addrs[o] # as
    /\ exists' = exists \cup {o}
    /\ addrs' = [addrs EXCEPT ![o] = as]
    /\ Notify(o, FALSE, as)
    /\ UNCHANGED <<kind, discoveryVars, collectVars, up>>

EndpointsDeleted(o) ==
    /\ kind = "apiserver" /\ up
    /\ o \in exists
    /\ exists' = exists \ {o}
    /\ addrs' = [addrs EXCEPT ![o] = {}]
    /\ Notify(o, TRUE, {})
    /\ UNCHANGED <<kind, discoveryVars, collectVars, up>>

-----------------------------------------------------------------------------
(***************************************************************************)
(* Discovery.                                                              *)
(***************************************************************************)

\* Mutant: the addresses an object no longer has are kept.
UpdateURLs_Merged(n, as, ok) ==
    /\ known' = known \cup {n}
    /\ urls' = [urls EXCEPT ![n] = @ \cup as]
    /\ clients' = [clients EXCEPT ![n] = IF n = Kubernetes THEN @ \cup ok ELSE {}]
    /\ wiped' = [wiped EXCEPT ![n] = FALSE]

\* ok: the addresses a client could be made for; the others stay without one.
UpdateURLs(n, as, ok) ==
    /\ known' = known \cup {n}
    /\ urls' = [urls EXCEPT ![n] = as]
    /\ clients' = [clients EXCEPT ![n] = IF n = Kubernetes THEN ok ELSE {}]
    /\ wiped' = [wiped EXCEPT ![n] = FALSE]

\* The entry is found by name alone.
HandleUpdate ==
    /\ up /\ queue # <<>> /\ ~Head(queue).gone
    /\ \E ok \in SUBSET Head(queue).addrs :
          UpdateURLs(NameOf(Head(queue).obj), Head(queue).addrs, ok)
    /\ queue' = Tail(queue)
    /\ UNCHANGED <<kind, clusterVars, tracked, reloading, collectVars, up>>

\* The deletion of any object empties the whole map.
HandleDelete ==
    /\ up /\ queue # <<>> /\ Head(queue).gone
    /\ known' = {}
    /\ urls' = [n \in Names |-> {}]
    /\ clients' = [n \in Names |-> {}]
    /\ wiped' = [n \in Names |-> TRUE]
    /\ queue' = Tail(queue)
    /\ UNCHANGED <<kind, clusterVars, tracked, reloading, collectVars, up>>

\* reloadSchedulerInfo: the map is emptied first, whatever the list was (none, after an
\* error), and filled one pod at a time.
ReloadBegin ==
    /\ kind = "scheduler" /\ up /\ reloading = {}
    /\ tracked' = {}
    /\ reloading' \in SUBSET (Urls \cup {NoIp})
    /\ UNCHANGED <<kind, clusterVars, queue, known, urls, clients, wiped, collectVars, up>>

ReloadStore ==
    /\ kind = "scheduler" /\ up
    /\ \E u \in reloading :
          /\ tracked' = tracked \cup {u}
          /\ reloading' = reloading \ {u}
    /\ UNCHANGED <<kind, clusterVars, queue, known, urls, clients, wiped, collectVars, up>>

\* Mutant: a pod that has no IP yet is a target too.
GetSchedulerPodIps_All == tracked

GetSchedulerPodIps == tracked \ {NoIp}

-----------------------------------------------------------------------------
(***************************************************************************)
(* A collection.                                                           *)
(***************************************************************************)

\* What collectMetrics has to ask: the API servers of the entry named kubernetes, if
\* there is one; the pod IPs stored so far; the configured hosts.
ApiserverTargets == urls[Kubernetes]
SchedulerTargets == GetSchedulerPodIps
EtcdTargets      == Urls

HasTargets == kind = "apiserver" => Kubernetes \in known

Targets == CASE kind = "apiserver" -> ApiserverTargets
             [] kind = "scheduler" -> SchedulerTargets
             [] kind = "etcd"      -> EtcdTargets

Reachable == IF kind = "apiserver" THEN clients[Kubernetes] ELSE Targets

Request(S) == {[url |-> u, round |-> round + 1] : u \in S}

\* One goroutine per target, and a channel of their own.
CollectBegin ==
    /\ up /\ ~collecting /\ round < MaxRound
    /\ HasTargets /\ Targets \subseteq Reachable
    /\ round' = round + 1
    /\ fetching' = fetching \cup Request(Targets)
    /\ waiting' = Request(Targets)
    /\ results' = {}
    /\ collecting' = TRUE
    /\ UNCHANGED <<kind, clusterVars, queue, discoveryVars, cache, up>>

\* A target without a client: collectMetrics returns, and leaves behind the requests it
\* has already started for the targets before it.
CollectAborted ==
    /\ up /\ ~collecting /\ round < MaxRound
    /\ HasTargets /\ ~(Targets \subseteq Reachable)
    /\ round' = round + 1
    /\ \E S \in SUBSET (Targets \cap Reachable) : fetching' = fetching \cup Request(S)
    /\ waiting' = {}
    /\ results' = {}
    /\ UNCHANGED <<kind, clusterVars, queue, discoveryVars, collecting, cache, up>>

\* Mutant: one channel serves all collections.
Send_OneChannel(x, F) ==
    results' = results \cup {[url |-> x.url, round |-> x.round, found |-> F]}

Send(x, F) ==
    results' = IF collecting /\ x.round = round
               THEN results \cup {[url |-> x.url, round |-> x.round, found |-> F]}
               ELSE results

\* Mutant: an error return misses wg.Done().
Done_NotOnError(x, failed) == waiting' = IF failed THEN waiting ELSE waiting \ {x}

\* The deferred wg.Done(), on whatever path the goroutine returns.
Done(x, failed) == waiting' = waiting \ {x}

\* The response, as far as it could be parsed.
FetchReturns(x) ==
    /\ up /\ x \in fetching
    /\ fetching' = fetching \ {x}
    /\ \E F \in SUBSET Families : Send(x, F)
    /\ Done(x, FALSE)
    /\ UNCHANGED <<kind, clusterVars, queue, discoveryVars, round, collecting, cache, up>>

\* No response.  The API server's scraper goes on with no metrics, the scheduler's
\* returns, and etcd's closes the body of a response it does not have: it panics.
ApiserverFails(x) == Send(x, {}) /\ UNCHANGED up
SchedulerFails(x) == UNCHANGED <<results, up>>
EtcdFails(x)      == up' = FALSE /\ UNCHANGED results

FetchFails(x) ==
    /\ up /\ x \in fetching
    /\ fetching' = fetching \ {x}
    /\ \/ kind = "apiserver" /\ ApiserverFails(x)
       \/ kind = "scheduler" /\ SchedulerFails(x)
       \/ kind = "etcd" /\ EtcdFails(x)
    /\ Done(x, TRUE)
    /\ UNCHANGED <<kind, clusterVars, queue, discoveryVars, round, collecting, cache>>

Merged == [f \in Families |->
              {[url |-> r.url, round |-> r.round] : r \in {q \in results : f \in q.found}}]

\* The scheduler's results have all its families, those not found as nil, which
\* updateMetricWithLabel dereferences.
MergePanics == kind = "scheduler" /\ \E r \in results : r.found # Families

\* mergeMetricsData and SetCache, once all have sent and the channel is closed.
Merge ==
    /\ up /\ collecting /\ waiting = {}
    /\ IF MergePanics
       THEN up' = FALSE /\ UNCHANGED cache
       ELSE cache' = Merged /\ UNCHANGED up
    /\ results' = {}
    /\ collecting' = FALSE
    /\ UNCHANGED <<kind, clusterVars, queue, discoveryVars, round, fetching, waiting>>

\* An HTTP handler's response: an empty array when there is no such family.
Serve(f) == cache[f]

\* The container is restarted: the informer lists every object again, in any order.
Restart ==
    /\ ~up
    /\ up' = TRUE
    /\ known' = {} /\ tracked' = {} /\ reloading' = {}
    /\ urls' = [n \in Names |-> {}]
    /\ clients' = [n \in Names |-> {}]
    /\ wiped' = [n \in Names |-> FALSE]
    /\ collecting' = FALSE
    /\ fetching' = {}
    /\ waiting' = {}
    /\ results' = {}
    /\ cache' = [f \in Families |-> {}]
    /\ \E q \in [1..Cardinality(exists) -> exists] :
          /\ \A o \in exists : \E k \in DOMAIN q : q[k] = o
          /\ queue' = [k \in DOMAIN q |-> [obj |-> q[k], gone |-> FALSE, addrs |-> addrs[q[k]]]]
    /\ UNCHANGED <<kind, clusterVars, round>>

-----------------------------------------------------------------------------

Cluster == \/ \E o \in Objects, as \in SUBSET Urls : EndpointsSet(o, as)
           \/ \E o \in Objects : EndpointsDeleted(o)

Informer == HandleUpdate \/ HandleDelete

Tracker == ReloadBegin \/ ReloadStore

Fetch(x) == FetchReturns(x) \/ FetchFails(x)

Next == \/ Cluster \/ Informer \/ Tracker
        \/ CollectBegin \/ CollectAborted \/ Merge
        \/ \E x \in Sample : Fetch(x)
        \/ Restart

Spec == Init /\ [][Next]_vars

\* Goroutines run on, and the container is restarted when its process has died.
Fairness == WF_vars(Informer) /\ WF_vars(Merge) /\ WF_vars(Restart)

\* An assumption on the targets, not on this code: no request has a timeout of its own.
PeersAnswer == \A x \in Sample : WF_vars(Fetch(x))

FairSpec == Spec /\ Fairness /\ PeersAnswer

-----------------------------------------------------------------------------
(***************************************************************************)
(* Properties.                                                             *)
(***************************************************************************)

\* All that the cache holds, of all families, was fetched by one collection: neither a
\* slow request of an abandoned collection nor an older cache gets mixed into it.
OneCollection ==
    \A f, g \in Families : \A s \in Serve(f), t \in Serve(g) : s.round = t.round

\* Once its notifications are handled, the map has exactly the addresses an object has,
\* unless a deletion has emptied it and the object has not changed since.
EndpointsTracked ==
    \A o \in exists :
        queue = <<>> /\ up /\ (\A p \in Objects : NameOf(p) = NameOf(o) => p = o)
            => \/ wiped[NameOf(o)]
               \/ NameOf(o) \in known /\ urls[NameOf(o)] = addrs[o]

\* Every collection whose requests are answered or refused ends, on every error path:
\* the ticker's goroutine is the only one, so one that does not end would be the last.
CollectionEnds == collecting ~> ~collecting

\* A scheduler without some metric (or a refused request) is served as an empty array.
AbsentMetricsServed == kind = "scheduler" => up
=============================================================================
