------------------------- MODULE ControlPlane_proofs -------------------------
(***************************************************************************)
(* Theorems about ControlPlane: what is served comes from one collection,  *)
(* and the API server's map follows the Endpoints objects.                 *)
(***************************************************************************)
EXTENDS ControlPlane, FiniteSetTheorems, TLAPS

\* The channel of the current collection has been sent its own results only.
ChannelInv == \A r \in results : r.round = round

ServingInv == ChannelInv /\ OneCollection

\* What a goroutine sends, be it late, keeps the channel to its own collection.
LEMMA SendKeepsChannel ==
    ASSUME NEW x, NEW F, ChannelInv, round' = round, Send(x, F)
    PROVE  ChannelInv'
BY DEF ChannelInv, Send

\* Merging the channel of one collection gives families of that collection only.
LEMMA MergedIsOneCollection ==
    ASSUME ChannelInv
    PROVE  \A f \in Families : \A s \in Merged[f] : s.round = round
<1> SUFFICES ASSUME NEW f \in Families, NEW s \in Merged[f]
             PROVE  s.round = round
    OBVIOUS
<1>1. PICK r \in results : s = [url |-> r.url, round |-> r.round]
    BY DEF Merged
<1> QED BY <1>1 DEF ChannelInv

\* The initial state serves nothing.
LEMMA ServingInit == Init => ServingInv
BY DEF Init, ServingInv, ChannelInv, OneCollection, Serve

\* Every step keeps the channel and the cache to one collection each.
LEMMA ServingStep == ServingInv /\ [Next]_vars => ServingInv'
<1> SUFFICES ASSUME ServingInv, [Next]_vars
             PROVE  ServingInv'
    OBVIOUS
<1> USE DEF ServingInv
<1>1. ASSUME UNCHANGED <<round, results, cache>>
      PROVE  ServingInv'
    BY <1>1 DEF ChannelInv, OneCollection, Serve
<1>2. CASE Cluster
    <2>1. UNCHANGED collectVars
        BY <1>2 DEF Cluster, EndpointsSet, EndpointsDeleted
    <2> QED BY <1>1, <2>1 DEF collectVars
<1>3. CASE Informer
    <2>1. UNCHANGED collectVars
        BY <1>3 DEF Informer, HandleUpdate, HandleDelete
    <2> QED BY <1>1, <2>1 DEF collectVars
<1>4. CASE Tracker
    <2>1. UNCHANGED collectVars
        BY <1>4 DEF Tracker, ReloadBegin, ReloadStore
    <2> QED BY <1>1, <2>1 DEF collectVars
<1>5. CASE CollectBegin \/ CollectAborted
    <2>1. results' = {} /\ cache' = cache
        BY <1>5 DEF CollectBegin, CollectAborted
    <2> QED BY <2>1 DEF ChannelInv, OneCollection, Serve
<1>6. CASE Merge
    <2>1. results' = {} /\ (cache' = cache \/ cache' = Merged)
        BY <1>6 DEF Merge
    <2>2. ChannelInv'
        BY <2>1 DEF ChannelInv
    <2>3. \A f \in Families : \A s \in Merged[f] : s.round = round
        BY MergedIsOneCollection
    <2>4. OneCollection'
        BY <2>1, <2>3 DEF OneCollection, Serve
    <2> QED BY <2>2, <2>4
<1>7. ASSUME NEW x \in Sample, Fetch(x)
      PROVE  ServingInv'
    <2>1. cache' = cache /\ round' = round
        BY <1>7 DEF Fetch, FetchReturns, FetchFails, ApiserverFails, SchedulerFails, EtcdFails
    <2>2. (\E F : Send(x, F)) \/ results' = results
        BY <1>7 DEF Fetch, FetchReturns, FetchFails, ApiserverFails, SchedulerFails, EtcdFails
    <2>3. ChannelInv'
        BY <2>1, <2>2, SendKeepsChannel DEF ChannelInv
    <2> QED BY <2>1, <2>3 DEF OneCollection, Serve
<1>8. CASE Restart
    <2>1. results' = {} /\ cache' = [f \in Families |-> {}]
        BY <1>8 DEF Restart
    <2> QED BY <2>1 DEF ChannelInv, OneCollection, Serve
<1>9. CASE UNCHANGED vars
    BY <1>9, <1>1 DEF vars, collectVars
<1> QED BY <1>2, <1>3, <1>4, <1>5, <1>6, <1>7, <1>8, <1>9 DEF Next

\* At all times, for any targets, families and number of collections: what the handlers
\* serve was fetched by one collection, however late the requests of others return.
THEOREM OneCollectionHolds == Spec => []OneCollection
<1>1. ServingInv => OneCollection
    BY DEF ServingInv
<1> QED BY ServingInit, ServingStep, <1>1, PTL DEF Spec

-----------------------------------------------------------------------------
(***************************************************************************)
(* Types.  The informer knows finitely many objects, so that what it lists *)
(* again after a restart is a sequence.                                    *)
(***************************************************************************)

TypeInv == TypeOK /\ IsFiniteSet(exists)

LEMMA NamesOfObjects == Kubernetes \in Names /\ \A o \in Objects : NameOf(o) \in Names
BY ScrapeAssumption DEF Kubernetes, NameOf, Objects

LEMMA TypeInit == Init => TypeInv
<1> SUFFICES ASSUME Init PROVE TypeInv
    OBVIOUS
<1>1. IsFiniteSet(exists) BY FS_EmptySet DEF Init
<1>2. /\ addrs \in [Objects -> SUBSET Urls] /\ urls \in [Names -> SUBSET Urls]
      /\ clients \in [Names -> SUBSET Urls] /\ wiped \in [Names -> BOOLEAN]
      /\ cache \in [Families -> SUBSET Sample]
    BY DEF Init
<1>3. queue \in Seq(Notification) /\ round \in 0..MaxRound
    BY ScrapeAssumption DEF Init
<1> QED BY <1>1, <1>2, <1>3 DEF Init, TypeInv, TypeOK

LEMMA ClusterType == TypeInv /\ Cluster => TypeInv'
<1> SUFFICES ASSUME TypeInv, Cluster PROVE TypeInv'
    OBVIOUS
<1>1. ASSUME NEW o \in Objects, NEW gone \in BOOLEAN, NEW as \in SUBSET Urls,
             Notify(o, gone, as), addrs' = [addrs EXCEPT ![o] = as],
             exists' = exists \cup {o} \/ exists' = exists \ {o},
             UNCHANGED <<kind, discoveryVars, collectVars, up>>
      PROVE  TypeInv'
    <2>1. IsFiniteSet(exists') /\ exists' \subseteq Objects
        <3>1. IsFiniteSet(exists \cup {o}) /\ IsFiniteSet(exists \ {o})
            BY FS_AddElement, FS_RemoveElement DEF TypeInv
        <3> QED BY <1>1, <3>1 DEF TypeInv, TypeOK
    <2>2. [obj |-> o, gone |-> gone, addrs |-> as] \in Notification
        BY DEF Notification
    <2>3. queue' \in Seq(Notification)
        BY <1>1, <2>2 DEF Notify, TypeInv, TypeOK
    <2>4. addrs' \in [Objects -> SUBSET Urls]
        BY <1>1 DEF TypeInv, TypeOK
    <2> QED BY <1>1, <2>1, <2>3, <2>4 DEF TypeInv, TypeOK, discoveryVars, collectVars
<1>2. ASSUME NEW o \in Objects, NEW as \in SUBSET Urls, EndpointsSet(o, as) PROVE TypeInv'
    BY <1>1, <1>2 DEF EndpointsSet
<1>3. ASSUME NEW o \in Objects, EndpointsDeleted(o) PROVE TypeInv'
    BY <1>1, <1>3 DEF EndpointsDeleted
<1> QED BY <1>2, <1>3 DEF Cluster

LEMMA InformerType == TypeInv /\ Informer => TypeInv'
<1> SUFFICES ASSUME TypeInv, Informer PROVE TypeInv'
    OBVIOUS
<1>1. ASSUME queue # <<>>, queue' = Tail(queue)
      PROVE  queue' \in Seq(Notification) /\ Head(queue) \in Notification
    BY <1>1 DEF TypeInv, TypeOK
<1>2. CASE HandleUpdate
    <2>1. queue # <<>> /\ queue' = Tail(queue)
        BY <1>2 DEF HandleUpdate
    <2>2. PICK ok \in SUBSET Head(queue).addrs :
              UpdateURLs(NameOf(Head(queue).obj), Head(queue).addrs, ok)
        BY <1>2 DEF HandleUpdate
    <2>3. NameOf(Head(queue).obj) \in Names /\ Head(queue).addrs \subseteq Urls
        BY <1>1, <2>1, NamesOfObjects DEF Notification
    <2>4. /\ known' \subseteq Names /\ urls' \in [Names -> SUBSET Urls]
          /\ clients' \in [Names -> SUBSET Urls] /\ wiped' \in [Names -> BOOLEAN]
        BY <2>2, <2>3 DEF UpdateURLs, TypeInv, TypeOK
    <2> QED BY <1>1, <1>2, <2>1, <2>4
            DEF HandleUpdate, TypeInv, TypeOK, clusterVars, collectVars
<1>3. CASE HandleDelete
    BY <1>1, <1>3 DEF HandleDelete, TypeInv, TypeOK, clusterVars, collectVars
<1> QED BY <1>2, <1>3 DEF Informer

LEMMA TrackerType == TypeInv /\ Tracker => TypeInv'
BY DEF Tracker, ReloadBegin, ReloadStore, TypeInv, TypeOK, clusterVars, collectVars

LEMMA CollectType ==
    ASSUME TypeInv, CollectBegin \/ CollectAborted PROVE TypeInv'
<1>1. Targets \subseteq Urls
    <2>1. urls[Kubernetes] \subseteq Urls BY NamesOfObjects DEF TypeInv, TypeOK
    <2>2. tracked \ {NoIp} \subseteq Urls BY DEF TypeInv, TypeOK
    <2>3. kind \in {"apiserver", "etcd", "scheduler"}
        BY ScrapeAssumption DEF TypeInv, TypeOK
    <2> QED BY <2>1, <2>2, <2>3
            DEF Targets, ApiserverTargets, SchedulerTargets, EtcdTargets, GetSchedulerPodIps
<1>2. round + 1 \in 1..MaxRound
    BY ScrapeAssumption DEF CollectBegin, CollectAborted, TypeInv, TypeOK
<1>3. \A S \in SUBSET Urls : Request(S) \subseteq Sample
    BY <1>2 DEF Request, Sample
<1>4. CASE CollectBegin
    BY <1>1, <1>2, <1>3, <1>4
       DEF CollectBegin, TypeInv, TypeOK, clusterVars, discoveryVars
<1>5. CASE CollectAborted
    BY <1>1, <1>2, <1>3, <1>5
       DEF CollectAborted, TypeInv, TypeOK, clusterVars, discoveryVars
<1> QED BY <1>4, <1>5

LEMMA FetchType ==
    ASSUME TypeInv, NEW x \in Sample, Fetch(x) PROVE TypeInv'
<1>1. \A F \in SUBSET Families : Send(x, F) => results' \subseteq Result
    <2>1. \A F \in SUBSET Families : [url |-> x.url, round |-> x.round, found |-> F] \in Result
        BY DEF Sample, Result
    <2> QED BY <2>1 DEF Send, TypeInv, TypeOK
<1>2. results' \subseteq Result
    BY <1>1 DEF Fetch, FetchReturns, FetchFails, ApiserverFails, SchedulerFails, EtcdFails,
       TypeInv, TypeOK
<1>3. up' \in BOOLEAN
    BY DEF Fetch, FetchReturns, FetchFails, ApiserverFails, SchedulerFails, EtcdFails,
       TypeInv, TypeOK
<1> QED BY <1>2, <1>3
        DEF Fetch, FetchReturns, FetchFails, Done, TypeInv, TypeOK, clusterVars, discoveryVars

LEMMA MergeType == TypeInv /\ Merge => TypeInv'
<1> SUFFICES ASSUME TypeInv, Merge PROVE TypeInv'
    OBVIOUS
<1>1. \A r \in results : [url |-> r.url, round |-> r.round] \in Sample
    BY DEF TypeInv, TypeOK, Result, Sample
<1>2. Merged \in [Families -> SUBSET Sample]
    BY <1>1 DEF Merged
<1> QED BY <1>2 DEF Merge, TypeInv, TypeOK, clusterVars, discoveryVars

LEMMA RestartType == TypeInv /\ Restart => TypeInv'
<1> SUFFICES ASSUME TypeInv, Restart PROVE TypeInv'
    OBVIOUS
<1>1. PICK q \in [1..Cardinality(exists) -> exists] :
          queue' = [k \in DOMAIN q |-> [obj |-> q[k], gone |-> FALSE, addrs |-> addrs[q[k]]]]
    BY DEF Restart
<1>2. Cardinality(exists) \in Nat BY FS_CardinalityType DEF TypeInv
<1>3. \A o \in exists : [obj |-> o, gone |-> FALSE, addrs |-> addrs[o]] \in Notification
    BY DEF TypeInv, TypeOK, Notification
<1>4. queue' \in [1..Cardinality(exists) -> Notification]
    BY <1>1, <1>3
<1>5. queue' \in Seq(Notification) BY <1>2, <1>4
<1> QED BY <1>5 DEF Restart, TypeInv, TypeOK, clusterVars

LEMMA TypeStep == TypeInv /\ [Next]_vars => TypeInv'
<1>1. TypeInv /\ UNCHANGED vars => TypeInv'
    BY DEF TypeInv, TypeOK, vars, clusterVars, discoveryVars, collectVars
<1> QED BY <1>1, ClusterType, InformerType, TrackerType, CollectType, FetchType, MergeType,
           RestartType DEF Next

\* The targets, notifications, requests and families are what TypeOK says at all times,
\* with any number of namespaces, names and targets.
THEOREM TypeCorrect == Spec => []TypeOK
<1>1. TypeInv => TypeOK BY DEF TypeInv
<1> QED BY TypeInit, TypeStep, <1>1, PTL DEF Spec

-----------------------------------------------------------------------------
(***************************************************************************)
(* The map follows the objects.  As long as notifications of an object are *)
(* pending, the last one has what the object has; when none is, the map's  *)
(* entry has it, if no other object has the name.                          *)
(***************************************************************************)

Notices(o) == {k \in 1..Len(queue) : queue[k].obj = o}

LastIsCurrent(o) == \A k \in Notices(o) :
    (o \in exists /\ \A j \in Notices(o) : j <= k)
        => ~queue[k].gone /\ queue[k].addrs = addrs[o]

NameIsItsOwn(o) == \A p \in Objects : NameOf(p) = NameOf(o) => p = o

EntryHas(o) == \/ wiped[NameOf(o)]
               \/ NameOf(o) \in known /\ urls[NameOf(o)] = addrs[o]

Followed(o) == (o \in exists /\ Notices(o) = {} /\ NameIsItsOwn(o)) => EntryHas(o)

TrackInv == \A o \in Objects : LastIsCurrent(o) /\ Followed(o)

\* Steps of the scrapers leave the objects, the notifications and the map alone.
LEMMA TrackFrame ==
    ASSUME TrackInv, UNCHANGED <<clusterVars, queue, known, urls, wiped>> PROVE TrackInv'
BY DEF TrackInv, LastIsCurrent, Followed, Notices, EntryHas, NameIsItsOwn, clusterVars

LEMMA TrackCluster == TypeInv /\ TrackInv /\ Cluster => TrackInv'
<1> SUFFICES ASSUME TypeInv, TrackInv, Cluster PROVE TrackInv'
    OBVIOUS
<1>1. ASSUME NEW o \in Objects, NEW gone, NEW as,
             Notify(o, gone, as), addrs' = [addrs EXCEPT ![o] = as],
             \/ exists' = exists \cup {o} /\ ~gone
             \/ exists' = exists \ {o},
             UNCHANGED discoveryVars
      PROVE  TrackInv'
    <2> DEFINE n == Len(queue)
    <2>1. queue \in Seq(Notification) BY DEF TypeInv, TypeOK
    <2>2. queue' = Append(queue, [obj |-> o, gone |-> gone, addrs |-> as])
        BY <1>1 DEF Notify
    <2>3. /\ n \in Nat /\ Len(queue') = n + 1 /\ \A k \in 1..n : queue'[k] = queue[k]
          /\ queue'[n + 1] = [obj |-> o, gone |-> gone, addrs |-> as]
        BY <2>1, <2>2
    <2>4. queue'[n + 1].obj = o /\ queue'[n + 1].gone = gone /\ queue'[n + 1].addrs = as
        BY <2>3
    <2>5. \A p : Notices(p) \subseteq 1..n BY DEF Notices
    <2>6. /\ addrs'[o] = as
          /\ \A p \in Objects \ {o} : addrs'[p] = addrs[p] /\ (p \in exists' <=> p \in exists)
        BY <1>1 DEF TypeInv, TypeOK
    <2>7. UNCHANGED <<known, urls, wiped>> BY <1>1 DEF discoveryVars
    <2> HIDE DEF n
    <2>8. 1..(n + 1) = 1..n \cup {n + 1} /\ n + 1 \notin 1..n /\ \A k \in 1..n : ~(n + 1 <= k)
        BY <2>3
    <2>9. ASSUME NEW p \in Objects, p # o PROVE Notices(p)' = Notices(p)
        <3>1. Notices(p)' = {k \in 1..(n + 1) : queue'[k].obj = p} BY <2>3 DEF Notices
        <3>2. Notices(p) = {k \in 1..n : queue[k].obj = p} BY DEF Notices, n
        <3> QED BY <2>3, <2>4, <2>8, <2>9, <3>1, <3>2
    <2>10. /\ n + 1 \in Notices(o)'
           /\ \A k \in Notices(o)' : k = n + 1 \/ k \in 1..n
        BY <2>3, <2>4, <2>8 DEF Notices
    <2>11. ASSUME NEW p \in Objects, p # o PROVE LastIsCurrent(p)' /\ Followed(p)'
        <3>1. LastIsCurrent(p)'
            BY <2>3, <2>5, <2>6, <2>9, <2>11 DEF TrackInv, LastIsCurrent
        <3>2. Followed(p)'
            BY <2>6, <2>7, <2>9, <2>11 DEF TrackInv, Followed, EntryHas, NameIsItsOwn
        <3> QED BY <3>1, <3>2
    <2>12. LastIsCurrent(o)'
        <3>1. \A k \in Notices(o)' : (\A j \in Notices(o)' : j <= k) => k = n + 1
            BY <2>8, <2>10
        <3>2. o \in exists' => ~gone BY <1>1
        <3> QED BY <2>4, <2>6, <3>1, <3>2 DEF LastIsCurrent
    <2>13. Followed(o)' BY <2>10 DEF Followed
    <2> QED BY <2>11, <2>12, <2>13 DEF TrackInv
<1>2. ASSUME NEW o \in Objects, NEW as \in SUBSET Urls, EndpointsSet(o, as) PROVE TrackInv'
    BY <1>1, <1>2 DEF EndpointsSet
<1>3. ASSUME NEW o \in Objects, EndpointsDeleted(o) PROVE TrackInv'
    BY <1>1, <1>3 DEF EndpointsDeleted
<1> QED BY <1>2, <1>3 DEF Cluster

\* A notification is handled: the others keep their order, and if it was the last of its
\* object, then it had what the object has.
LEMMA NoticeHandled ==
    ASSUME TypeInv, TrackInv, queue # <<>>, queue' = Tail(queue), UNCHANGED clusterVars
    PROVE  /\ Head(queue) \in Notification
           /\ \A o \in Objects :
                /\ LastIsCurrent(o)'
                /\ o # Head(queue).obj => (Notices(o)' = {} <=> Notices(o) = {})
                /\ (o = Head(queue).obj /\ Notices(o)' = {} /\ o \in exists)
                        => Head(queue).addrs = addrs[o]
<1> DEFINE n == Len(queue)
<1>1. /\ n \in Nat \ {0} /\ Len(queue') = n - 1 /\ queue[1] = Head(queue)
      /\ Head(queue) \in Notification /\ \A k \in 1..(n - 1) : queue'[k] = queue[k + 1]
    BY DEF TypeInv, TypeOK
<1> HIDE DEF n
<1>2. /\ 1 \in 1..n /\ \A k \in 1..(n - 1) : k + 1 \in 1..n /\ k + 1 # 1
      /\ \A k \in 1..n \ {1} : k - 1 \in 1..(n - 1) /\ (k - 1) + 1 = k
      /\ \A k \in 1..n : k \in Int
      /\ \A k \in 1..(n - 1) : k \in Int
    BY <1>1
<1>3. SUFFICES ASSUME NEW o \in Objects
               PROVE  /\ LastIsCurrent(o)'
                      /\ o # Head(queue).obj => (Notices(o)' = {} <=> Notices(o) = {})
                      /\ (o = Head(queue).obj /\ Notices(o)' = {} /\ o \in exists)
                              => Head(queue).addrs = addrs[o]
    BY <1>1
<1>4. /\ Notices(o) = {k \in 1..n : queue[k].obj = o}
      /\ Notices(o)' = {k \in 1..(n - 1) : queue'[k].obj = o}
    BY <1>1 DEF Notices, n
<1>5. \A k \in Notices(o)' : k + 1 \in Notices(o) /\ queue'[k] = queue[k + 1] /\ k \in Int
    BY <1>1, <1>2, <1>4
<1>6. ASSUME NEW k \in Notices(o) \ {1} PROVE k - 1 \in Notices(o)' /\ k \in Int
    <2>1. k \in 1..n \ {1} /\ queue[k].obj = o BY <1>4
    <2>2. PICK j : j = k - 1 OBVIOUS
    <2>3. j \in 1..(n - 1) /\ j + 1 = k BY <1>2, <2>1, <2>2
    <2>4. queue'[j] = queue[k] BY <1>1, <2>3
    <2> QED BY <1>2, <1>4, <2>1, <2>2, <2>3, <2>4
<1>7. exists' = exists /\ addrs' = addrs BY DEF clusterVars
<1>8. LastIsCurrent(o)'
    <2> SUFFICES ASSUME NEW k \in Notices(o)', o \in exists, \A j \in Notices(o)' : j <= k
                 PROVE  ~queue'[k].gone /\ queue'[k].addrs = addrs[o]
        BY <1>7 DEF LastIsCurrent
    <2>1. k + 1 \in Notices(o) /\ queue'[k] = queue[k + 1] /\ k \in Int BY <1>5
    <2>2. k + 1 >= 1 BY <1>2, <1>4
    <2>3. ASSUME NEW j \in Notices(o) PROVE j <= k + 1
        <3>1. CASE j = 1 BY <2>1, <2>2, <3>1
        <3>2. CASE j # 1
            <4>1. j - 1 <= k /\ j \in Int BY <1>6, <3>2
            <4> QED BY <2>1, <4>1
        <3> QED BY <3>1, <3>2
    <2> QED BY <2>1, <2>3 DEF TrackInv, LastIsCurrent
<1>9. ASSUME o # Head(queue).obj PROVE Notices(o)' = {} <=> Notices(o) = {}
    <2>1. 1 \notin Notices(o) BY <1>1, <1>4, <1>9
    <2> QED BY <1>5, <1>6, <2>1
<1>10. ASSUME o = Head(queue).obj, Notices(o)' = {}, o \in exists
       PROVE  Head(queue).addrs = addrs[o]
    <2>1. 1 \in Notices(o) BY <1>1, <1>2, <1>4, <1>10
    <2>2. \A j \in Notices(o) : j <= 1 BY <1>6, <1>10
    <2> QED BY <1>1, <1>10, <2>1, <2>2 DEF TrackInv, LastIsCurrent
<1> QED BY <1>8, <1>9, <1>10

LEMMA TrackInformer == TypeInv /\ TrackInv /\ Informer => TrackInv'
<1> SUFFICES ASSUME TypeInv, TrackInv, Informer PROVE TrackInv'
    OBVIOUS
<1>1. queue # <<>> /\ queue' = Tail(queue) /\ UNCHANGED clusterVars
    BY DEF Informer, HandleUpdate, HandleDelete
<1>2. PICK q, as : q = Head(queue).obj /\ as = Head(queue).addrs OBVIOUS
<1>3. /\ q \in Objects
      /\ \A o \in Objects :
           /\ LastIsCurrent(o)'
           /\ o # q => (Notices(o)' = {} <=> Notices(o) = {})
           /\ (o = q /\ Notices(o)' = {} /\ o \in exists) => as = addrs[o]
    BY <1>1, <1>2, NoticeHandled DEF Notification
<1>4. exists' = exists /\ addrs' = addrs BY <1>1 DEF clusterVars
<1>5. ASSUME NEW o \in Objects PROVE Followed(o)'
    <2> SUFFICES ASSUME o \in exists, Notices(o)' = {}, NameIsItsOwn(o)
                 PROVE  EntryHas(o)'
        BY <1>4 DEF Followed, NameIsItsOwn
    <2>1. NameOf(o) \in Names BY NamesOfObjects
    <2>2. CASE HandleDelete
        BY <2>1, <2>2 DEF HandleDelete, EntryHas
    <2>3. CASE HandleUpdate
        <3>1. PICK ok : UpdateURLs(NameOf(q), as, ok)
            BY <1>2, <2>3 DEF HandleUpdate
        <3>2. CASE o = q
            <4>1. as = addrs[o] BY <1>3, <3>2
            <4> QED BY <1>4, <2>1, <3>1, <3>2, <4>1 DEF UpdateURLs, EntryHas, TypeInv, TypeOK
        <3>3. CASE o # q
            <4>1. NameOf(o) # NameOf(q) BY <1>3, <3>3 DEF NameIsItsOwn
            <4>2. EntryHas(o) BY <1>3, <3>3 DEF TrackInv, Followed
            <4> QED BY <1>4, <2>1, <3>1, <4>1, <4>2 DEF UpdateURLs, EntryHas, TypeInv, TypeOK
        <3> QED BY <3>2, <3>3
    <2> QED BY <2>2, <2>3 DEF Informer
<1> QED BY <1>3, <1>5 DEF TrackInv

\* After a restart every object is listed again.
LEMMA TrackRestart == TypeInv /\ TrackInv /\ Restart => TrackInv'
<1> SUFFICES ASSUME TypeInv, TrackInv, Restart PROVE TrackInv'
    OBVIOUS
<1>1. PICK q \in [1..Cardinality(exists) -> exists] :
          /\ \A o \in exists : \E k \in DOMAIN q : q[k] = o
          /\ queue' = [k \in DOMAIN q |-> [obj |-> q[k], gone |-> FALSE, addrs |-> addrs[q[k]]]]
    BY DEF Restart
<1>2. exists' = exists /\ addrs' = addrs BY DEF Restart, clusterVars
<1>3. Cardinality(exists) \in Nat BY FS_CardinalityType DEF TypeInv
<1>4. Len(queue') = Cardinality(exists) BY <1>1, <1>3
<1>5. \A k \in 1..Len(queue') : /\ queue'[k].obj = q[k] /\ ~queue'[k].gone
                                /\ queue'[k].addrs = addrs[q[k]]
    BY <1>1, <1>4
<1>6. \A o \in Objects : LastIsCurrent(o)'
    BY <1>2, <1>5 DEF LastIsCurrent, Notices
<1>7. \A o \in exists : Notices(o)' # {}
    BY <1>1, <1>4, <1>5 DEF Notices
<1>8. \A o \in Objects : Followed(o)' BY <1>2, <1>7 DEF Followed
<1> QED BY <1>6, <1>8 DEF TrackInv

LEMMA TrackStep == TypeInv /\ TrackInv /\ [Next]_vars => TrackInv'
<1> SUFFICES ASSUME TypeInv, TrackInv, [Next]_vars PROVE TrackInv'
    OBVIOUS
<1>1. CASE Tracker
    BY <1>1, TrackFrame DEF Tracker, ReloadBegin, ReloadStore
<1>2. CASE CollectBegin \/ CollectAborted \/ Merge
    BY <1>2, TrackFrame DEF CollectBegin, CollectAborted, Merge, discoveryVars
<1>3. ASSUME NEW x \in Sample, Fetch(x) PROVE TrackInv'
    BY <1>3, TrackFrame DEF Fetch, FetchReturns, FetchFails, discoveryVars
<1>4. CASE UNCHANGED vars
    BY <1>4, TrackFrame DEF vars, discoveryVars
<1> QED BY <1>1, <1>2, <1>3, <1>4, TrackCluster, TrackInformer, TrackRestart DEF Next

\* Whatever objects come, change and go, however far the handler lags behind and however
\* often the helper is restarted: once its notifications are handled, the entry of an
\* object that has its name to itself has exactly the addresses the object has, unless a
\* deletion has emptied the map and the object has not changed since.
THEOREM EndpointsTrackedHolds == Spec => []EndpointsTracked
<1>1. Init => TrackInv
    <2> SUFFICES ASSUME Init PROVE TrackInv
        OBVIOUS
    <2>1. \A o : Notices(o) = {} BY DEF Init, Notices
    <2> QED BY <2>1 DEF Init, TrackInv, LastIsCurrent, Followed
<1>2. TypeInv /\ TrackInv => EndpointsTracked
    <2> SUFFICES ASSUME TypeInv, TrackInv, queue = <<>>, NEW o \in exists, NameIsItsOwn(o)
                 PROVE  EntryHas(o)
        BY DEF EndpointsTracked, EntryHas, NameIsItsOwn
    <2>1. o \in Objects /\ Notices(o) = {} BY DEF TypeInv, TypeOK, Notices
    <2> QED BY <2>1 DEF TrackInv, Followed
<1> QED BY TypeInit, TypeStep, TrackStep, <1>1, <1>2, PTL DEF Spec

=============================================================================
