------------------------- MODULE PodInjection_proofs -------------------------
(***************************************************************************)
(* Theorems about PodInjection, for every number of pods, containers,      *)
(* sources and attempts: the types, the attempt budget and the contract    *)
(* with and without the sweeper, the agreement of the cache with the       *)
(* informer's store (in the middle) without.                               *)
(***************************************************************************)
EXTENDS PodInjection, TLAPS

\* Where a pass can be: it has a pod only while somebody holds podsMapLock, it is at a
\* source only of an APM container with an id and not while it looks up PIDs, and runs a
\* command only at a source.
PassOK ==
    /\ lock = "free" => cur = NoPod
    /\ cur = NoPod => source = 0
    /\ source = 0 => elapsed = -1
    /\ stage = "process" => source = 0
    /\ source > 0 => /\ slot \in ApmSlots
                     /\ infos[slot].inc # 0

TypeInv == TypeOK /\ PassOK

USE ConstantsAssumption, NoPodAssumption

\* An id taken from a well-typed status is a container.
LEMMA IdType ==
    ASSUME NEW p \in Pods, NEW i \in Slots, NEW s,
           s.inc \in 1..MaxIncarnation
    PROVE  Id(p, i, s) \in Container
BY DEF Id, Container

LEMMA IdsOfType ==
    ASSUME NEW p \in Pods, NEW ss,
           \A i \in Slots : ss[i].inc \in 0..MaxIncarnation
    PROVE  IdsOf(p, ss) \subseteq Container
BY IdType DEF IdsOf

LEMMA HereType ==
    ASSUME TypeInv, source > 0
    PROVE  /\ Here \in Container
           /\ cur \in Pods /\ slot \in Slots
<1>1. cur \in Pods /\ slot \in Slots
  BY DEF TypeInv, TypeOK, PassOK, Slots
<1>2. infos[slot].inc \in 1..MaxIncarnation
  BY <1>1 DEF TypeInv, TypeOK, PassOK, Info
<1>3. QED
  BY <1>1, <1>2, IdType DEF Here

\* The backoff never exceeds its maximum.
LEMMA DelayType ==
    ASSUME NEW n \in Nat
    PROVE  InjectionRetryDelay(n) \in 0..MaxDelay
BY DEF InjectionRetryDelay

LEMMA NoInfoType ==
    /\ NoStatus \in [Slots -> Status]
    /\ NoInfo \in [Slots -> Info]
BY DEF NoStatus, NoInfo, Status, Info

LEMMA InitType == Init => TypeInv
<1> SUFFICES ASSUME Init PROVE TypeInv
  OBVIOUS
<1>1. /\ life \in [Pods -> Kinds] /\ store \in [Pods -> [Slots -> Status]]
      /\ podsMap \in [Pods -> [Slots -> Info]] /\ infos \in [Slots -> Info]
      /\ queue \in Seq([gone : BOOLEAN, pod : Pods, slots : [Slots -> Status]])
  BY NoInfoType DEF Init, Kinds
<1>2. /\ attempts \in [Container -> 0..(MaxAttempts - 1)]
      /\ left \in [Container -> 0..MaxDelay]
      /\ passes \in [Container -> Nat]
  BY DEF Init
<1>3. /\ slot \in 1..(NumSlots + 1) /\ source \in 0..NumSources
      /\ elapsed \in -1..ExecTimeout /\ counted \in Nat
  BY DEF Init
<1>4. /\ lock \in {"free", "informer", "retrier"} /\ phase \in Phases
      /\ enabled \in BOOLEAN /\ tried \in BOOLEAN /\ cur \in Pods \cup {NoPod}
      /\ stage \in {"process", "inject"} /\ runtime \in {"idle", "asked", "answered"}
  BY DEF Init, Phases
<1>5. /\ processed \subseteq Container /\ cleanup \subseteq Container
      /\ liveIds \subseteq Container /\ injected \subseteq Container
      /\ cached \subseteq Pods /\ todo \subseteq Pods /\ liveUids \subseteq Pods
  BY DEF Init
<1>6. TypeOK
  BY <1>1, <1>2, <1>3, <1>4, <1>5 DEF TypeOK
<1>7. PassOK
  BY DEF Init, PassOK
<1>8. QED
  BY <1>6, <1>7 DEF TypeInv

Notification == [gone : BOOLEAN, pod : Pods, slots : [Slots -> Status]]

LEMMA StartedType == [i \in Slots |-> [inc |-> 1, running |-> TRUE]] \in [Slots -> Status]
BY DEF Status

\* The environment's steps touch the store, the notifications and the configuration only.
LEMMA EnvironmentType == TypeInv /\ Environment => TypeInv'
<1> SUFFICES ASSUME TypeInv, Environment PROVE TypeInv'
  OBVIOUS
<1>1. ASSUME UNCHANGED SystemVars,
             life' \in [Pods -> Kinds], store' \in [Pods -> [Slots -> Status]],
             queue' \in Seq(Notification), enabled' \in BOOLEAN
      PROVE  TypeInv'
  BY <1>1 DEF TypeInv, TypeOK, PassOK, SystemVars, cacheVars, podVars, mapVars, passVars,
              sweepVars, Notification
<1>2. /\ life \in [Pods -> Kinds] /\ store \in [Pods -> [Slots -> Status]]
      /\ queue \in Seq(Notification) /\ enabled \in BOOLEAN
  BY DEF TypeInv, TypeOK, Notification
<1>3. ASSUME NEW p \in Pods, NEW gone \in BOOLEAN, NEW ss \in [Slots -> Status],
             Notify(p, gone, ss)
      PROVE  queue' \in Seq(Notification)
  <2>1. [gone |-> gone, pod |-> p, slots |-> ss] \in Notification
    BY DEF Notification
  <2>2. QED
    BY <1>2, <1>3, <2>1 DEF Notify
<1>4. ASSUME NEW p \in Pods, PodAdded(p) PROVE TypeInv'
  <2>1. PICK ss : /\ ss \in {NoStatus, [i \in Slots |-> [inc |-> 1, running |-> TRUE]]}
                  /\ store' = [store EXCEPT ![p] = ss]
                  /\ Notify(p, FALSE, ss)
    BY <1>4 DEF PodAdded
  <2>2. ss \in [Slots -> Status]
    BY <2>1, NoInfoType, StartedType
  <2>3. life' \in [Pods -> Kinds]
    BY <1>2, <1>4 DEF PodAdded, Kinds
  <2>4. QED
    BY <1>1, <1>2, <1>3, <1>4, <2>1, <2>2, <2>3 DEF PodAdded
<1>5. ASSUME NEW p \in Pods, PodTouched(p) PROVE TypeInv'
  BY <1>1, <1>2, <1>3, <1>5 DEF PodTouched, storeVars
<1>6. ASSUME NEW p \in Pods, PodDeleted(p) PROVE TypeInv'
  <2>1. life' \in [Pods -> Kinds]
    BY <1>2, <1>6 DEF PodDeleted, Kinds
  <2>2. QED
    BY <1>1, <1>2, <1>3, <1>6, <2>1 DEF PodDeleted
<1>7. ASSUME NEW p \in Pods, NEW i \in Slots, PodUpdated(p, i) PROVE TypeInv'
  <2>1. NextStatus(store[p][i]) \in Status
    BY <1>2, <1>7 DEF PodUpdated, NextStatus, Status
  <2>2. PICK ss : /\ ss = [store[p] EXCEPT ![i] = NextStatus(store[p][i])]
                  /\ store' = [store EXCEPT ![p] = ss]
                  /\ Notify(p, FALSE, ss)
    BY <1>7 DEF PodUpdated
  <2>3. ss \in [Slots -> Status]
    BY <1>2, <2>1, <2>2
  <2>4. QED
    BY <1>1, <1>2, <1>3, <1>7, <2>2, <2>3 DEF PodUpdated
<1>8. ASSUME ConfigReloaded PROVE TypeInv'
  BY <1>1, <1>2, <1>8 DEF ConfigReloaded, storeVars
<1>9. QED
  BY <1>4, <1>5, <1>6, <1>7, <1>8 DEF Environment

-----------------------------------------------------------------------------
\* The information rebuilt from a notification is well typed.
LEMMA CreateType ==
    ASSUME NEW p \in Pods, NEW ss \in [Slots -> Status]
    PROVE  CreateSimplePodInfo(p, ss) \in [Slots -> Info]
BY DEF CreateSimplePodInfo, Info, Status

\* Storing and evicting pods keep podVars well typed.
LEMMA PodVarsType ==
    ASSUME TypeInv
    PROVE  /\ \A p \in Pods : \A si \in [Slots -> Info] :
                 StorePod(p, si) => /\ cached' \subseteq Pods
                                    /\ podsMap' \in [Pods -> [Slots -> Info]]
           /\ \A P \in SUBSET Pods :
                 EvictPods(P) => /\ cached' \subseteq Pods
                                 /\ podsMap' \in [Pods -> [Slots -> Info]]
<1>1. cached \subseteq Pods /\ podsMap \in [Pods -> [Slots -> Info]]
  BY DEF TypeInv, TypeOK
<1>2. QED
  BY <1>1, NoInfoType DEF StorePod, EvictPods

\* Forgetting keeps the bookkeeping well typed.
LEMMA ForgetType ==
    ASSUME TypeInv, NEW C
    PROVE  /\ ForgetProcessed(C) => processed' \subseteq Container /\ injected' \subseteq Container
           /\ ForgetRetries(C) => /\ attempts' \in [Container -> 0..(MaxAttempts - 1)]
                                  /\ left' \in [Container -> 0..MaxDelay]
           /\ ForgetPasses(C) => passes' \in [Container -> Nat]
<1>1. /\ processed \subseteq Container /\ injected \subseteq Container
      /\ attempts \in [Container -> 0..(MaxAttempts - 1)]
      /\ left \in [Container -> 0..MaxDelay]
      /\ passes \in [Container -> Nat]
  BY DEF TypeInv, TypeOK
<1>2. QED
  BY <1>1 DEF ForgetProcessed, ForgetRetries, ForgetPasses

LEMMA HandlerType == TypeInv /\ Handler => TypeInv'
<1> SUFFICES ASSUME TypeInv, Handler PROVE TypeInv'
  OBVIOUS
<1>1. /\ queue \in Seq(Notification)
      /\ podsMap \in [Pods -> [Slots -> Info]] /\ cleanup \subseteq Container
  BY DEF TypeInv, TypeOK, Notification
<1>2. queue # <<>> => /\ Tail(queue) \in Seq(Notification)
                      /\ Head(queue) \in Notification
  BY <1>1
<1>3. CASE HandleUpsert
  <2> DEFINE p  == Head(queue).pod
             si == CreateSimplePodInfo(p, Head(queue).slots)
  <2>1. /\ p \in Pods /\ Head(queue).slots \in [Slots -> Status]
        /\ queue' \in Seq(Notification)
    BY <1>2, <1>3 DEF HandleUpsert, Notification
  <2>2. si \in [Slots -> Info]
    BY <2>1, CreateType
  <2> HIDE DEF p, si
  <2>3. /\ UNCHANGED <<storeVars, cacheVars, enabled, todo, cleanup, sweepVars, passes,
                       injected>>
        /\ lock = "free" /\ lock' = "informer" /\ BeginPass(p, si, "process")
    BY <1>3 DEF HandleUpsert, p, si
  <2>4. TypeOK'
    BY <2>1, <2>2, <2>3
    DEF TypeInv, TypeOK, BeginPass, storeVars, cacheVars, mapVars, sweepVars, podVars,
        Notification
  <2>5. PassOK'
    BY <2>1, <2>3 DEF TypeInv, PassOK, BeginPass
  <2>6. QED
    BY <2>4, <2>5 DEF TypeInv
<1>4. CASE HandleDelete
  <2> DEFINE p == Head(queue).pod
  <2>1. p \in Pods /\ queue' \in Seq(Notification)
    BY <1>2, <1>4 DEF HandleDelete, Notification
  <2>2. IdsOf(p, podsMap[p]) \subseteq Container
    BY <1>1, <2>1, IdsOfType DEF Info
  <2> HIDE DEF p
  <2>3. /\ UNCHANGED <<storeVars, mapVars, enabled, lock, passVars, todo, sweepVars, passes, injected>>
        /\ \/ EvictPods({p}) /\ cleanup' = IdsOf(p, podsMap[p])
           \/ UNCHANGED <<podVars, cleanup>>
    BY <1>4 DEF HandleDelete, p
  <2>4. /\ cached' \subseteq Pods /\ podsMap' \in [Pods -> [Slots -> Info]]
        /\ cleanup' \subseteq Container
    BY <1>1, <2>1, <2>2, <2>3, PodVarsType DEF podVars, TypeInv, TypeOK
  <2>5. QED
    BY <2>1, <2>3, <2>4
    DEF TypeInv, TypeOK, PassOK, storeVars, mapVars, sweepVars, passVars, Notification
<1>5. CASE CleanupContainer
  <2>1. PICK c \in cleanup : /\ ForgetProcessed({c})
                             /\ ForgetRetries({c})
                             /\ ForgetPasses({c})
                             /\ cleanup' = cleanup \ {c}
    BY <1>5 DEF CleanupContainer
  <2>2. /\ processed' \subseteq Container /\ injected' \subseteq Container
        /\ attempts' \in [Container -> 0..(MaxAttempts - 1)]
        /\ left' \in [Container -> 0..MaxDelay]
        /\ passes' \in [Container -> Nat]
    BY <2>1, ForgetType
  <2>3. UNCHANGED <<storeVars, queue, podVars, enabled, lock, passVars, todo, sweepVars>>
    BY <1>5 DEF CleanupContainer
  <2>4. QED
    BY <1>1, <2>1, <2>2, <2>3
    DEF TypeInv, TypeOK, PassOK, storeVars, podVars, sweepVars, passVars
<1>6. QED
  BY <1>3, <1>4, <1>5 DEF Handler

\* The bookkeeping of a failed and of a successful command keeps its type.
LEMMA RecordType ==
    ASSUME TypeInv, NEW c \in Container
    PROVE  /\ RecordInjectionFailure(c) =>
                 /\ processed' \subseteq Container
                 /\ attempts' \in [Container -> 0..(MaxAttempts - 1)]
                 /\ left' \in [Container -> 0..MaxDelay]
           /\ MarkInjectionDone(c) =>
                 /\ processed' \subseteq Container
                 /\ attempts' \in [Container -> 0..(MaxAttempts - 1)]
                 /\ left' \in [Container -> 0..MaxDelay]
<1>1. /\ processed \subseteq Container
      /\ attempts \in [Container -> 0..(MaxAttempts - 1)]
      /\ left \in [Container -> 0..MaxDelay]
  BY DEF TypeInv, TypeOK
<1>2. InjectionRetryDelay(attempts[c] + 1) \in 0..MaxDelay
  BY <1>1, DelayType
<1>3. RecordInjectionFailure(c) =>
         /\ processed' \subseteq Container
         /\ attempts' \in [Container -> 0..(MaxAttempts - 1)]
         /\ left' \in [Container -> 0..MaxDelay]
  <2> SUFFICES ASSUME RecordInjectionFailure(c)
               PROVE  /\ processed' \subseteq Container
                      /\ attempts' \in [Container -> 0..(MaxAttempts - 1)]
                      /\ left' \in [Container -> 0..MaxDelay]
    OBVIOUS
  <2>1. CASE left[c] > 0
    BY <1>1, <2>1 DEF RecordInjectionFailure, mapVars
  <2>2. CASE ~(left[c] > 0) /\ GivesUp(c)
    BY <1>1, <2>2 DEF RecordInjectionFailure
  <2>3. CASE ~(left[c] > 0) /\ ~GivesUp(c)
    <3>1. left[c] = 0 /\ attempts[c] + 1 \in 0..(MaxAttempts - 1)
      BY <1>1, <2>3 DEF GivesUp
    <3>2. QED
      BY <1>1, <1>2, <2>3, <3>1 DEF RecordInjectionFailure
  <2>4. QED
    BY <2>1, <2>2, <2>3
<1>4. MarkInjectionDone(c) =>
         /\ processed' \subseteq Container
         /\ attempts' \in [Container -> 0..(MaxAttempts - 1)]
         /\ left' \in [Container -> 0..MaxDelay]
  BY <1>1 DEF MarkInjectionDone
<1>5. QED
  BY <1>3, <1>4

\* Where a pass goes next, and what it leaves of the container it was at.
LEMMA NextSourceType ==
    ASSUME TypeInv, slot \in Slots
    PROVE  /\ NextSlot => slot' \in 1..(NumSlots + 1) /\ source' = 0
           /\ NextSource => /\ slot' \in 1..(NumSlots + 1) /\ source' \in 0..NumSources
                            /\ source' > 0 => slot' = slot
BY DEF TypeInv, TypeOK, NextSlot, NextSource, Slots

LEMMA MarkedType ==
    ASSUME TypeInv, slot \in Slots, NEW done \in BOOLEAN,
           infos' = [infos EXCEPT ![slot] = Marked(@, done)]
    PROVE  /\ infos' \in [Slots -> Info]
           /\ infos'[slot].inc = infos[slot].inc
<1>1. infos \in [Slots -> Info]
  BY DEF TypeInv, TypeOK
<1>2. Marked(infos[slot], done) \in Info /\ Marked(infos[slot], done).inc = infos[slot].inc
  BY <1>1 DEF Marked, Info
<1>3. QED
  BY <1>1, <1>2

\* The steps that look something up: they move a pass between containers, or leave it
\* where it is, and touch nothing else.
Lookup == ProcessContainer \/ BeginInjection \/ AskForPath \/ RuntimeAnswered

LEMMA LookupShape ==
    ASSUME TypeInv, Lookup
    PROVE  /\ UnchangedByLookup /\ source' = source
           /\ slot' = slot \/ (source = 0 /\ elapsed = -1)
           /\ slot' \in 1..(NumSlots + 1)
           /\ stage' \in {stage, "inject"}
           /\ runtime' \in {"idle", "asked", "answered"}
<1>1. /\ slot \in 1..(NumSlots + 1) /\ 1 \in 1..(NumSlots + 1)
      /\ slot <= NumSlots => slot + 1 \in 1..(NumSlots + 1)
      /\ stage = "process" => source = 0 /\ elapsed = -1
      /\ runtime \in {"idle", "asked", "answered"}
  BY DEF TypeInv, TypeOK, PassOK
<1>2. UnchangedByLookup /\ source' = source
  BY DEF Lookup, ProcessContainer, BeginInjection, AskForPath, RuntimeAnswered,
         UnchangedByLookup
<1>3. CASE ProcessContainer
  BY <1>1, <1>2, <1>3 DEF ProcessContainer
<1>4. CASE BeginInjection
  BY <1>1, <1>2, <1>4 DEF BeginInjection
<1>5. CASE AskForPath \/ RuntimeAnswered
  BY <1>1, <1>2, <1>5 DEF AskForPath, RuntimeAnswered
<1>6. QED
  BY <1>3, <1>4, <1>5 DEF Lookup

LEMMA LookupType == TypeInv /\ Lookup => TypeInv'
<1> SUFFICES ASSUME TypeInv, Lookup PROVE TypeInv'
  OBVIOUS
<1> USE DEF storeVars, podVars, mapVars, cacheVars, sweepVars
<1>1. /\ UnchangedByLookup /\ source' = source
      /\ slot' = slot \/ source = 0
      /\ slot' \in 1..(NumSlots + 1) /\ stage' \in {stage, "inject"}
      /\ runtime' \in {"idle", "asked", "answered"}
  BY LookupShape
<1>2. TypeOK'
  BY <1>1 DEF UnchangedByLookup, UnchangedByPass, TypeInv, TypeOK
<1>3. PassOK'
  BY <1>1 DEF UnchangedByLookup, UnchangedByPass, TypeInv, PassOK
<1>4. QED
  BY <1>2, <1>3 DEF TypeInv

LEMMA PassType == TypeInv /\ Pass => TypeInv'
<1> SUFFICES ASSUME TypeInv, Pass PROVE TypeInv'
  OBVIOUS
<1> USE DEF storeVars, podVars, mapVars, cacheVars, sweepVars, UnchangedByPass
<1>1. CASE ConsiderContainer
  <2>1. slot \in Slots
    BY <1>1 DEF ConsiderContainer, TypeInv, TypeOK, Slots
  <2>2. \/ Eligible /\ source' = 1 /\ slot' = slot
        \/ slot' = slot + 1 /\ source' = 0
    BY <1>1 DEF ConsiderContainer, NextSlot
  <2>3. slot' \in 1..(NumSlots + 1) /\ source' \in 0..NumSources
    BY <2>1, <2>2 DEF TypeInv, TypeOK, Slots
  <2>4. source' > 0 => slot' = slot /\ slot \in ApmSlots /\ infos[slot].inc # 0
    BY <2>2 DEF Eligible
  <2>5. TypeOK'
    BY <1>1, <2>3 DEF ConsiderContainer, TypeInv, TypeOK
  <2>6. PassOK'
    BY <1>1, <2>3, <2>4 DEF ConsiderContainer, TypeInv, PassOK
  <2>7. QED
    BY <2>5, <2>6 DEF TypeInv
<1>2. CASE SkipSource
  <2>1. slot \in Slots
    BY <1>2, HereType DEF SkipSource
  <2>2. /\ slot' \in 1..(NumSlots + 1) /\ source' \in 0..NumSources
        /\ source' > 0 => slot' = slot
    BY <1>2, <2>1, NextSourceType DEF SkipSource
  <2>3. TypeOK'
    BY <1>2, <2>2 DEF SkipSource, TypeInv, TypeOK
  <2>4. PassOK'
    BY <1>2, <2>2 DEF SkipSource, TypeInv, PassOK
  <2>5. QED
    BY <2>3, <2>4 DEF TypeInv
<1>3. CASE ExecStart
  <2>1. passes' \in [Container -> Nat]
    BY <1>3, HereType DEF ExecStart, TypeInv, TypeOK
  <2>2. TypeOK'
    BY <1>3, <2>1 DEF ExecStart, TypeInv, TypeOK
  <2>3. PassOK'
    BY <1>3 DEF ExecStart, TypeInv, PassOK
  <2>4. QED
    BY <2>2, <2>3 DEF TypeInv
<1>4. CASE ExecSucceeds
  <2>1. slot \in Slots /\ Here \in Container
    BY <1>4, HereType DEF ExecSucceeds
  <2>2. slot' \in 1..(NumSlots + 1) /\ source' = 0
    BY <1>4, <2>1, NextSourceType DEF ExecSucceeds
  <2>3. infos' \in [Slots -> Info]
    BY <1>4, <2>1, MarkedType DEF ExecSucceeds
  <2>4. /\ processed' \subseteq Container
        /\ attempts' \in [Container -> 0..(MaxAttempts - 1)]
        /\ left' \in [Container -> 0..MaxDelay]
    BY <1>4, <2>1, RecordType DEF ExecSucceeds
  <2>5. injected' \subseteq Container
    BY <1>4, <2>1 DEF ExecSucceeds, TypeInv, TypeOK
  <2>6. TypeOK'
    <3>1. /\ elapsed' = -1
          /\ UNCHANGED <<storeVars, queue, podVars, enabled, lock, cur, todo, cleanup,
                         sweepVars, passes, tried, counted, stage, runtime>>
      BY <1>4 DEF ExecSucceeds
    <3>2. -1 \in -1..ExecTimeout
      OBVIOUS
    <3>3. QED
      BY <2>2, <2>3, <2>4, <2>5, <3>1, <3>2 DEF TypeInv, TypeOK
  <2>7. PassOK'
    BY <1>4, <2>2 DEF ExecSucceeds, TypeInv, PassOK
  <2>8. QED
    BY <2>6, <2>7 DEF TypeInv
<1>5. CASE ExecFails
  <2>1. slot \in Slots /\ Here \in Container
    BY <1>5, HereType DEF ExecFails
  <2>2. /\ slot' \in 1..(NumSlots + 1) /\ source' \in 0..NumSources
        /\ source' > 0 => slot' = slot
    BY <1>5, <2>1, NextSourceType DEF ExecFails
  <2>3. infos' \in [Slots -> Info] /\ infos'[slot].inc = infos[slot].inc
    <3>1. (infos[slot].done \/ GivesUp(Here)) \in BOOLEAN
      BY <2>1 DEF TypeInv, TypeOK, Info, GivesUp
    <3>2. infos' = [infos EXCEPT ![slot] = Marked(@, infos[slot].done \/ GivesUp(Here))]
      BY <1>5, <2>1 DEF ExecFails, TypeInv, TypeOK
    <3>3. QED
      BY <2>1, <3>1, <3>2, MarkedType
  <2>4. /\ processed' \subseteq Container
        /\ attempts' \in [Container -> 0..(MaxAttempts - 1)]
        /\ left' \in [Container -> 0..MaxDelay]
    BY <1>5, <2>1, RecordType DEF ExecFails
  <2>5. counted' \in Nat
    BY <1>5 DEF ExecFails, TypeInv, TypeOK
  <2>6. TypeOK'
    BY <1>5, <2>2, <2>3, <2>4, <2>5 DEF ExecFails, TypeInv, TypeOK
  <2>7. PassOK'
    BY <1>5, <2>2, <2>3 DEF ExecFails, TypeInv, PassOK
  <2>8. QED
    BY <2>6, <2>7 DEF TypeInv
<1>6. CASE EndPass
  <2>1. cur \in Pods /\ infos \in [Slots -> Info]
    BY <1>6 DEF EndPass, TypeInv, TypeOK
  <2>2. cached' \subseteq Pods /\ podsMap' \in [Pods -> [Slots -> Info]]
    BY <1>6, <2>1, PodVarsType DEF EndPass
  <2>3. lock' \in {"free", "informer", "retrier"}
    BY <1>6 DEF EndPass, UnlockAfterPass, TypeInv, TypeOK
  <2>4. slot = NumSlots + 1 /\ source = 0 /\ elapsed = -1
    BY <1>6 DEF EndPass, TypeInv, TypeOK, PassOK
  <2>5. TypeOK'
    <3>1. /\ cur' = NoPod /\ infos' = NoInfo /\ slot' = 1 /\ tried' = FALSE /\ counted' = 0
          /\ todo' = todo \ {cur}
          /\ UNCHANGED <<storeVars, queue, mapVars, enabled, stage, runtime, source, elapsed,
                         cleanup, sweepVars, passes, injected>>
      BY <1>6 DEF EndPass
    <3>2. 1 \in 1..(NumSlots + 1) /\ 0 \in Nat /\ infos' \in [Slots -> Info]
      BY <3>1, NoInfoType
    <3>3. QED
      BY <2>2, <2>3, <3>1, <3>2 DEF TypeInv, TypeOK
  <2>6. PassOK'
    BY <1>6, <2>4 DEF EndPass, TypeInv, PassOK
  <2>7. QED
    BY <2>5, <2>6 DEF TypeInv
<1>7. QED
  BY <1>1, <1>2, <1>3, <1>4, <1>5, <1>6, LookupType DEF Pass, Lookup

LEMMA RetrierType == TypeInv /\ Retrier => TypeInv'
<1> SUFFICES ASSUME TypeInv, Retrier PROVE TypeInv'
  OBVIOUS
<1> USE DEF storeVars, podVars, mapVars, cacheVars, sweepVars, passVars
<1>1. CASE RetrierStart
  BY <1>1 DEF RetrierStart, TypeInv, TypeOK, PassOK
<1>2. ASSUME NEW p \in Pods, RetrierVisit(p) PROVE TypeInv'
  <2>1. podsMap[p] \in [Slots -> Info] /\ lock = "retrier" /\ source = 0
    BY <1>2 DEF RetrierVisit, TypeInv, TypeOK, PassOK
  <2>2. /\ UNCHANGED <<storeVars, queue, cacheVars, enabled, lock, cleanup, sweepVars,
                       passes, injected>>
        /\ \/ BeginPass(p, podsMap[p], "inject") /\ UNCHANGED todo
           \/ todo' = todo \ {p} /\ UNCHANGED passVars
    BY <1>2 DEF RetrierVisit
  <2>3. CASE BeginPass(p, podsMap[p], "inject") /\ UNCHANGED todo
    <3>1. TypeOK'
      BY <2>1, <2>2, <2>3 DEF BeginPass, TypeInv, TypeOK
    <3>2. PassOK'
      BY <2>1, <2>2, <2>3 DEF BeginPass, TypeInv, PassOK
    <3>3. QED
      BY <3>1, <3>2 DEF TypeInv
  <2>4. CASE todo' = todo \ {p} /\ UNCHANGED passVars
    BY <2>2, <2>4 DEF TypeInv, TypeOK, PassOK
  <2>5. QED
    BY <2>2, <2>3, <2>4
<1>3. CASE RetrierEnd
  BY <1>3 DEF RetrierEnd, TypeInv, TypeOK, PassOK
<1>4. QED
  BY <1>1, <1>2, <1>3 DEF Retrier

LEMMA SweeperType == TypeInv /\ Sweeper => TypeInv'
<1> SUFFICES ASSUME TypeInv, Sweeper PROVE TypeInv'
  OBVIOUS
<1> USE DEF storeVars, podVars, mapVars, cacheVars, sweepVars, passVars
<1>1. CASE SweepList
  <2>1. \A p \in Pods, i \in Slots : store[p][i].inc \in 0..MaxIncarnation
    BY DEF TypeInv, TypeOK, Status
  <2>2. liveUids' \subseteq Pods /\ liveIds' \subseteq Container
    BY <1>1, <2>1, IdsOfType DEF SweepList, LivePods
  <2>3. QED
    BY <1>1, <2>2 DEF SweepList, TypeInv, TypeOK, PassOK, Phases
<1>2. CASE SweepPods
  <2>1. cached \ liveUids \in SUBSET Pods
    BY DEF TypeInv, TypeOK
  <2>2. cached' \subseteq Pods /\ podsMap' \in [Pods -> [Slots -> Info]]
    BY <1>2, <2>1, PodVarsType DEF SweepPods
  <2>3. QED
    BY <1>2, <2>2 DEF SweepPods, TypeInv, TypeOK, PassOK, Phases
<1>3. CASE SweepProcessed
  <2>1. /\ processed' \subseteq Container /\ injected' \subseteq Container
        /\ passes' \in [Container -> Nat]
    BY <1>3, ForgetType DEF SweepProcessed
  <2>2. QED
    BY <1>3, <2>1 DEF SweepProcessed, TypeInv, TypeOK, PassOK, Phases
<1>4. CASE SweepRetries
  <2>1. /\ attempts' \in [Container -> 0..(MaxAttempts - 1)]
        /\ left' \in [Container -> 0..MaxDelay]
        /\ passes' \in [Container -> Nat]
    BY <1>4, ForgetType DEF SweepRetries
  <2>2. QED
    BY <1>4, <2>1 DEF SweepRetries, TypeInv, TypeOK, PassOK, Phases
<1>5. QED
  BY <1>1, <1>2, <1>3, <1>4 DEF Sweeper

LEMMA TickType == TypeInv /\ Tick => TypeInv'
<1> SUFFICES ASSUME TypeInv, Tick PROVE TypeInv'
  OBVIOUS
<1>1. left' \in [Container -> 0..MaxDelay]
  BY DEF Tick, TypeInv, TypeOK
<1>2. elapsed' \in -1..ExecTimeout /\ (elapsed = -1 => elapsed' = -1)
  BY DEF Tick, TypeInv, TypeOK
<1>3. QED
  BY <1>1, <1>2 DEF Tick, TypeInv, TypeOK, PassOK, storeVars, podVars, sweepVars

LEMMA TypeStep == TypeInv /\ [Next]_vars => TypeInv'
<1> SUFFICES ASSUME TypeInv, [Next]_vars PROVE TypeInv'
  OBVIOUS
<1>1. CASE UNCHANGED vars
  BY <1>1 DEF vars, storeVars, podVars, mapVars, cacheVars, sweepVars, passVars,
              TypeInv, TypeOK, PassOK
<1>2. CASE Next
  BY <1>2, EnvironmentType, LookupType, HandlerType, PassType, RetrierType, SweeperType,
     TickType
  DEF Next, Lookup
<1>3. QED
  BY <1>1, <1>2

\* The four goroutines keep every piece of the bookkeeping in its range, and a pass only
\* ever runs while podsMapLock is held and at a container that has an id.
THEOREM TypeInvariance == Spec => []TypeInv
<1>1. QED
  BY InitType, TypeStep, PTL DEF Spec

\* The number of attempts of a retry entry stays below injectionMaxAttempts and the time
\* left until its next attempt within injectionRetryMaxDelay, among the other types.
THEOREM TypeCorrect == Spec => []TypeOK
<1>1. TypeInv => TypeOK
  BY DEF TypeInv
<1>2. QED
  BY TypeInvariance, <1>1, PTL

-----------------------------------------------------------------------------
(***************************************************************************)
(* The attempt budget.  PassBudget and NoReinjection are not inductive:    *)
(* what keeps them is that a pass that has not run a command yet is at a   *)
(* container which is not processed and whose retry time has come, and     *)
(* that this follows from ExecProcessed, wherever it is stored, never      *)
(* lagging behind processedContainers.                                     *)
(***************************************************************************)

\* A container without a retry entry has no time to wait for.
NoEntryNoWait == \A c \in Container : attempts[c] = 0 => left[c] = 0

\* While a command that was due runs, its attempt is not counted yet.
Uncounted(c) == IF source > 0 /\ elapsed # -1 /\ c = Here /\ left[c] = 0 THEN 1 ELSE 0

\* Every pass that has run a command in a container that is not given up is counted.
PassesCounted ==
    \A c \in Container : c \notin processed => passes[c] <= attempts[c] + Uncounted(c)

\* Before its first command, a pass is at a container that is due and not processed.
BeforeFirstCommand ==
    /\ elapsed # -1 => tried
    /\ source > 0 /\ ~tried => left[Here] = 0 /\ Here \notin processed

\* The ExecProcessed that a pass reads does not lag behind processedContainers.
InfosMarked ==
    cur # NoPod => \A i \in ApmSlots :
        infos[i].inc # 0 /\ Id(cur, i, infos[i]) \in processed => infos[i].done

\* What has succeeded is processed, and no pass is at such a container.
InjectedIsProcessed ==
    /\ injected \subseteq processed
    /\ source > 0 => Here \notin injected

BudgetInv == /\ NoEntryNoWait /\ PassesCounted /\ BeforeFirstCommand
             /\ PassBudget
MarkedInv == /\ InfosMarked /\ ProcessedIsMarked /\ InjectedIsProcessed

\* Nothing is left in podsMap of a pod that is not in it.
EvictedEmpty == \A p \in Pods : p \notin cached => podsMap[p] = NoInfo

IInv == TypeInv /\ EvictedEmpty /\ MarkedInv /\ BudgetInv

LEMMA IInvInit == Init => EvictedEmpty /\ MarkedInv /\ BudgetInv
BY DEF Init, EvictedEmpty, MarkedInv, BudgetInv, InfosMarked, ProcessedIsMarked, InjectedIsProcessed,
       NoEntryNoWait, PassesCounted, BeforeFirstCommand, PassBudget, Uncounted

\* Two containers of a pod have different ids.
LEMMA IdInjective ==
    ASSUME NEW p, NEW i, NEW s, NEW q, NEW j, NEW t, Id(p, i, s) = Id(q, j, t)
    PROVE  p = q /\ i = j /\ s.inc = t.inc
BY DEF Id

LEMMA HereFrame ==
    ASSUME cur' = cur, slot' = slot, infos'[slot].inc = infos[slot].inc
    PROVE  Here' = Here
BY DEF Here, Id

\* The information rebuilt from a notification is marked as processedContainers is.
LEMMA CreateMarked ==
    ASSUME NEW p \in Pods, NEW ss \in [Slots -> Status], NEW i \in ApmSlots
    PROVE  LET si == CreateSimplePodInfo(p, ss)
           IN  si[i].inc # 0 /\ Id(p, i, si[i]) \in processed => si[i].done
<1>1. i \in Slots
  BY DEF Slots
<1> DEFINE si == CreateSimplePodInfo(p, ss)
<1>2. /\ si[i].inc = ss[i].inc
      /\ si[i].done = (i \in ApmSlots /\ ss[i].inc # 0 /\ Id(p, i, ss[i]) \in processed)
  BY <1>1 DEF CreateSimplePodInfo
<1> HIDE DEF si
<1>3. Id(p, i, si[i]) = Id(p, i, ss[i])
  BY <1>2 DEF Id
<1>4. si[i].inc # 0 /\ Id(p, i, si[i]) \in processed => si[i].done
  BY <1>2, <1>3
<1>5. QED
  BY <1>4 DEF si

\* Steps of the environment, of the clock and of the sweeper's other phases, and lookups.
LEMMA MarkedFrame ==
    ASSUME MarkedInv, UNCHANGED <<podVars, processed, injected, cur, infos>>,
           source' = source, slot' = slot \/ source = 0
    PROVE  MarkedInv'
BY DEF MarkedInv, InfosMarked, ProcessedIsMarked, InjectedIsProcessed, ApmContainer, podVars,
       Here

\* Forgetting ids only makes the three conditions weaker.
LEMMA MarkedForget ==
    ASSUME MarkedInv, NEW C, ForgetProcessed(C), UNCHANGED <<podVars, cur, infos, slot>>,
           source' = source
    PROVE  MarkedInv'
<1>1. processed' \subseteq processed /\ injected' \subseteq processed' /\ injected' \subseteq injected
  BY DEF ForgetProcessed, MarkedInv, InjectedIsProcessed
<1>2. InfosMarked'
  BY <1>1 DEF MarkedInv, InfosMarked
<1>3. ProcessedIsMarked'
  BY <1>1 DEF MarkedInv, ProcessedIsMarked, ApmContainer, podVars
<1>4. InjectedIsProcessed'
  BY <1>1 DEF MarkedInv, InjectedIsProcessed, Here
<1>5. QED
  BY <1>2, <1>3, <1>4 DEF MarkedInv

LEMMA MarkedEvict ==
    ASSUME MarkedInv, TypeInv, NEW P \in SUBSET Pods, EvictPods(P),
           UNCHANGED <<processed, injected, cur, infos, slot>>, source' = source
    PROVE  MarkedInv'
<1>1. \A p \in cached' : p \in cached /\ podsMap'[p] = podsMap[p]
  BY DEF EvictPods, TypeInv, TypeOK
<1>2. ProcessedIsMarked'
  BY <1>1 DEF MarkedInv, ProcessedIsMarked, ApmContainer
<1>3. InfosMarked' /\ InjectedIsProcessed'
  BY DEF MarkedInv, InfosMarked, InjectedIsProcessed, Here
<1>4. QED
  BY <1>2, <1>3 DEF MarkedInv

\* Storing a pod's information whose marks are up to date, when no pass is under way.
LEMMA MarkedStore ==
    ASSUME MarkedInv, TypeInv, NEW p \in Pods, NEW si \in [Slots -> Info], StorePod(p, si),
           UNCHANGED <<processed, injected>>, cur' = NoPod, source' = 0,
           cur \in {p, NoPod},
           \A i \in ApmSlots : si[i].inc # 0 /\ Id(p, i, si[i]) \in processed => si[i].done
    PROVE  MarkedInv'
<1>1. /\ podsMap \in [Pods -> [Slots -> Info]]
      /\ podsMap' = [podsMap EXCEPT ![p] = si]
      /\ cached' = cached \cup {p}
  BY DEF StorePod, TypeInv, TypeOK
<1>2. ProcessedIsMarked'
  <2> SUFFICES ASSUME NEW q \in Pods, NEW i \in Slots, (q \in cached)', ApmContainer(q, i)',
                      (Id(q, i, podsMap[q][i]) \in processed)'
               PROVE  (podsMap[q][i].done)'
    BY DEF ProcessedIsMarked
  <2>1. CASE q = p
    BY <1>1, <2>1 DEF ApmContainer
  <2>2. CASE q # p
    BY <1>1, <2>2 DEF ApmContainer, MarkedInv, ProcessedIsMarked
  <2>3. QED
    BY <2>1, <2>2
<1>3. InfosMarked' /\ InjectedIsProcessed'
  BY DEF MarkedInv, InfosMarked, InjectedIsProcessed
<1>4. QED
  BY <1>2, <1>3 DEF MarkedInv

\* A pass begins with information whose marks are up to date.
LEMMA MarkedBegin ==
    ASSUME MarkedInv, TypeInv, NEW p \in Pods, NEW si, NEW st, BeginPass(p, si, st), cur = NoPod,
           UNCHANGED <<podVars, processed, injected>>,
           \A i \in ApmSlots : si[i].inc # 0 /\ Id(p, i, si[i]) \in processed => si[i].done
    PROVE  MarkedInv'
<1>1. cur' = p /\ infos' = si /\ source' = 0
  BY DEF BeginPass, TypeInv, PassOK
<1>2. InfosMarked'
  BY <1>1 DEF InfosMarked
<1>3. cur \notin Pods
  OBVIOUS
<1>4. ProcessedIsMarked'
  BY <1>3 DEF MarkedInv, ProcessedIsMarked, ApmContainer, podVars
<1>5. InjectedIsProcessed'
  BY <1>1 DEF MarkedInv, InjectedIsProcessed
<1>6. QED
  BY <1>2, <1>4, <1>5 DEF MarkedInv

\* A command ends: the container may become processed, and is then marked in the pass.
LEMMA MarkedExec ==
    ASSUME MarkedInv, TypeInv, source > 0, UNCHANGED <<podVars, cur>>,
           NEW done \in BOOLEAN, infos' = [infos EXCEPT ![slot] = Marked(@, done)],
           processed' = processed \/ (processed' = processed \cup {Here} /\ done),
           infos[slot].done => done,
           \/ injected' = injected /\ (source' > 0 => slot' = slot)
           \/ injected' = injected \cup {Here} /\ source' = 0 /\ Here \in processed'
    PROVE  MarkedInv'
<1>1. cur \in Pods /\ slot \in Slots
  BY HereType
<1>2. infos \in [Slots -> Info]
  BY DEF TypeInv, TypeOK
<1>3. /\ \A i \in Slots : infos'[i].inc = infos[i].inc
      /\ infos'[slot].done = done
      /\ \A i \in Slots : i # slot => infos'[i] = infos[i]
  BY <1>1, <1>2 DEF Marked
<1>4. \A i \in Slots : Id(cur, i, infos'[i]) = Id(cur, i, infos[i])
  BY <1>3 DEF Id
<1>5. InfosMarked'
  <2> SUFFICES ASSUME NEW i \in ApmSlots, infos'[i].inc # 0,
                      Id(cur, i, infos'[i]) \in processed'
               PROVE  infos'[i].done
    BY DEF InfosMarked
  <2>1. i \in Slots
    BY DEF Slots
  <2>2. CASE i = slot
    <3>1. CASE processed' = processed
      <4>1. infos[i].inc # 0 /\ Id(cur, i, infos[i]) \in processed
        BY <1>3, <1>4, <2>1, <3>1
      <4>2. cur # NoPod
        BY <1>1
      <4>3. infos[slot].done
        BY <2>2, <4>1, <4>2 DEF MarkedInv, InfosMarked
      <4>4. QED
        BY <1>3, <2>2, <4>3
    <3>2. CASE done
      BY <1>3, <2>2, <3>2
    <3>3. QED
      BY <3>1, <3>2
  <2>3. CASE i # slot
    <3>1. Id(cur, i, infos[i]) # Here
      BY <2>3, IdInjective DEF Here
    <3>2. Id(cur, i, infos[i]) \in processed /\ infos[i].inc # 0
      BY <1>3, <1>4, <2>1, <3>1
    <3>3. QED
      BY <1>1, <1>3, <2>1, <2>3, <3>2 DEF MarkedInv, InfosMarked
  <2>4. QED
    BY <2>2, <2>3
<1>6. ProcessedIsMarked'
  <2> SUFFICES ASSUME NEW p \in Pods, NEW i \in Slots, p \in cached, p # cur,
                      ApmContainer(p, i), Id(p, i, podsMap[p][i]) \in processed'
               PROVE  podsMap[p][i].done
    BY DEF ProcessedIsMarked, ApmContainer, podVars
  <2>1. Id(p, i, podsMap[p][i]) # Here
    BY IdInjective DEF Here
  <2>2. QED
    BY <2>1 DEF MarkedInv, ProcessedIsMarked
<1>7. InjectedIsProcessed'
  <2>1. injected' \subseteq processed'
    BY DEF MarkedInv, InjectedIsProcessed
  <2>2. source' > 0 => Here' \notin injected'
    <3>1. CASE source' = 0
      BY <3>1
    <3>2. CASE injected' = injected /\ slot' = slot
      <4>1. Here' = Here
        BY <1>1, <1>3, <3>2, HereFrame
      <4>2. QED
        BY <3>2, <4>1 DEF MarkedInv, InjectedIsProcessed
    <3>3. QED
      BY <3>1, <3>2
  <2>3. QED
    BY <2>1, <2>2 DEF InjectedIsProcessed
<1>8. QED
  BY <1>5, <1>6, <1>7 DEF MarkedInv

LEMMA MarkedLookup == MarkedInv /\ TypeInv /\ Lookup => MarkedInv'
BY LookupShape, MarkedFrame DEF UnchangedByLookup, cacheVars, mapVars

LEMMA MarkedPass == MarkedInv /\ TypeInv /\ Pass => MarkedInv'
<1> SUFFICES ASSUME MarkedInv, TypeInv, Pass PROVE MarkedInv'
  OBVIOUS
<1> USE DEF UnchangedByPass
<1>1. CASE ConsiderContainer
  <2>1. /\ UNCHANGED <<podVars, processed, injected, cur, infos>>
        /\ \/ Eligible /\ slot' = slot
           \/ source' = 0
    BY <1>1 DEF ConsiderContainer, NextSlot, cacheVars, mapVars
  <2>2. InfosMarked' /\ ProcessedIsMarked'
    BY <2>1 DEF MarkedInv, InfosMarked, ProcessedIsMarked, ApmContainer, podVars
  <2>3. Eligible => Here \notin injected
    BY <1>1 DEF ConsiderContainer, Eligible, MarkedInv, InfosMarked, InjectedIsProcessed, Here
  <2>4. InjectedIsProcessed'
    <3>1. slot' = slot => Here' = Here
      BY <2>1, HereFrame
    <3>2. QED
      BY <2>1, <2>3, <3>1 DEF MarkedInv, InjectedIsProcessed
  <2>5. QED
    BY <2>2, <2>4 DEF MarkedInv
<1>2. CASE SkipSource
  <2>1. /\ UNCHANGED <<podVars, processed, injected, cur, infos>>
        /\ source > 0
        /\ slot' = slot \/ source' = 0
    BY <1>2 DEF SkipSource, NextSource, NextSlot, cacheVars, mapVars
  <2>2. InfosMarked' /\ ProcessedIsMarked'
    BY <2>1 DEF MarkedInv, InfosMarked, ProcessedIsMarked, ApmContainer, podVars
  <2>3. slot' = slot => Here' = Here
    BY <2>1, HereFrame
  <2>4. InjectedIsProcessed'
    BY <2>1, <2>3 DEF MarkedInv, InjectedIsProcessed
  <2>5. QED
    BY <2>2, <2>4 DEF MarkedInv
<1>3. CASE ExecStart
  BY <1>3, MarkedFrame DEF ExecStart, cacheVars, mapVars
<1>4. CASE ExecSucceeds
  <2>1. /\ source > 0 /\ UNCHANGED <<podVars, cur>>
        /\ infos' = [infos EXCEPT ![slot] = Marked(@, TRUE)]
        /\ processed' = processed \cup {Here}
        /\ injected' = injected \cup {Here} /\ source' = 0
    BY <1>4 DEF ExecSucceeds, MarkInjectionDone, NextSlot
  <2>2. QED
    BY <2>1, MarkedExec
<1>5. CASE ExecFails
  <2> DEFINE done == infos[slot].done \/ GivesUp(Here)
  <2>1. slot \in Slots /\ source > 0
    BY <1>5, HereType DEF ExecFails
  <2>2. done \in BOOLEAN /\ (infos[slot].done => done)
    BY <2>1 DEF TypeInv, TypeOK, Info, GivesUp
  <2>3. infos' = [infos EXCEPT ![slot] = Marked(@, done)]
    BY <1>5, <2>1 DEF ExecFails, TypeInv, TypeOK
  <2>4. processed' = processed \/ (processed' = processed \cup {Here} /\ done)
    BY <1>5 DEF ExecFails, RecordInjectionFailure, mapVars
  <2>5. /\ UNCHANGED <<podVars, cur>> /\ injected' = injected
        /\ source' > 0 => slot' = slot
    BY <1>5 DEF ExecFails, NextSource, NextSlot
  <2> HIDE DEF done
  <2>6. QED
    BY <2>1, <2>2, <2>3, <2>4, <2>5, MarkedExec
<1>6. CASE EndPass
  <2>1. cur \in Pods /\ infos \in [Slots -> Info] /\ source = 0
    BY <1>6 DEF EndPass, TypeInv, TypeOK, PassOK
  <2>2. /\ StorePod(cur, infos) /\ UNCHANGED <<processed, injected>>
        /\ cur' = NoPod /\ source' = 0
    BY <1>6, <2>1 DEF EndPass, mapVars
  <2>3. \A i \in ApmSlots :
           infos[i].inc # 0 /\ Id(cur, i, infos[i]) \in processed => infos[i].done
    BY <1>6 DEF EndPass, MarkedInv, InfosMarked
  <2>4. QED
    BY <2>1, <2>2, <2>3, MarkedStore
<1>7. QED
  BY <1>1, <1>2, <1>3, <1>4, <1>5, <1>6, MarkedLookup DEF Pass, Lookup

LEMMA MarkedHandler == MarkedInv /\ TypeInv /\ Handler => MarkedInv'
<1> SUFFICES ASSUME MarkedInv, TypeInv, Handler PROVE MarkedInv'
  OBVIOUS
<1>1. queue # <<>> => Head(queue) \in Notification
  <2>1. queue \in Seq(Notification)
    BY DEF TypeInv, TypeOK, Notification
  <2>2. QED
    BY <2>1
<1>2. CASE HandleUpsert
  <2> DEFINE p  == Head(queue).pod
             ss == Head(queue).slots
             si == CreateSimplePodInfo(p, ss)
  <2>1. p \in Pods /\ ss \in [Slots -> Status]
    BY <1>1, <1>2 DEF HandleUpsert, Notification
  <2>2. /\ si \in [Slots -> Info]
        /\ \A i \in ApmSlots : si[i].inc # 0 /\ Id(p, i, si[i]) \in processed => si[i].done
    BY <2>1, CreateType, CreateMarked
  <2>3. cur = NoPod
    BY <1>2 DEF HandleUpsert, TypeInv, PassOK
  <2>4. UNCHANGED <<podVars, processed, injected>> /\ BeginPass(p, si, "process")
    BY <1>2 DEF HandleUpsert, cacheVars, mapVars
  <2> HIDE DEF p, ss, si
  <2>5. QED
    BY <2>1, <2>2, <2>3, <2>4, MarkedBegin
<1>3. CASE HandleDelete
  <2> DEFINE p == Head(queue).pod
  <2>1. {p} \in SUBSET Pods
    BY <1>1, <1>3 DEF HandleDelete, Notification
  <2>2. /\ UNCHANGED <<mapVars, passVars, injected>>
        /\ EvictPods({p}) \/ UNCHANGED podVars
    BY <1>3 DEF HandleDelete
  <2> HIDE DEF p
  <2>3. CASE EvictPods({p})
    BY <2>1, <2>2, <2>3, MarkedEvict DEF passVars, mapVars
  <2>4. CASE UNCHANGED podVars
    BY <2>2, <2>4, MarkedFrame DEF passVars, mapVars
  <2>5. QED
    BY <2>2, <2>3, <2>4
<1>4. CASE CleanupContainer
  <2>1. PICK c \in cleanup : ForgetProcessed({c})
    BY <1>4 DEF CleanupContainer
  <2>2. QED
    BY <1>4, <2>1, MarkedForget DEF CleanupContainer, passVars
<1>5. QED
  BY <1>2, <1>3, <1>4 DEF Handler

LEMMA MarkedRetrier == MarkedInv /\ EvictedEmpty /\ TypeInv /\ Retrier => MarkedInv'
<1> SUFFICES ASSUME MarkedInv, EvictedEmpty, TypeInv, Retrier PROVE MarkedInv'
  OBVIOUS
<1>1. CASE RetrierStart
  BY <1>1, MarkedFrame DEF RetrierStart, cacheVars, mapVars, passVars
<1>2. ASSUME NEW p \in Pods, RetrierVisit(p) PROVE MarkedInv'
  <2>1. /\ cur = NoPod /\ UNCHANGED <<podVars, processed, injected>>
        /\ \/ HasDueInjection(p) /\ BeginPass(p, podsMap[p], "inject")
           \/ UNCHANGED passVars
    BY <1>2 DEF RetrierVisit, cacheVars, mapVars
  <2>2. CASE HasDueInjection(p) /\ BeginPass(p, podsMap[p], "inject")
    <3>1. p # cur
      BY <2>1
    <3>2. ASSUME NEW i \in ApmSlots, podsMap[p][i].inc # 0,
                 Id(p, i, podsMap[p][i]) \in processed
          PROVE  podsMap[p][i].done
      <4>1. i \in Slots
        BY DEF Slots
      <4>2. p \in cached
        BY <3>2, <4>1 DEF EvictedEmpty, NoInfo
      <4>3. QED
        BY <3>1, <3>2, <4>1, <4>2 DEF MarkedInv, ProcessedIsMarked, ApmContainer
    <3>3. QED
      BY <2>1, <2>2, <3>2, MarkedBegin
  <2>3. CASE UNCHANGED passVars
    BY <2>1, <2>3, MarkedFrame DEF passVars
  <2>4. QED
    BY <2>1, <2>2, <2>3
<1>3. CASE RetrierEnd
  BY <1>3, MarkedFrame DEF RetrierEnd, cacheVars, mapVars, passVars
<1>4. QED
  BY <1>1, <1>2, <1>3 DEF Retrier

LEMMA MarkedSweeper == MarkedInv /\ TypeInv /\ Sweeper => MarkedInv'
<1> SUFFICES ASSUME MarkedInv, TypeInv, Sweeper PROVE MarkedInv'
  OBVIOUS
<1>1. CASE SweepList
  BY <1>1, MarkedFrame DEF SweepList, cacheVars, mapVars, passVars
<1>2. CASE SweepPods
  <2>1. cached \ liveUids \in SUBSET Pods
    BY DEF TypeInv, TypeOK
  <2>2. QED
    BY <1>2, <2>1, MarkedEvict DEF SweepPods, mapVars, passVars
<1>3. CASE SweepProcessed
  BY <1>3, MarkedForget DEF SweepProcessed, passVars
<1>4. CASE SweepRetries
  BY <1>4, MarkedFrame DEF SweepRetries, passVars
<1>5. QED
  BY <1>1, <1>2, <1>3, <1>4 DEF Sweeper

LEMMA MarkedStep == MarkedInv /\ EvictedEmpty /\ TypeInv /\ [Next]_vars => MarkedInv'
<1> SUFFICES ASSUME MarkedInv, EvictedEmpty, TypeInv, [Next]_vars PROVE MarkedInv'
  OBVIOUS
<1>1. CASE Environment
  <2>1. UNCHANGED SystemVars
    BY <1>1 DEF Environment, PodAdded, PodTouched, PodDeleted, PodUpdated, ConfigReloaded
  <2>2. QED
    BY <2>1, MarkedFrame DEF SystemVars, cacheVars, mapVars, passVars
<1>2. CASE Tick
  BY <1>2, MarkedFrame DEF Tick
<1>3. CASE UNCHANGED vars
  BY <1>3, MarkedFrame DEF vars, cacheVars, mapVars, passVars
<1>4. QED
  BY <1>1, <1>2, <1>3, MarkedLookup, MarkedHandler, MarkedPass, MarkedRetrier, MarkedSweeper
  DEF Next, Lookup

LEMMA EvictedStep == EvictedEmpty /\ TypeInv /\ [Next]_vars => EvictedEmpty'
<1> SUFFICES ASSUME EvictedEmpty, TypeInv, [Next]_vars PROVE EvictedEmpty'
  OBVIOUS
<1>1. ASSUME UNCHANGED podVars PROVE EvictedEmpty'
  BY <1>1 DEF EvictedEmpty, podVars
<1>2. ASSUME NEW P, EvictPods(P) PROVE EvictedEmpty'
  BY <1>2 DEF EvictedEmpty, EvictPods
<1>3. ASSUME NEW p, NEW si, StorePod(p, si) PROVE EvictedEmpty'
  BY <1>3 DEF EvictedEmpty, StorePod, TypeInv, TypeOK
<1>4. CASE Environment \/ Tick \/ UNCHANGED vars
  BY <1>1, <1>4 DEF Environment, PodAdded, PodTouched, PodDeleted, PodUpdated, ConfigReloaded,
                    SystemVars, cacheVars, podVars, Tick, vars
<1>5. CASE Handler
  BY <1>1, <1>2, <1>5 DEF Handler, HandleUpsert, HandleDelete, CleanupContainer, cacheVars,
                          podVars
<1>6. CASE Pass \/ RuntimeAnswered
  BY <1>1, <1>3, <1>6 DEF Pass, ProcessContainer, BeginInjection, AskForPath, RuntimeAnswered,
                          UnchangedByLookup, ConsiderContainer, SkipSource, ExecStart, ExecSucceeds,
                          ExecFails, EndPass, cacheVars, podVars
<1>7. CASE Retrier \/ Sweeper
  BY <1>1, <1>2, <1>7 DEF Retrier, RetrierStart, RetrierVisit, RetrierEnd, Sweeper, SweepList,
                          SweepPods, SweepProcessed, SweepRetries, cacheVars, podVars
<1>8. QED
  BY <1>4, <1>5, <1>6, <1>7 DEF Next

BudgetVars == <<mapVars, passes, tried, source, elapsed, Here>>

LEMMA BudgetFrame ==
    ASSUME BudgetInv, UNCHANGED BudgetVars
    PROVE  BudgetInv'
BY DEF BudgetInv, BudgetVars, mapVars, NoEntryNoWait, PassesCounted, BeforeFirstCommand,
       PassBudget, Uncounted

\* Between two containers, the budget does not depend on where the pass is.
LEMMA BudgetBetween ==
    ASSUME BudgetInv, UNCHANGED <<mapVars, passes>>, elapsed = -1, elapsed' = -1, source' = 0
    PROVE  BudgetInv'
<1>1. \A c \in Container : Uncounted(c) = 0 /\ Uncounted(c)' = 0
  BY DEF Uncounted
<1>2. PassesCounted'
  BY <1>1 DEF BudgetInv, PassesCounted, mapVars
<1>3. QED
  BY <1>2 DEF BudgetInv, mapVars, NoEntryNoWait, BeforeFirstCommand, PassBudget

LEMMA UncountedType == \A c : Uncounted(c) \in 0..1
BY DEF Uncounted

LEMMA BudgetHandler == BudgetInv /\ TypeInv /\ Handler => BudgetInv'
<1> SUFFICES ASSUME BudgetInv, TypeInv, Handler PROVE BudgetInv'
  OBVIOUS
<1>1. CASE HandleUpsert
  <2>1. source = 0 /\ elapsed = -1
    BY <1>1 DEF HandleUpsert, TypeInv, PassOK
  <2>2. UNCHANGED <<mapVars, passes, source, elapsed>>
    BY <1>1 DEF HandleUpsert, BeginPass, cacheVars
  <2>3. QED
    BY <2>1, <2>2, BudgetBetween
<1>2. CASE HandleDelete
  BY <1>2, BudgetFrame DEF HandleDelete, BudgetVars, passVars, Here
<1>3. CASE CleanupContainer
  <2>1. PICK c \in cleanup : /\ ForgetProcessed({c}) /\ ForgetRetries({c}) /\ ForgetPasses({c})
    BY <1>3 DEF CleanupContainer
  <2>2. UNCHANGED passVars /\ Here' = Here
    BY <1>3 DEF CleanupContainer, passVars, Here
  <2>3. /\ processed' = processed \ {c}
        /\ \A d \in Container : /\ attempts'[d] = IF d = c THEN 0 ELSE attempts[d]
                                /\ left'[d] = IF d = c THEN 0 ELSE left[d]
                                /\ passes'[d] = IF d = c THEN 0 ELSE passes[d]
    BY <2>1 DEF ForgetProcessed, ForgetRetries, ForgetPasses
  <2>4. NoEntryNoWait' /\ PassBudget'
    BY <2>3 DEF BudgetInv, NoEntryNoWait, PassBudget
  <2>5. PassesCounted'
    <3> SUFFICES ASSUME NEW d \in Container, d \notin processed'
                 PROVE  passes'[d] <= attempts'[d] + Uncounted(d)'
      BY DEF PassesCounted
    <3>1. CASE d = c
      BY <2>3, <3>1 DEF Uncounted
    <3>2. CASE d # c
      <4>1. Uncounted(d)' = Uncounted(d)
        BY <2>2, <2>3, <3>2 DEF Uncounted, passVars
      <4>2. QED
        BY <2>3, <3>2, <4>1 DEF BudgetInv, PassesCounted
    <3>3. QED
      BY <3>1, <3>2
  <2>6. BeforeFirstCommand'
    <3>1. source > 0 => Here \in Container
      BY HereType
    <3>2. QED
      BY <2>2, <2>3, <3>1 DEF BudgetInv, BeforeFirstCommand, passVars
  <2>7. QED
    BY <2>4, <2>5, <2>6 DEF BudgetInv
<1>4. QED
  BY <1>1, <1>2, <1>3 DEF Handler

LEMMA BudgetRetrier == BudgetInv /\ TypeInv /\ Retrier => BudgetInv'
<1> SUFFICES ASSUME BudgetInv, TypeInv, Retrier PROVE BudgetInv'
  OBVIOUS
<1>1. CASE RetrierStart \/ RetrierEnd
  BY <1>1, BudgetFrame
  DEF RetrierStart, RetrierEnd, BudgetVars, cacheVars, passVars, Here
<1>2. ASSUME NEW p \in Pods, RetrierVisit(p) PROVE BudgetInv'
  <2>1. source = 0 /\ elapsed = -1
    BY <1>2 DEF RetrierVisit, TypeInv, PassOK
  <2>2. UNCHANGED <<mapVars, passes, source, elapsed>>
    BY <1>2 DEF RetrierVisit, BeginPass, passVars, cacheVars
  <2>3. QED
    BY <2>1, <2>2, BudgetBetween
<1>3. QED
  BY <1>1, <1>2 DEF Retrier

LEMMA BudgetSweeper == BudgetInv /\ TypeInv /\ Sweeper => BudgetInv'
<1> SUFFICES ASSUME BudgetInv, TypeInv, Sweeper PROVE BudgetInv'
  OBVIOUS
<1>0. /\ attempts \in [Container -> 0..(MaxAttempts - 1)] /\ passes \in [Container -> Nat]
      /\ left \in [Container -> 0..MaxDelay]
      /\ source > 0 => Here \in Container
  BY HereType DEF TypeInv, TypeOK
<1>1. CASE SweepList \/ SweepPods
  BY <1>1, BudgetFrame DEF SweepList, SweepPods, BudgetVars, cacheVars, passVars, Here
<1>2. CASE SweepProcessed
  <2>1. /\ UNCHANGED <<attempts, left, passVars>> /\ Here' = Here
        /\ processed' = processed \ (Container \ liveIds)
        /\ \A d \in Container :
              passes'[d] = IF d \in processed \ liveIds THEN 0 ELSE passes[d]
    BY <1>2 DEF SweepProcessed, ForgetProcessed, ForgetPasses, passVars, Here
  <2>2. NoEntryNoWait' /\ PassBudget' /\ BeforeFirstCommand'
    BY <1>0, <2>1 DEF BudgetInv, NoEntryNoWait, PassBudget, BeforeFirstCommand, passVars
  <2>3. PassesCounted'
    <3> SUFFICES ASSUME NEW d \in Container, d \notin processed'
                 PROVE  passes'[d] <= attempts'[d] + Uncounted(d)'
      BY DEF PassesCounted
    <3>1. Uncounted(d)' = Uncounted(d)
      BY <2>1 DEF Uncounted, passVars
    <3>2. CASE d \in processed \ liveIds
      BY <1>0, <2>1, <3>1, <3>2, UncountedType
    <3>3. CASE d \notin processed
      BY <2>1, <3>1, <3>3 DEF BudgetInv, PassesCounted
    <3>4. QED
      BY <2>1, <3>2, <3>3
  <2>4. QED
    BY <2>2, <2>3 DEF BudgetInv
<1>3. CASE SweepRetries
  <2>1. /\ UNCHANGED <<processed, passVars>> /\ Here' = Here
        /\ \A d \in Container :
              /\ attempts'[d] = IF d \notin liveIds THEN 0 ELSE attempts[d]
              /\ left'[d] = IF d \notin liveIds THEN 0 ELSE left[d]
              /\ passes'[d] = IF d \notin liveIds /\ attempts[d] > 0 THEN 0 ELSE passes[d]
    BY <1>3 DEF SweepRetries, ForgetRetries, ForgetPasses, passVars, Here
  <2>2. NoEntryNoWait' /\ PassBudget' /\ BeforeFirstCommand'
    BY <1>0, <2>1 DEF BudgetInv, NoEntryNoWait, PassBudget, BeforeFirstCommand, passVars
  <2>3. PassesCounted'
    <3> SUFFICES ASSUME NEW d \in Container, d \notin processed
                 PROVE  passes'[d] <= attempts'[d] + Uncounted(d)'
      BY <2>1 DEF PassesCounted
    <3>1. CASE d \notin liveIds /\ attempts[d] > 0
      <4>1. Uncounted(d)' \in 0..1
        BY DEF Uncounted
      <4>2. QED
        BY <2>1, <3>1, <4>1
    <3>2. CASE ~(d \notin liveIds /\ attempts[d] > 0)
      <4>1. attempts'[d] = attempts[d] /\ left'[d] = left[d] /\ passes'[d] = passes[d]
        BY <1>0, <2>1, <3>2 DEF BudgetInv, NoEntryNoWait
      <4>2. Uncounted(d)' = Uncounted(d)
        BY <2>1, <4>1 DEF Uncounted, passVars
      <4>3. QED
        BY <4>1, <4>2 DEF BudgetInv, PassesCounted
    <3>3. QED
      BY <3>1, <3>2
  <2>4. QED
    BY <2>2, <2>3 DEF BudgetInv
<1>4. QED
  BY <1>1, <1>2, <1>3 DEF Sweeper

LEMMA BudgetTick == BudgetInv /\ TypeInv /\ Tick => BudgetInv'
<1> SUFFICES ASSUME BudgetInv, TypeInv, Tick PROVE BudgetInv'
  OBVIOUS
<1>1. /\ attempts \in [Container -> 0..(MaxAttempts - 1)] /\ passes \in [Container -> Nat]
      /\ left \in [Container -> 0..MaxDelay] /\ elapsed \in -1..ExecTimeout
      /\ source > 0 => Here \in Container
  BY HereType DEF TypeInv, TypeOK
<1>2. /\ UNCHANGED <<processed, attempts, passes, cur, infos, slot, source, tried>>
      /\ Here' = Here /\ (elapsed' = -1 <=> elapsed = -1)
      /\ \A d \in Container : left'[d] = IF left[d] > 0 THEN left[d] - 1 ELSE 0
  BY <1>1 DEF Tick, Here
<1>3. NoEntryNoWait' /\ PassBudget' /\ BeforeFirstCommand'
  BY <1>1, <1>2 DEF BudgetInv, NoEntryNoWait, PassBudget, BeforeFirstCommand
<1>4. PassesCounted'
  <2> SUFFICES ASSUME NEW d \in Container, d \notin processed
               PROVE  passes[d] <= attempts[d] + Uncounted(d)'
    BY <1>2 DEF PassesCounted
  <2>1. Uncounted(d) <= Uncounted(d)'
    BY <1>1, <1>2 DEF Uncounted
  <2>2. Uncounted(d) \in 0..1 /\ Uncounted(d)' \in 0..1
    BY DEF Uncounted
  <2>3. passes[d] <= attempts[d] + Uncounted(d)
    BY DEF BudgetInv, PassesCounted
  <2>4. QED
    BY <1>1, <2>1, <2>2, <2>3
<1>5. QED
  BY <1>3, <1>4 DEF BudgetInv

\* A command starts: the first one of a pass uses up one attempt.
LEMMA BudgetStart == BudgetInv /\ TypeInv /\ ExecStart => BudgetInv'
<1> SUFFICES ASSUME BudgetInv, TypeInv, ExecStart PROVE BudgetInv'
  OBVIOUS
<1>1. /\ attempts \in [Container -> 0..(MaxAttempts - 1)] /\ passes \in [Container -> Nat]
      /\ left \in [Container -> 0..MaxDelay]
      /\ Here \in Container /\ source > 0 /\ elapsed = -1
  BY HereType DEF TypeInv, TypeOK, ExecStart
<1>2. /\ UNCHANGED <<mapVars, source>> /\ Here' = Here /\ elapsed' = 0 /\ tried' = TRUE
      /\ passes' = [passes EXCEPT ![Here] = IF tried THEN @ ELSE @ + 1]
  BY DEF ExecStart, Here, cacheVars
<1>3. ~tried => left[Here] = 0 /\ Here \notin processed
  BY <1>1 DEF BudgetInv, BeforeFirstCommand
<1>4. \A d \in Container : d \notin processed => passes[d] <= attempts[d]
  BY <1>1 DEF BudgetInv, PassesCounted, Uncounted
<1>5. PassesCounted'
  <2> SUFFICES ASSUME NEW d \in Container, d \notin processed
               PROVE  passes'[d] <= attempts[d] + Uncounted(d)'
    BY <1>2 DEF PassesCounted, mapVars
  <2>1. Uncounted(d)' \in 0..1 /\ (d = Here /\ left[d] = 0 => Uncounted(d)' = 1)
    BY <1>1, <1>2 DEF Uncounted, mapVars
  <2>2. passes[d] <= attempts[d]
    BY <1>4
  <2>3. CASE d = Here /\ ~tried
    <3>1. passes'[d] = passes[d] + 1 /\ Uncounted(d)' = 1
      BY <1>1, <1>2, <1>3, <2>1, <2>3
    <3>2. QED
      BY <1>1, <2>2, <3>1
  <2>4. CASE d # Here \/ tried
    <3>1. passes'[d] = passes[d]
      BY <1>1, <1>2, <2>4
    <3>2. QED
      BY <1>1, <2>1, <2>2, <3>1
  <2>5. QED
    BY <2>3, <2>4
<1>6. PassBudget'
  <2> SUFFICES ASSUME NEW d \in Container PROVE passes'[d] <= MaxAttempts
    BY DEF PassBudget
  <2>1. CASE d = Here /\ ~tried
    <3>1. passes[d] <= attempts[d] /\ attempts[d] <= MaxAttempts - 1
      BY <1>1, <1>3, <1>4, <2>1
    <3>2. passes'[d] = passes[d] + 1
      BY <1>1, <1>2, <2>1
    <3>3. QED
      BY <1>1, <3>1, <3>2
  <2>2. CASE d # Here \/ tried
    BY <1>1, <1>2, <2>2 DEF BudgetInv, PassBudget
  <2>3. QED
    BY <2>1, <2>2
<1>7. NoEntryNoWait' /\ BeforeFirstCommand'
  BY <1>2 DEF BudgetInv, NoEntryNoWait, BeforeFirstCommand, mapVars
<1>8. QED
  BY <1>5, <1>6, <1>7 DEF BudgetInv

\* A command fails: an attempt that was due is counted now.
LEMMA BudgetFails == BudgetInv /\ TypeInv /\ ExecFails => BudgetInv'
<1> SUFFICES ASSUME BudgetInv, TypeInv, ExecFails PROVE BudgetInv'
  OBVIOUS
<1>1. /\ attempts \in [Container -> 0..(MaxAttempts - 1)] /\ passes \in [Container -> Nat]
      /\ left \in [Container -> 0..MaxDelay]
      /\ Here \in Container /\ source > 0 /\ elapsed # -1
  BY HereType DEF TypeInv, TypeOK, ExecFails
<1>2. /\ UNCHANGED <<passes, tried>> /\ elapsed' = -1 /\ tried
      /\ RecordInjectionFailure(Here)
  BY <1>1 DEF ExecFails, BudgetInv, BeforeFirstCommand
<1>3. PassBudget' /\ BeforeFirstCommand'
  BY <1>2 DEF BudgetInv, PassBudget, BeforeFirstCommand
<1>4. ASSUME NEW d \in Container
      PROVE  /\ d \notin processed => passes[d] <= attempts[d] + Uncounted(d)
             /\ Uncounted(d) = IF d = Here /\ left[d] = 0 THEN 1 ELSE 0
             /\ Uncounted(d)' = 0
             /\ attempts[d] = 0 => left[d] = 0
  BY <1>1, <1>2 DEF BudgetInv, PassesCounted, NoEntryNoWait, Uncounted
<1>5. CASE left[Here] > 0
  <2>1. UNCHANGED mapVars
    BY <1>2, <1>5 DEF RecordInjectionFailure
  <2>2. PassesCounted'
    BY <1>1, <1>2, <1>4, <1>5, <2>1 DEF PassesCounted, mapVars
  <2>3. QED
    BY <1>3, <1>4, <2>1, <2>2 DEF BudgetInv, NoEntryNoWait, mapVars
<1>6. CASE left[Here] = 0 /\ GivesUp(Here)
  <2>1. /\ attempts' = [attempts EXCEPT ![Here] = 0] /\ left' = left
        /\ processed' = processed \cup {Here}
    BY <1>2, <1>6 DEF RecordInjectionFailure
  <2>2. PassesCounted'
    BY <1>1, <1>2, <1>4, <2>1 DEF PassesCounted
  <2>3. NoEntryNoWait'
    BY <1>1, <1>4, <1>6, <2>1 DEF NoEntryNoWait
  <2>4. QED
    BY <1>3, <2>2, <2>3 DEF BudgetInv
<1>7. CASE left[Here] = 0 /\ ~GivesUp(Here)
  <2>1. /\ attempts' = [attempts EXCEPT ![Here] = @ + 1] /\ processed' = processed
        /\ left' = [left EXCEPT ![Here] = InjectionRetryDelay(attempts[Here] + 1)]
    BY <1>2, <1>7 DEF RecordInjectionFailure
  <2>2. PassesCounted'
    <3> SUFFICES ASSUME NEW d \in Container, d \notin processed
                 PROVE  passes[d] <= attempts'[d]
      BY <1>1, <1>2, <1>4, <2>1 DEF PassesCounted
    <3>1. CASE d = Here
      <4>1. passes[d] <= attempts[d] + 1 /\ attempts'[d] = attempts[d] + 1
        BY <1>1, <1>4, <1>7, <2>1, <3>1
      <4>2. QED
        BY <4>1
    <3>2. CASE d # Here
      <4>1. passes[d] <= attempts[d] /\ attempts'[d] = attempts[d]
        BY <1>1, <1>4, <2>1, <3>2
      <4>2. QED
        BY <4>1
    <3>3. QED
      BY <3>1, <3>2
  <2>3. NoEntryNoWait'
    BY <1>1, <1>4, <2>1 DEF NoEntryNoWait
  <2>4. QED
    BY <1>3, <2>2, <2>3 DEF BudgetInv
<1>8. QED
  BY <1>1, <1>5, <1>6, <1>7

LEMMA BudgetLookup == BudgetInv /\ TypeInv /\ Lookup => BudgetInv'
<1> SUFFICES ASSUME BudgetInv, TypeInv, Lookup PROVE BudgetInv'
  OBVIOUS
<1>1. /\ UNCHANGED <<mapVars, passes, tried, source, elapsed, cur, infos>>
      /\ slot' = slot \/ (source = 0 /\ elapsed = -1)
  BY LookupShape DEF UnchangedByLookup, cacheVars
<1>2. CASE slot' = slot
  BY <1>1, <1>2, BudgetFrame DEF BudgetVars, Here
<1>3. CASE source = 0 /\ elapsed = -1
  BY <1>1, <1>3, BudgetBetween
<1>4. QED
  BY <1>1, <1>2, <1>3

LEMMA BudgetPass == BudgetInv /\ MarkedInv /\ TypeInv /\ Pass => BudgetInv'
<1> SUFFICES ASSUME BudgetInv, MarkedInv, TypeInv, Pass PROVE BudgetInv'
  OBVIOUS
<1>1. CASE ConsiderContainer
  <2>1. /\ UNCHANGED <<mapVars, passes>> /\ elapsed = -1 /\ elapsed' = -1
        /\ \/ Eligible /\ slot' = slot /\ UNCHANGED <<cur, infos>>
           \/ source' = 0
    BY <1>1 DEF ConsiderContainer, NextSlot, cacheVars, TypeInv, PassOK
  <2>2. CASE source' = 0
    BY <2>1, <2>2, BudgetBetween
  <2>3. CASE Eligible /\ slot' = slot /\ UNCHANGED <<cur, infos>>
    <3>1. Here' = Here
      BY <2>3, HereFrame
    <3>2. Here \in Container
      <4>1. slot \in Slots /\ cur \in Pods
        BY <1>1 DEF ConsiderContainer, TypeInv, TypeOK, Slots
      <4>2. infos[slot].inc \in 1..MaxIncarnation
        BY <2>3, <4>1 DEF Eligible, TypeInv, TypeOK, Info
      <4>3. QED
        BY <4>1, <4>2, IdType DEF Here
    <3>3. left[Here] = 0
      BY <2>3, <3>2 DEF Eligible, InjectionRetryDue, BudgetInv, NoEntryNoWait
    <3>4. Here \notin processed
      BY <1>1, <2>3 DEF ConsiderContainer, Eligible, MarkedInv, InfosMarked, Here
    <3>5. BeforeFirstCommand'
      BY <2>1, <3>1, <3>3, <3>4 DEF BeforeFirstCommand, mapVars
    <3>6. PassesCounted'
      <4>1. \A c \in Container : Uncounted(c) = 0 /\ Uncounted(c)' = 0
        BY <2>1 DEF Uncounted
      <4>2. QED
        BY <2>1, <4>1 DEF BudgetInv, PassesCounted, mapVars
    <3>7. QED
      BY <2>1, <3>5, <3>6 DEF BudgetInv, NoEntryNoWait, PassBudget, mapVars
  <2>4. QED
    BY <2>1, <2>2, <2>3
<1>2. CASE SkipSource
  <2>1. /\ UNCHANGED <<mapVars, passes, tried, cur, infos>> /\ elapsed = -1 /\ elapsed' = -1
        /\ source > 0 /\ (slot' = slot \/ source' = 0)
    BY <1>2 DEF SkipSource, NextSource, NextSlot, cacheVars
  <2>2. CASE source' = 0
    BY <2>1, <2>2, BudgetBetween
  <2>3. CASE slot' = slot
    <3>1. Here' = Here
      BY <2>1, <2>3, HereFrame
    <3>2. BeforeFirstCommand'
      BY <2>1, <3>1 DEF BudgetInv, BeforeFirstCommand, mapVars
    <3>3. PassesCounted'
      <4>1. \A c \in Container : Uncounted(c) = 0 /\ Uncounted(c)' = 0
        BY <2>1 DEF Uncounted
      <4>2. QED
        BY <2>1, <4>1 DEF BudgetInv, PassesCounted, mapVars
    <3>4. QED
      BY <2>1, <3>2, <3>3 DEF BudgetInv, NoEntryNoWait, PassBudget, mapVars
  <2>4. QED
    BY <2>1, <2>2, <2>3
<1>3. CASE ExecStart
  BY <1>3, BudgetStart
<1>4. CASE ExecSucceeds
  <2>1. /\ Here \in Container /\ MarkInjectionDone(Here) /\ UNCHANGED passes
        /\ elapsed' = -1 /\ source' = 0
        /\ attempts \in [Container -> 0..(MaxAttempts - 1)]
        /\ passes \in [Container -> Nat] /\ left \in [Container -> 0..MaxDelay]
    BY <1>4, HereType DEF ExecSucceeds, NextSlot, TypeInv, TypeOK
  <2>2. PassesCounted'
    <3> SUFFICES ASSUME NEW d \in Container, d \notin processed, d # Here
                 PROVE  passes[d] <= attempts[d]
      BY <2>1 DEF PassesCounted, Uncounted, MarkInjectionDone
    <3>1. Uncounted(d) = 0
      BY DEF Uncounted
    <3>2. QED
      BY <2>1, <3>1 DEF BudgetInv, PassesCounted
  <2>3. NoEntryNoWait' /\ BeforeFirstCommand' /\ PassBudget'
    BY <2>1 DEF BudgetInv, NoEntryNoWait, BeforeFirstCommand, PassBudget, MarkInjectionDone
  <2>4. QED
    BY <2>2, <2>3 DEF BudgetInv
<1>5. CASE ExecFails
  BY <1>5, BudgetFails
<1>6. CASE EndPass
  <2>1. source = 0 /\ elapsed = -1
    BY <1>6 DEF EndPass, TypeInv, TypeOK, PassOK
  <2>2. QED
    BY <1>6, <2>1, BudgetBetween DEF EndPass
<1>7. QED
  BY <1>1, <1>2, <1>3, <1>4, <1>5, <1>6, BudgetLookup DEF Pass, Lookup

LEMMA BudgetStep == BudgetInv /\ MarkedInv /\ TypeInv /\ [Next]_vars => BudgetInv'
<1> SUFFICES ASSUME BudgetInv, MarkedInv, TypeInv, [Next]_vars PROVE BudgetInv'
  OBVIOUS
<1>1. CASE Environment
  <2>1. UNCHANGED SystemVars
    BY <1>1 DEF Environment, PodAdded, PodTouched, PodDeleted, PodUpdated, ConfigReloaded
  <2>2. QED
    BY <2>1, BudgetFrame DEF SystemVars, BudgetVars, cacheVars, passVars, Here
<1>2. CASE UNCHANGED vars
  BY <1>2, BudgetFrame DEF vars, BudgetVars, cacheVars, passVars, Here
<1>3. QED
  BY <1>1, <1>2, BudgetLookup, BudgetHandler, BudgetPass, BudgetRetrier, BudgetSweeper,
     BudgetTick
  DEF Next, Lookup

\* The inductive invariant: types, marks and budget, together.
THEOREM InductiveInvariance == Spec => []IInv
<1>1. Init => IInv
  BY InitType, IInvInit DEF IInv
<1>2. IInv /\ [Next]_vars => IInv'
  BY TypeStep, EvictedStep, MarkedStep, BudgetStep DEF IInv
<1>3. QED
  BY <1>1, <1>2, PTL DEF Spec

\* However events, retries and failures counted twice interleave, and however many
\* containers and sources there are, injectionMaxAttempts bounds the passes that run a
\* command in a container between two moments at which it is forgotten.
THEOREM PassBudgetHolds == Spec => []PassBudget
<1>1. IInv => PassBudget
  BY DEF IInv, BudgetInv
<1>2. QED
  BY InductiveInvariance, <1>1, PTL

\* Between passes, ExecProcessed in podsMap never lags behind processedContainers.
THEOREM ProcessedIsMarkedHolds == Spec => []ProcessedIsMarked
<1>1. IInv => ProcessedIsMarked
  BY DEF IInv, MarkedInv
<1>2. QED
  BY InductiveInvariance, <1>1, PTL

\* No command is started in a container whose command has succeeded, as long as that is
\* remembered: neither by the handler nor by the retrier, with or without the sweeper.
THEOREM NoReinjectionHolds == Spec => NoReinjection
<1>1. IInv /\ [Next]_vars => [elapsed = -1 /\ elapsed' # -1 => Here \notin injected]_vars
  <2> SUFFICES ASSUME IInv, Next, elapsed = -1, elapsed' # -1
               PROVE  Here \notin injected
    BY DEF vars, passVars
  <2>1. ExecStart
    <3>1. ~(Environment \/ Handler)
      BY DEF Environment, PodAdded, PodTouched, PodDeleted, PodUpdated, ConfigReloaded,
             SystemVars, Handler, HandleUpsert, HandleDelete, CleanupContainer, BeginPass,
             passVars
    <3>2. ~(Retrier \/ Sweeper \/ Tick)
      BY DEF Retrier, RetrierStart, RetrierVisit, RetrierEnd, Sweeper, SweepList, SweepPods,
             SweepProcessed, SweepRetries, Tick, BeginPass, passVars
    <3>3. ~Lookup
      BY DEF Lookup, ProcessContainer, BeginInjection, AskForPath, RuntimeAnswered,
             UnchangedByLookup
    <3>4. Pass
      BY <3>1, <3>2, <3>3 DEF Next, Lookup
    <3>5. QED
      BY <3>3, <3>4 DEF Pass, Lookup, ConsiderContainer, SkipSource, ExecSucceeds, ExecFails, EndPass
  <2>2. source > 0
    BY <2>1 DEF ExecStart
  <2>3. QED
    BY <2>2 DEF IInv, MarkedInv, InjectedIsProcessed
<1>2. QED
  BY InductiveInvariance, <1>1, PTL DEF Spec, NoReinjection

-----------------------------------------------------------------------------
(***************************************************************************)
(* The cache and the informer's store, without the sweeper.  The last      *)
(* notification of a pod that is not a deletion carries what the store has;*)
(* a deletion is the last of its pod.  So once no such notification is     *)
(* pending the cache, or the handler's pass, has what the store has, and   *)
(* once the deletion is handled it has nothing.                            *)
(***************************************************************************)

Upserts(p) == {k \in 1..Len(queue) : queue[k].pod = p /\ ~queue[k].gone}
Deletes(p) == {k \in 1..Len(queue) : queue[k].pod = p /\ queue[k].gone}

LastIsStored(p) == \A k \in Upserts(p) :
    (\A j \in Upserts(p) : j <= k) => queue[k].slots = store[p]
DeleteIsLast(p) == \A k \in Deletes(p) :
    life[p] = "deleted" /\ \A j \in 1..Len(queue) : queue[j].pod = p => j <= k
QueueInv == \A p \in Pods : LastIsStored(p) /\ DeleteIsLast(p)

Agrees(si, ss) ==
    \A i \in Slots : si[i].inc = ss[i].inc /\ si[i].running = ss[i].running
InHand(p) == cur = p /\ lock = "informer"
Viewed(p) == /\ p \in cached \/ InHand(p)
             /\ Agrees(IF InHand(p) THEN infos ELSE podsMap[p], store[p])
Expected(p) == life[p] = "live" \/ Deletes(p) # {}
UpToDate == \A p \in Pods : (Expected(p) /\ Upserts(p) = {}) => Viewed(p)

Gone(p) == life[p] = "deleted" /\ Deletes(p) = {}
Forgotten(p) ==
    /\ Upserts(p) = {} /\ p \notin cached /\ cur # p
    /\ \A c \in IdsOf(p, store[p]) \ cleanup : c \notin processed /\ attempts[c] = 0
GoneIsForgotten == \A p \in Pods : Gone(p) => Forgotten(p)
CleansGone == \A c \in cleanup : Gone(c[1])

\* What a pass of the retrier has in hand is what the cache has, but for the marks.
RetriesCached == (lock = "retrier" /\ cur # NoPod) =>
                     cur \in cached /\ Agrees(infos, podsMap[cur])

\* Whatever is marked is processed, in the cache and in the pass.
IsMarked(p, si) == \A i \in ApmSlots :
    (si[i].done /\ si[i].inc # 0) => Id(p, i, si[i]) \in processed
MarksStored == /\ \A p \in cached : IsMarked(p, podsMap[p])
               /\ cur # NoPod => IsMarked(cur, infos)

StoreInv == /\ QueueInv /\ phase = "idle" /\ UpToDate /\ GoneIsForgotten /\ CleansGone
            /\ RetriesCached /\ MarksStored

\* A notification about q is the last of the queue.
LEMMA QueueGrows ==
    ASSUME TypeInv, NEW q \in Pods, NEW gone \in BOOLEAN, NEW ss, Notify(q, gone, ss)
    PROVE  /\ Len(queue) \in Nat /\ Len(queue') = Len(queue) + 1
           /\ \A k \in 1..Len(queue) : queue'[k] = queue[k]
           /\ queue'[Len(queue) + 1] = [gone |-> gone, pod |-> q, slots |-> ss]
           /\ \A p \in Pods :
                /\ Upserts(p)' = Upserts(p) \cup (IF p = q /\ ~gone THEN {Len(queue) + 1} ELSE {})
                /\ Deletes(p)' = Deletes(p) \cup (IF p = q /\ gone THEN {Len(queue) + 1} ELSE {})
<1> DEFINE n == Len(queue)
           note == [gone |-> gone, pod |-> q, slots |-> ss]
<1>1. queue \in Seq(Notification) BY DEF TypeInv, TypeOK, Notification
<1>2. queue' = Append(queue, note) BY DEF Notify
<1>3. /\ n \in Nat /\ Len(queue') = n + 1 /\ queue'[n + 1] = note
      /\ \A k \in 1..n : queue'[k] = queue[k]
  BY <1>1, <1>2
<1>4. note.gone = gone /\ note.pod = q OBVIOUS
<1> HIDE DEF n, note
<1>5. \A k : k \in 1..(n + 1) <=> (k \in 1..n \/ k = n + 1) BY <1>3
<1>6. ASSUME NEW p \in Pods
      PROVE  /\ Upserts(p)' = {k \in 1..n : queue[k].pod = p /\ ~queue[k].gone}
                                \cup (IF p = q /\ ~gone THEN {n + 1} ELSE {})
             /\ Deletes(p)' = {k \in 1..n : queue[k].pod = p /\ queue[k].gone}
                                \cup (IF p = q /\ gone THEN {n + 1} ELSE {})
  BY <1>3, <1>4, <1>5 DEF Upserts, Deletes
<1>7. QED BY <1>3, <1>6 DEF n, note, Upserts, Deletes

\* A notification that is handled was the first of the queue.
LEMMA QueueShrinks ==
    ASSUME TypeInv, queue # <<>>, queue' = Tail(queue)
    PROVE  /\ 1 \in 1..Len(queue) /\ queue[1] = Head(queue) /\ Head(queue) \in Notification
           /\ \A k \in 1..Len(queue') : k + 1 \in 1..Len(queue) /\ queue'[k] = queue[k + 1]
           /\ \A k \in 1..Len(queue) : k = 1 \/ k - 1 \in 1..Len(queue')
           /\ \A p \in Pods :
                /\ Upserts(p)' = {k - 1 : k \in Upserts(p) \ {1}}
                /\ Deletes(p)' = {k - 1 : k \in Deletes(p) \ {1}}
<1> DEFINE n == Len(queue)
           m == Len(queue')
<1>1. queue \in Seq(Notification) BY DEF TypeInv, TypeOK, Notification
<1>2. /\ n \in Nat \ {0} /\ m = n - 1 /\ queue[1] = Head(queue)
      /\ \A k \in 1..m : queue'[k] = queue[k + 1]
  BY <1>1
<1>3. Head(queue) \in Notification BY <1>1
<1> HIDE DEF n, m
<1>4. /\ 1 \in 1..n /\ \A k \in 1..m : k + 1 \in 1..n /\ queue'[k] = queue[k + 1]
      /\ \A k \in 1..n : k = 1 \/ (k - 1 \in 1..m /\ queue'[k - 1] = queue[k])
      /\ \A k \in 1..m : k + 1 # 1 /\ (k + 1) - 1 = k
  <2>1. 1 \in 1..n BY <1>2
  <2>2. \A k \in 1..m : k + 1 \in 1..n /\ k + 1 # 1 /\ (k + 1) - 1 = k BY <1>2
  <2>3. \A k \in 1..n : k = 1 \/ (k - 1 \in 1..m /\ (k - 1) + 1 = k) BY <1>2
  <2>4. \A k \in 1..n : k = 1 \/ (k - 1 \in 1..m /\ queue'[k - 1] = queue[k])
    <3> SUFFICES ASSUME NEW k \in 1..n, k # 1
                 PROVE  k - 1 \in 1..m /\ queue'[k - 1] = queue[k]
      OBVIOUS
    <3>1. k - 1 \in 1..m /\ (k - 1) + 1 = k BY <2>3
    <3> DEFINE j == k - 1
    <3>2. j \in 1..m /\ j + 1 = k BY <3>1
    <3> HIDE DEF j
    <3>3. queue'[j] = queue[k] BY <1>2, <3>2
    <3>4. QED BY <3>2, <3>3 DEF j
  <2>5. QED BY <1>2, <2>1, <2>2, <2>4
<1>5. ASSUME NEW p \in Pods
      PROVE  /\ Upserts(p)' = {k - 1 : k \in Upserts(p) \ {1}}
             /\ Deletes(p)' = {k - 1 : k \in Deletes(p) \ {1}}
  <2>1. /\ Upserts(p)' = {k \in 1..m : queue'[k].pod = p /\ ~queue'[k].gone}
        /\ Deletes(p)' = {k \in 1..m : queue'[k].pod = p /\ queue'[k].gone}
    BY DEF Upserts, Deletes, m
  <2>2. /\ Upserts(p) = {k \in 1..n : queue[k].pod = p /\ ~queue[k].gone}
        /\ Deletes(p) = {k \in 1..n : queue[k].pod = p /\ queue[k].gone}
    BY DEF Upserts, Deletes, n
  <2>3. \A k : k \in Upserts(p)' <=> (k \in 1..m /\ k + 1 \in Upserts(p) \ {1})
    BY <1>4, <2>1, <2>2
  <2>4. \A k : k \in Deletes(p)' <=> (k \in 1..m /\ k + 1 \in Deletes(p) \ {1})
    BY <1>4, <2>1, <2>2
  <2>5. \A k \in (Upserts(p) \cup Deletes(p)) \ {1} : k - 1 \in 1..m /\ (k - 1) + 1 = k
    BY <1>2, <1>4, <2>2
  <2>6. \A k \in 1..m : (k + 1) - 1 = k BY <1>4
  <2>7. Upserts(p)' = {k - 1 : k \in Upserts(p) \ {1}}
    <3>1. \A x : x \in Upserts(p)' => x \in {k - 1 : k \in Upserts(p) \ {1}}
      BY <2>3, <2>6
    <3>2. \A k \in Upserts(p) \ {1} : k - 1 \in Upserts(p)' BY <2>3, <2>5
    <3>3. QED BY <3>1, <3>2
  <2>8. Deletes(p)' = {k - 1 : k \in Deletes(p) \ {1}}
    <3>1. \A x : x \in Deletes(p)' => x \in {k - 1 : k \in Deletes(p) \ {1}}
      BY <2>4, <2>6
    <3>2. \A k \in Deletes(p) \ {1} : k - 1 \in Deletes(p)' BY <2>4, <2>5
    <3>3. QED BY <3>1, <3>2
  <2>9. QED BY <2>7, <2>8
<1>6. QED BY <1>2, <1>3, <1>4, <1>5 DEF n, m

\* What a step of the environment tells of one pod, and leaves alone of the others.
Told(q, gone, ss) ==
    /\ Notify(q, gone, ss) /\ life[q] # "deleted"
    /\ life' = [life EXCEPT ![q] = IF gone THEN "deleted" ELSE "live"]
    /\ store' = [store EXCEPT ![q] = ss]
    /\ gone => life[q] = "live" /\ ss = store[q]

LEMMA EnvironmentShape ==
    ASSUME TypeInv, Environment
    PROVE  /\ UNCHANGED SystemVars
           /\ \/ UNCHANGED <<storeVars, queue>>
              \/ \E q \in Pods, gone \in BOOLEAN : \E ss : Told(q, gone, ss)
<1>1. UNCHANGED SystemVars
  BY DEF Environment, PodAdded, PodTouched, PodDeleted, PodUpdated, ConfigReloaded
<1>2. /\ life \in [Pods -> Kinds] /\ store \in [Pods -> [Slots -> Status]]
  BY DEF TypeInv, TypeOK
<1>3. ASSUME NEW q \in Pods, life[q] = "live" PROVE life = [life EXCEPT ![q] = "live"]
  BY <1>2, <1>3
<1>4. ASSUME NEW q \in Pods PROVE store = [store EXCEPT ![q] = store[q]]
  BY <1>2
<1>5. ASSUME NEW q \in Pods, PodAdded(q) PROVE \E ss : Told(q, FALSE, ss)
  BY <1>5 DEF PodAdded, Told
<1>6. ASSUME NEW q \in Pods, PodTouched(q) PROVE \E ss : Told(q, FALSE, ss)
  <2>1. Told(q, FALSE, store[q])
    BY <1>3, <1>4, <1>6, Zenon DEF PodTouched, Told, storeVars
  <2>2. QED BY <2>1
<1>7. ASSUME NEW q \in Pods, PodDeleted(q) PROVE \E ss : Told(q, TRUE, ss)
  <2>1. Told(q, TRUE, store[q]) BY <1>4, <1>7 DEF PodDeleted, Told
  <2>2. QED BY <2>1
<1>8. ASSUME NEW q \in Pods, NEW i \in Slots, PodUpdated(q, i)
      PROVE  \E ss : Told(q, FALSE, ss)
  <2>1. life[q] = "live" /\ life' = life BY <1>8 DEF PodUpdated
  <2>2. PICK ss : store' = [store EXCEPT ![q] = ss] /\ Notify(q, FALSE, ss)
    BY <1>8 DEF PodUpdated
  <2>3. Told(q, FALSE, ss) BY <1>3, <2>1, <2>2 DEF Told
  <2>4. QED BY <2>3
<1>9. CASE ConfigReloaded BY <1>1, <1>9 DEF ConfigReloaded
<1>10. QED BY <1>1, <1>5, <1>6, <1>7, <1>8, <1>9 DEF Environment

\* Of the pods it tells nothing about, a step of the environment changes nothing.
LEMMA ToldOthers ==
    ASSUME TypeInv, NEW q \in Pods, NEW gone \in BOOLEAN, NEW ss, Told(q, gone, ss),
           NEW p \in Pods \ {q}
    PROVE  /\ UNCHANGED <<life[p], store[p]>>
           /\ Upserts(p)' = Upserts(p) /\ Deletes(p)' = Deletes(p)
<1>1. UNCHANGED <<life[p], store[p]>> BY DEF Told, TypeInv, TypeOK
<1>2. Notify(q, gone, ss) BY DEF Told
<1>3. /\ Upserts(p)' = Upserts(p) \cup (IF p = q /\ ~gone THEN {Len(queue) + 1} ELSE {})
      /\ Deletes(p)' = Deletes(p) \cup (IF p = q /\ gone THEN {Len(queue) + 1} ELSE {})
  BY <1>2, QueueGrows
<1>4. QED BY <1>1, <1>3

LEMMA QueueTold ==
    ASSUME TypeInv, QueueInv, NEW q \in Pods, NEW gone \in BOOLEAN, NEW ss, Told(q, gone, ss)
    PROVE  QueueInv'
<1> DEFINE n == Len(queue)
<1>1. /\ n \in Nat /\ Len(queue') = n + 1 /\ \A k \in 1..n : queue'[k] = queue[k]
      /\ queue'[n + 1] = [gone |-> gone, pod |-> q, slots |-> ss]
      /\ \A p \in Pods :
           /\ Upserts(p)' = Upserts(p) \cup (IF p = q /\ ~gone THEN {n + 1} ELSE {})
           /\ Deletes(p)' = Deletes(p) \cup (IF p = q /\ gone THEN {n + 1} ELSE {})
  BY QueueGrows DEF Told
<1>2. \A p \in Pods : Upserts(p) \subseteq 1..n /\ Deletes(p) \subseteq 1..n
  BY DEF Upserts, Deletes
<1>3. queue'[n + 1].slots = ss /\ queue'[n + 1].pod = q BY <1>1
<1> HIDE DEF n
<1>4. \A k \in 1..n : k <= n + 1 /\ ~(n + 1 <= k) BY <1>1
<1>5. 1..(n + 1) = 1..n \cup {n + 1} /\ n + 1 <= n + 1 BY <1>1
<1>6. ASSUME NEW p \in Pods, p # q PROVE LastIsStored(p)' /\ DeleteIsLast(p)'
  <2>1. /\ UNCHANGED <<life[p], store[p]>>
        /\ Upserts(p)' = Upserts(p) /\ Deletes(p)' = Deletes(p)
    BY <1>6, ToldOthers
  <2>2. LastIsStored(p)' BY <1>1, <1>2, <2>1 DEF QueueInv, LastIsStored
  <2>3. DeleteIsLast(p)'
    BY <1>1, <1>2, <1>3, <1>5, <1>6, <2>1 DEF QueueInv, DeleteIsLast, n
  <2>4. QED BY <2>2, <2>3
<1>7. LastIsStored(q)'
  <2>1. store'[q] = ss BY DEF Told, TypeInv, TypeOK
  <2>2. CASE gone
    BY <1>1, <1>2, <2>1, <2>2 DEF QueueInv, LastIsStored, Told
  <2>3. CASE ~gone
    <3>1. n + 1 \in Upserts(q)' BY <1>1, <2>3
    <3>2. \A k \in Upserts(q)' : (n + 1 <= k) => k = n + 1
      BY <1>1, <1>2, <1>4, <2>3
    <3>3. QED BY <1>3, <2>1, <3>1, <3>2 DEF LastIsStored
  <2>4. QED BY <2>2, <2>3
<1>8. DeleteIsLast(q)'
  <2>1. Deletes(q) = {} BY DEF Told, QueueInv, DeleteIsLast
  <2>2. life'[q] = IF gone THEN "deleted" ELSE "live" BY DEF Told, TypeInv, TypeOK
  <2>3. QED BY <1>1, <1>4, <1>5, <2>1, <2>2 DEF DeleteIsLast, n
<1>9. QED BY <1>6, <1>7, <1>8 DEF QueueInv

LEMMA StoreTold ==
    ASSUME TypeInv, StoreInv, NEW q \in Pods, NEW gone \in BOOLEAN, NEW ss,
           Told(q, gone, ss), UNCHANGED SystemVars
    PROVE  StoreInv'
<1>1. QueueInv' BY QueueTold DEF StoreInv
<1>2. /\ UNCHANGED <<cached, podsMap, processed, attempts, lock, cur, infos, cleanup, phase>>
  BY DEF SystemVars, cacheVars, podVars, mapVars, passVars, sweepVars
<1>3. /\ life'[q] = (IF gone THEN "deleted" ELSE "live") /\ store'[q] = ss
      /\ life[q] # "deleted" /\ (gone => life[q] = "live" /\ ss = store[q])
  BY DEF Told, TypeInv, TypeOK
<1>4. /\ gone  => Upserts(q)' = Upserts(q) /\ Deletes(q)' # {}
      /\ ~gone => Upserts(q)' # {}
  <2>1. Notify(q, gone, ss) BY DEF Told
  <2>2. /\ Upserts(q)' = Upserts(q) \cup (IF q = q /\ ~gone THEN {Len(queue) + 1} ELSE {})
        /\ Deletes(q)' = Deletes(q) \cup (IF q = q /\ gone THEN {Len(queue) + 1} ELSE {})
    BY <2>1, QueueGrows
  <2>3. QED BY <2>2
<1>5. ASSUME NEW p \in Pods \ {q}
      PROVE  /\ UNCHANGED <<life[p], store[p]>>
             /\ Upserts(p)' = Upserts(p) /\ Deletes(p)' = Deletes(p)
  BY ToldOthers
<1>6. UpToDate'
  <2>1. ASSUME NEW p \in Pods, Expected(p)', Upserts(p)' = {} PROVE Viewed(p)'
    <3>1. CASE p = q
      <4>1. gone /\ Expected(q) /\ Upserts(q) = {} /\ store'[q] = store[q]
        BY <1>3, <1>4, <2>1, <3>1 DEF Expected
      <4>2. QED BY <1>2, <3>1, <4>1 DEF StoreInv, UpToDate, Viewed, InHand
    <3>2. CASE p # q
      BY <1>2, <1>5, <2>1, <3>2 DEF StoreInv, UpToDate, Viewed, InHand, Expected
    <3>3. QED BY <3>1, <3>2
  <2>2. QED BY <2>1 DEF UpToDate
<1>7. \A p \in Pods : Gone(p)' => p # q BY <1>3, <1>4 DEF Gone
<1>8. GoneIsForgotten'
  BY <1>2, <1>5, <1>7 DEF StoreInv, GoneIsForgotten, Gone, Forgotten, IdsOf
<1>9. CleansGone'
  <2>1. \A c \in cleanup : c[1] \in Pods BY DEF TypeInv, TypeOK, Container
  <2>2. \A p \in Pods : Gone(p) => p # q BY <1>3 DEF Gone
  <2>3. QED BY <1>2, <1>5, <2>1, <2>2 DEF StoreInv, CleansGone, Gone
<1>10. RetriesCached' /\ MarksStored' /\ phase' = "idle"
  BY <1>2 DEF StoreInv, RetriesCached, MarksStored, IsMarked
<1>11. QED BY <1>1, <1>6, <1>8, <1>9, <1>10 DEF StoreInv

\* A step that leaves the store, the notifications and what is remembered of them alone.
LEMMA StoreFrame ==
    ASSUME StoreInv,
           UNCHANGED <<storeVars, queue, phase, podVars, processed, attempts, cleanup>>,
           UNCHANGED <<cur, infos>>, lock' = lock \/ cur = NoPod
    PROVE  StoreInv'
<1>1. \A p : Upserts(p)' = Upserts(p) /\ Deletes(p)' = Deletes(p)
  BY DEF Upserts, Deletes
<1>2. QueueInv'
  BY <1>1 DEF StoreInv, QueueInv, LastIsStored, DeleteIsLast, storeVars, Upserts, Deletes
<1>3. \A p \in Pods : InHand(p)' <=> InHand(p) BY DEF InHand
<1>4. UpToDate'
  BY <1>1, <1>3 DEF StoreInv, UpToDate, Expected, Viewed, storeVars, podVars
<1>5. GoneIsForgotten' /\ CleansGone'
  BY <1>1 DEF StoreInv, GoneIsForgotten, CleansGone, Gone, Forgotten, IdsOf, storeVars,
     podVars
<1>6. RetriesCached' /\ MarksStored'
  BY DEF StoreInv, RetriesCached, MarksStored, IsMarked, podVars
<1>7. QED BY <1>2, <1>4, <1>5, <1>6 DEF StoreInv

LEMMA StoreEnvironment == ASSUME TypeInv, StoreInv, Environment PROVE StoreInv'
<1>1. CASE UNCHANGED <<storeVars, queue, SystemVars>>
  BY <1>1, StoreFrame DEF SystemVars, cacheVars, mapVars, passVars, sweepVars
<1>2. QED BY <1>1, StoreTold, EnvironmentShape

-----------------------------------------------------------------------------
\* The first notification is handled: its pod's other ones, and all others, stay in order.
LEMMA QueueHandled ==
    ASSUME TypeInv, QueueInv, queue # <<>>, queue' = Tail(queue), UNCHANGED storeVars,
           NEW q, q = Head(queue).pod
    PROVE  /\ QueueInv' /\ q \in Pods /\ Head(queue).slots \in [Slots -> Status]
           /\ \A p \in Pods \ {q} : /\ Upserts(p)' = {} <=> Upserts(p) = {}
                                    /\ Deletes(p)' = {} <=> Deletes(p) = {}
           /\ ~Head(queue).gone =>
                /\ Upserts(q) # {} /\ (Deletes(q)' = {} <=> Deletes(q) = {})
                /\ Upserts(q)' = {} => Head(queue).slots = store[q]
           /\ Head(queue).gone =>
                /\ life[q] = "deleted" /\ Deletes(q) # {} /\ Deletes(q)' = {}
                /\ Upserts(q) = {} /\ Upserts(q)' = {}
<1> DEFINE n == Len(queue)
<1>1. /\ 1 \in 1..n /\ queue[1] = Head(queue) /\ Head(queue) \in Notification
      /\ \A k \in 1..Len(queue') : k + 1 \in 1..n /\ queue'[k] = queue[k + 1]
      /\ \A p \in Pods : /\ Upserts(p)' = {k - 1 : k \in Upserts(p) \ {1}}
                         /\ Deletes(p)' = {k - 1 : k \in Deletes(p) \ {1}}
  BY QueueShrinks
<1>2. q \in Pods /\ Head(queue).slots \in [Slots -> Status] /\ queue[1].pod = q
  BY <1>1 DEF Notification
<1>3. \A p \in Pods : Upserts(p) \subseteq 1..n /\ Deletes(p) \subseteq 1..n
  BY DEF Upserts, Deletes
<1>4. UNCHANGED <<life, store>> BY DEF storeVars
<1>5. n \in Nat BY DEF TypeInv, TypeOK
<1>6. \A p \in Pods : /\ Upserts(p)' \subseteq 1..Len(queue')
                      /\ Deletes(p)' \subseteq 1..Len(queue')
  BY DEF Upserts, Deletes
<1> HIDE DEF n
<1>7. \A i \in 1..n : i \in Int /\ i >= 1 BY <1>5
<1>8. ASSUME NEW p \in Pods
      PROVE  /\ Upserts(p)' = {} <=> Upserts(p) \subseteq {1}
             /\ Deletes(p)' = {} <=> Deletes(p) \subseteq {1}
  <2>1. /\ Upserts(p)' = {k - 1 : k \in Upserts(p) \ {1}}
        /\ Deletes(p)' = {k - 1 : k \in Deletes(p) \ {1}}
    BY <1>1
  <2>2. \A U : {k - 1 : k \in U \ {1}} = {} <=> U \subseteq {1} OBVIOUS
  <2>3. QED BY <2>1, <2>2, Zenon
<1>9. QueueInv'
  <2>1. ASSUME NEW p \in Pods PROVE LastIsStored(p)'
    <3> SUFFICES ASSUME NEW k \in Upserts(p)', \A j \in Upserts(p)' : j <= k
                 PROVE  queue'[k].slots = store[p]
      BY <1>4 DEF LastIsStored
    <3>1. PICK i \in Upserts(p) \ {1} : k = i - 1 BY <1>1
    <3>2. i \in Int /\ i >= 1 /\ k + 1 = i BY <1>3, <1>7, <3>1
    <3>3. ASSUME NEW j \in Upserts(p) PROVE j <= i
      <4>1. CASE j = 1 BY <3>2, <4>1
      <4>2. CASE j # 1
        <5>1. j - 1 \in Upserts(p)' BY <1>1, <4>2
        <5>2. j - 1 <= k BY <5>1
        <5>3. j \in Int BY <1>3, <1>7
        <5>4. k = i - 1 BY <3>1
        <5>5. QED BY <3>2, <5>2, <5>3, <5>4
      <4>3. QED BY <4>1, <4>2
    <3>4. queue[i].slots = store[p] BY <3>1, <3>3 DEF QueueInv, LastIsStored
    <3>5. k \in 1..Len(queue') BY <1>6
    <3>6. queue'[k] = queue[i] BY <1>1, <3>2, <3>5
    <3>7. QED BY <3>4, <3>6
  <2>2. ASSUME NEW p \in Pods PROVE DeleteIsLast(p)'
    <3> SUFFICES ASSUME NEW k \in Deletes(p)'
                 PROVE  /\ life[p] = "deleted"
                        /\ \A j \in 1..Len(queue') : queue'[j].pod = p => j <= k
      BY <1>4 DEF DeleteIsLast
    <3>1. PICK i \in Deletes(p) \ {1} : k = i - 1 BY <1>1
    <3>2. i \in Int /\ k + 1 = i /\ k = i - 1 BY <1>3, <1>7, <3>1
    <3>3. ASSUME NEW j \in 1..Len(queue'), queue'[j].pod = p PROVE j <= k
      <4>1. j + 1 \in 1..n /\ queue[j + 1].pod = p BY <1>1, <3>3
      <4>2. \A l \in 1..n : queue[l].pod = p => l <= i
        BY <3>1 DEF QueueInv, DeleteIsLast, n
      <4>3. j + 1 <= i BY <4>1, <4>2
      <4>4. j \in Int OBVIOUS
      <4>5. QED BY <3>2, <4>3, <4>4
    <3>4. QED BY <3>1, <3>3 DEF QueueInv, DeleteIsLast
  <2>3. QED BY <2>1, <2>2 DEF QueueInv
<1>10. ASSUME NEW p \in Pods \ {q}
      PROVE  /\ Upserts(p)' = {} <=> Upserts(p) = {}
             /\ Deletes(p)' = {} <=> Deletes(p) = {}
  <2>1. 1 \notin Upserts(p) /\ 1 \notin Deletes(p) BY <1>2 DEF Upserts, Deletes
  <2>2. QED BY <1>8, <2>1
<1>11. ASSUME ~Head(queue).gone
      PROVE  /\ Upserts(q) # {} /\ (Deletes(q)' = {} <=> Deletes(q) = {})
             /\ Upserts(q)' = {} => Head(queue).slots = store[q]
  <2>1. 1 \in Upserts(q) /\ 1 \notin Deletes(q)
    BY <1>1, <1>2, <1>11 DEF Upserts, Deletes, n
  <2>2. ASSUME Upserts(q)' = {} PROVE Head(queue).slots = store[q]
    <3>1. Upserts(q) = {1} BY <1>2, <1>8, <2>1, <2>2
    <3>2. \A j \in Upserts(q) : j <= 1 BY <3>1
    <3>3. queue[1].slots = store[q] BY <1>2, <2>1, <3>2 DEF QueueInv, LastIsStored
    <3>4. QED BY <1>1, <3>3
  <2>3. Deletes(q)' = {} <=> Deletes(q) = {} BY <1>2, <1>8, <2>1
  <2>4. QED BY <2>1, <2>2, <2>3
<1>12. ASSUME Head(queue).gone
       PROVE  /\ life[q] = "deleted" /\ Deletes(q) # {} /\ Deletes(q)' = {}
              /\ Upserts(q) = {} /\ Upserts(q)' = {}
  <2>1. 1 \in Deletes(q) /\ 1 \notin Upserts(q)
    BY <1>1, <1>2, <1>12 DEF Upserts, Deletes, n
  <2>2. life[q] = "deleted" /\ \A j \in 1..n : queue[j].pod = q => j <= 1
    BY <1>2, <2>1 DEF QueueInv, DeleteIsLast, n
  <2>3. \A j \in Upserts(q) \cup Deletes(q) : j = 1
    <3>1. \A j \in Upserts(q) \cup Deletes(q) : j \in 1..n /\ queue[j].pod = q
      BY DEF Upserts, Deletes, n
    <3>2. QED BY <1>7, <2>2, <3>1
  <2>4. Upserts(q) = {} /\ Deletes(q) = {1} BY <2>1, <2>3
  <2>5. Upserts(q)' = {} /\ Deletes(q)' = {} BY <1>2, <1>8, <2>4
  <2>6. QED BY <2>1, <2>2, <2>4, <2>5
<1>13. QED BY <1>2, <1>9, <1>10, <1>11, <1>12

LEMMA CreateAgrees ==
    ASSUME NEW p \in Pods, NEW ss
    PROVE  /\ Agrees(CreateSimplePodInfo(p, ss), ss)
           /\ IsMarked(p, CreateSimplePodInfo(p, ss))
<1> DEFINE si == CreateSimplePodInfo(p, ss)
<1>1. \A i \in Slots : /\ si[i].inc = ss[i].inc /\ si[i].running = ss[i].running
                       /\ si[i].done => Id(p, i, ss[i]) \in processed
  BY DEF CreateSimplePodInfo
<1> HIDE DEF si
<1>2. \A i \in ApmSlots : i \in Slots BY DEF Slots
<1>3. \A i \in Slots : Id(p, i, si[i]) = Id(p, i, ss[i]) BY <1>1 DEF Id
<1>4. Agrees(si, ss) /\ IsMarked(p, si) BY <1>1, <1>2, <1>3 DEF Agrees, IsMarked
<1>5. QED BY <1>4 DEF si

LEMMA StoreUpsert == ASSUME TypeInv, StoreInv, HandleUpsert PROVE StoreInv'
<1> DEFINE ss == Head(queue).slots
<1>0. PICK q, si : q = Head(queue).pod /\ si = CreateSimplePodInfo(q, ss) OBVIOUS
<1>1. /\ queue # <<>> /\ ~Head(queue).gone /\ cleanup = {} /\ lock = "free"
      /\ queue' = Tail(queue) /\ UNCHANGED <<storeVars, cacheVars, cleanup, sweepVars>>
      /\ lock' = "informer" /\ cur' = q /\ infos' = si
  BY <1>0 DEF HandleUpsert, BeginPass
<1>2. cur = NoPod BY <1>1 DEF TypeInv, PassOK
<1>3. /\ QueueInv' /\ q \in Pods
      /\ \A p \in Pods \ {q} : /\ Upserts(p)' = {} <=> Upserts(p) = {}
                               /\ Deletes(p)' = {} <=> Deletes(p) = {}
      /\ Upserts(q) # {} /\ (Deletes(q)' = {} <=> Deletes(q) = {})
      /\ Upserts(q)' = {} => ss = store[q]
  BY <1>0, <1>1, QueueHandled DEF StoreInv
<1>4. Agrees(si, ss) /\ IsMarked(q, si) BY <1>0, <1>3, CreateAgrees
<1>6. /\ Gone(q)' => Gone(q)
      /\ Upserts(q)' = {} => Agrees(si, store[q])
  BY <1>1, <1>3, <1>4 DEF Gone, storeVars
<1> HIDE DEF ss
<1>7. /\ UNCHANGED <<life, store, podVars, processed, attempts, phase>> /\ cleanup' = {}
      /\ lock' = "informer" /\ cur' = q /\ infos' = si
  BY <1>1 DEF storeVars, cacheVars, mapVars, sweepVars
<1>8. UpToDate'
  <2>1. ASSUME NEW p \in Pods, Expected(p)', Upserts(p)' = {}, p # q PROVE Viewed(p)'
    <3>1. Viewed(p) /\ ~InHand(p)
      BY <1>2, <1>3, <1>7, <2>1 DEF StoreInv, UpToDate, Expected, InHand
    <3>2. ~InHand(p)' BY <1>7, <2>1 DEF InHand
    <3>3. QED BY <1>7, <2>1, <3>1, <3>2 DEF Viewed, podVars
  <2>2. ASSUME Upserts(q)' = {} PROVE Viewed(q)'
    <3>1. Agrees(si, store[q]) BY <1>6, <2>2
    <3>2. QED BY <1>7, <3>1 DEF Viewed, InHand
  <2>3. QED BY <2>1, <2>2 DEF UpToDate
<1>9. GoneIsForgotten'
  <2> SUFFICES ASSUME NEW p \in Pods, Gone(p)' PROVE Forgotten(p)'
    BY DEF GoneIsForgotten
  <2>1. p # q
    <3>1. Gone(q)' => Gone(q) BY <1>6
    <3>2. ~Gone(q) BY <1>3 DEF StoreInv, GoneIsForgotten, Forgotten
    <3>3. QED BY <3>1, <3>2
  <2>2. Forgotten(p) BY <1>3, <1>7, <2>1 DEF StoreInv, GoneIsForgotten, Gone
  <2>3. cur' # p BY <1>7, <2>1
  <2>4. QED BY <1>1, <1>3, <1>7, <2>1, <2>2, <2>3 DEF Forgotten, IdsOf, podVars
<1>10. CleansGone' BY <1>7 DEF CleansGone
<1>11. RetriesCached' BY <1>7 DEF RetriesCached
<1>12. MarksStored'
  <2>1. \A p, sj : (\A i \in ApmSlots : (sj[i].done /\ sj[i].inc # 0)
                                          => Id(p, i, sj[i]) \in processed')
                   <=> IsMarked(p, sj)
    BY <1>7 DEF IsMarked
  <2>2. \A p \in cached' : IsMarked(p, podsMap'[p])
    BY <1>7 DEF StoreInv, MarksStored, podVars
  <2>3. IsMarked(cur', infos')
    BY <1>4, <1>7
  <2>4. QED BY <2>1, <2>2, <2>3 DEF MarksStored, IsMarked
<1>13. QED BY <1>3, <1>7, <1>8, <1>9, <1>10, <1>11, <1>12 DEF StoreInv

LEMMA StoredIds ==
    ASSUME TypeInv, NEW p \in Pods PROVE IdsOf(p, store[p]) \subseteq Container
<1>1. store[p] \in [Slots -> Status] BY DEF TypeInv, TypeOK
<1>2. \A i \in Slots : store[p][i].inc \in 0..MaxIncarnation BY <1>1 DEF Status
<1>3. QED BY <1>2, IdsOfType

\* The deletion is the last notification of its pod, so the cache has the pod as the
\* store had it last: the ids to forget are those of its last containers.
LEMMA StoreDelete == ASSUME TypeInv, StoreInv, HandleDelete PROVE StoreInv'
<1>1. PICK q : q = Head(queue).pod OBVIOUS
<1>2. /\ queue # <<>> /\ Head(queue).gone /\ cleanup = {} /\ lock = "free"
      /\ queue' = Tail(queue) /\ UNCHANGED <<storeVars, mapVars, lock, passVars, sweepVars>>
      /\ IF q \in cached
         THEN EvictPods({q}) /\ cleanup' = IdsOf(q, podsMap[q])
         ELSE UNCHANGED <<podVars, cleanup>>
  BY <1>1 DEF HandleDelete
<1>3. cur = NoPod /\ \A p \in Pods : ~InHand(p) BY <1>2 DEF TypeInv, PassOK, InHand
<1>4. /\ QueueInv' /\ q \in Pods
      /\ \A p \in Pods \ {q} : /\ Upserts(p)' = {} <=> Upserts(p) = {}
                               /\ Deletes(p)' = {} <=> Deletes(p) = {}
      /\ life[q] = "deleted" /\ Deletes(q) # {} /\ Deletes(q)' = {}
      /\ Upserts(q) = {} /\ Upserts(q)' = {}
  BY <1>1, <1>2, QueueHandled DEF StoreInv
<1>5. q \in cached /\ Agrees(podsMap[q], store[q])
  BY <1>3, <1>4 DEF StoreInv, UpToDate, Expected, Viewed
<1>6. /\ UNCHANGED <<life, store, processed, attempts, lock, cur, infos, phase>>
      /\ q \notin cached' /\ cached' \subseteq cached
      /\ \A p \in Pods \ {q} : podsMap'[p] = podsMap[p] /\ (p \in cached => p \in cached')
  BY <1>2, <1>5 DEF EvictPods, storeVars, mapVars, passVars, sweepVars
<1>7. cleanup' = IdsOf(q, store[q])
  <2>1. cleanup' = IdsOf(q, podsMap[q]) BY <1>2, <1>5
  <2>2. \A i \in Slots : podsMap[q][i].inc = store[q][i].inc BY <1>5 DEF Agrees
  <2>3. QED BY <2>1, <2>2 DEF IdsOf, Id
<1>8. UpToDate'
  <2> SUFFICES ASSUME NEW p \in Pods, Expected(p)', Upserts(p)' = {} PROVE Viewed(p)'
    BY DEF UpToDate
  <2>1. p # q BY <1>4, <1>6 DEF Expected
  <2>2. Viewed(p) BY <1>4, <1>6, <2>1 DEF StoreInv, UpToDate, Expected
  <2>3. ~InHand(p)' BY <1>3, <1>6 DEF InHand
  <2>4. QED BY <1>3, <1>6, <2>1, <2>2, <2>3 DEF Viewed
<1>9. GoneIsForgotten'
  <2>1. Forgotten(q)' BY <1>3, <1>4, <1>6, <1>7 DEF Forgotten
  <2>2. ASSUME NEW p \in Pods \ {q}, Gone(p)' PROVE Forgotten(p)'
    <3>1. Forgotten(p) BY <1>4, <1>6, <2>2 DEF StoreInv, GoneIsForgotten, Gone
    <3>2. QED BY <1>2, <1>4, <1>6, <3>1 DEF Forgotten
  <2>3. QED BY <2>1, <2>2 DEF GoneIsForgotten
<1>10. CleansGone'
  <2>1. \A c \in cleanup' : c[1] = q BY <1>7 DEF IdsOf, Id
  <2>2. Gone(q)' BY <1>4, <1>6 DEF Gone
  <2>3. QED BY <2>1, <2>2 DEF CleansGone, Gone
<1>11. RetriesCached' /\ MarksStored'
  BY <1>2, <1>3, <1>6 DEF StoreInv, RetriesCached, MarksStored, IsMarked, TypeInv, TypeOK
<1>12. QED BY <1>4, <1>6, <1>8, <1>9, <1>10, <1>11 DEF StoreInv

\* Only what belongs to a pod that is gone is forgotten.
LEMMA StoreCleanup == ASSUME TypeInv, StoreInv, CleanupContainer PROVE StoreInv'
<1>1. PICK c \in cleanup : /\ ForgetProcessed({c}) /\ ForgetRetries({c})
                           /\ cleanup' = cleanup \ {c}
  BY DEF CleanupContainer
<1>2. UNCHANGED <<storeVars, queue, podVars, lock, cur, infos, phase>>
  BY DEF CleanupContainer, passVars, sweepVars
<1>3. c \in Container /\ c[1] \in Pods BY DEF TypeInv, TypeOK, Container
<1>4. c[1] \notin cached /\ cur # c[1]
  BY <1>3 DEF StoreInv, CleansGone, GoneIsForgotten, Forgotten
<1>5. /\ processed' = processed \ {c}
      /\ \A d \in Container : attempts'[d] = IF d = c THEN 0 ELSE attempts[d]
  BY <1>1 DEF ForgetProcessed, ForgetRetries
<1>6. \A p \in Pods : IdsOf(p, store[p]) \subseteq Container BY StoredIds
<1>7. \A p : Upserts(p)' = Upserts(p) /\ Deletes(p)' = Deletes(p)
  BY <1>2 DEF Upserts, Deletes
<1>8. QueueInv'
  BY <1>2, <1>7
     DEF StoreInv, QueueInv, LastIsStored, DeleteIsLast, storeVars, Upserts, Deletes
<1>9. UpToDate'
  BY <1>2, <1>7 DEF StoreInv, UpToDate, Expected, Viewed, InHand, storeVars, podVars
<1>10. GoneIsForgotten'
  <2> SUFFICES ASSUME NEW p \in Pods, Gone(p)' PROVE Forgotten(p)'
    BY DEF GoneIsForgotten
  <2>1. Forgotten(p) BY <1>2, <1>7 DEF StoreInv, GoneIsForgotten, Gone, storeVars
  <2>2. ASSUME NEW d \in IdsOf(p, store[p]) \ cleanup' PROVE d \notin processed' /\ attempts'[d] = 0
    BY <1>1, <1>5, <1>6, <2>1 DEF Forgotten
  <2>3. QED BY <1>2, <1>7, <2>1, <2>2 DEF Forgotten, IdsOf, storeVars, podVars
<1>11. CleansGone' BY <1>1, <1>2, <1>7 DEF StoreInv, CleansGone, Gone, storeVars
<1>12. RetriesCached' BY <1>2 DEF StoreInv, RetriesCached, podVars
<1>13. MarksStored'
  <2>1. ASSUME NEW p, p # c[1], NEW si, IsMarked(p, si)
        PROVE  \A i \in ApmSlots : (si[i].done /\ si[i].inc # 0) => Id(p, i, si[i]) \in processed'
    BY <1>5, <2>1 DEF IsMarked, Id
  <2>2. \A p \in cached : IsMarked(p, podsMap[p]) /\ p # c[1]
    BY <1>4 DEF StoreInv, MarksStored
  <2>3. cur # NoPod => IsMarked(cur, infos) /\ cur # c[1]
    BY <1>4 DEF StoreInv, MarksStored
  <2>4. QED BY <1>2, <2>1, <2>2, <2>3 DEF MarksStored, IsMarked, podVars
<1>14. QED BY <1>2, <1>8, <1>9, <1>10, <1>11, <1>12, <1>13 DEF StoreInv, sweepVars

-----------------------------------------------------------------------------
\* What a command's end does in a pass: only its own container may become processed.
LEMMA StoreExec ==
    ASSUME TypeInv, StoreInv, source > 0, NEW d,
           UNCHANGED <<storeVars, queue, podVars, lock, cur, cleanup, phase>>,
           processed \subseteq processed', processed' \subseteq processed \cup {Here},
           \A c \in Container \ {Here} : attempts'[c] = attempts[c],
           infos' = [infos EXCEPT ![slot] = Marked(@, d)],
           d => infos[slot].done \/ Here \in processed'
    PROVE  StoreInv'
<1>1. /\ Here \in Container /\ cur \in Pods /\ slot \in Slots /\ Here[1] = cur
      /\ infos[slot].inc # 0
  BY HereType DEF Here, Id, TypeInv, PassOK
<1>2. /\ infos \in [Slots -> Info]
      /\ \A p \in Pods : IdsOf(p, store[p]) \subseteq Container
  BY StoredIds DEF TypeInv, TypeOK
<1>3. /\ \A i \in Slots : /\ infos'[i].inc = infos[i].inc
                          /\ infos'[i].running = infos[i].running
      /\ \A i \in Slots \ {slot} : infos'[i] = infos[i]
      /\ infos'[slot].done = d
  BY <1>1, <1>2 DEF Marked, Info
<1>4. \A ss : Agrees(infos', ss) <=> Agrees(infos, ss) BY <1>3 DEF Agrees
<1>5. \A p : Upserts(p)' = Upserts(p) /\ Deletes(p)' = Deletes(p)
  BY DEF Upserts, Deletes
<1>6. QueueInv'
  BY <1>5 DEF StoreInv, QueueInv, LastIsStored, DeleteIsLast, storeVars, Upserts, Deletes
<1>7. UpToDate'
  <2>1. \A p \in Pods : Viewed(p) => Viewed(p)'
    <3> SUFFICES ASSUME NEW p \in Pods, Viewed(p) PROVE Viewed(p)'
      OBVIOUS
    <3>1. CASE InHand(p) BY <1>4, <3>1 DEF Viewed, InHand, storeVars, podVars
    <3>2. CASE ~InHand(p) BY <3>2 DEF Viewed, InHand, storeVars, podVars
    <3>3. QED BY <3>1, <3>2
  <2>2. QED BY <1>5, <2>1 DEF StoreInv, UpToDate, Expected, storeVars
<1>8. GoneIsForgotten'
  <2> SUFFICES ASSUME NEW p \in Pods, Gone(p)' PROVE Forgotten(p)'
    BY DEF GoneIsForgotten
  <2>1. Forgotten(p) BY <1>5 DEF StoreInv, GoneIsForgotten, Gone, storeVars
  <2>2. \A c \in IdsOf(p, store[p]) : c # Here /\ c \in Container
    BY <1>1, <1>2, <2>1 DEF Forgotten, IdsOf, Id
  <2>3. QED BY <1>5, <2>1, <2>2 DEF Forgotten, storeVars, podVars
<1>9. CleansGone' BY <1>5 DEF StoreInv, CleansGone, Gone, storeVars
<1>10. RetriesCached' BY <1>4 DEF StoreInv, RetriesCached, podVars
<1>11. MarksStored'
  <2>1. \A p \in cached : IsMarked(p, podsMap[p])'
    BY DEF StoreInv, MarksStored, IsMarked, podVars
  <2>2. ASSUME NEW i \in ApmSlots, infos'[i].done, infos'[i].inc # 0
        PROVE  Id(cur, i, infos'[i]) \in processed'
    <3>1. i \in Slots BY DEF Slots
    <3>2. IsMarked(cur, infos) BY <1>1 DEF StoreInv, MarksStored
    <3>3. Id(cur, i, infos'[i]) = Id(cur, i, infos[i]) BY <1>3, <3>1 DEF Id
    <3>4. CASE i = slot
      BY <1>3, <2>2, <3>1, <3>2, <3>3, <3>4 DEF IsMarked, Here
    <3>5. CASE i # slot BY <1>3, <2>2, <3>1, <3>2, <3>3, <3>5 DEF IsMarked
    <3>6. QED BY <3>4, <3>5
  <2>3. QED BY <2>1, <2>2 DEF MarksStored, IsMarked, podVars
<1>12. QED BY <1>6, <1>7, <1>8, <1>9, <1>10, <1>11 DEF StoreInv

\* A pass that ends leaves in the cache what it had in hand.
LEMMA StoreEnd == ASSUME TypeInv, StoreInv, EndPass PROVE StoreInv'
<1>1. /\ cur \in Pods /\ StorePod(cur, infos) /\ cur' = NoPod
      /\ UNCHANGED <<storeVars, queue, processed, attempts, cleanup, phase>>
  BY DEF EndPass, TypeInv, TypeOK, mapVars, sweepVars
<1>2. /\ cached' = cached \cup {cur} /\ podsMap'[cur] = infos
      /\ \A p \in Pods \ {cur} : podsMap'[p] = podsMap[p]
  BY <1>1 DEF StorePod, TypeInv, TypeOK
<1>3. \A p : Upserts(p)' = Upserts(p) /\ Deletes(p)' = Deletes(p)
  BY <1>1 DEF Upserts, Deletes
<1>4. QueueInv'
  BY <1>1, <1>3
     DEF StoreInv, QueueInv, LastIsStored, DeleteIsLast, storeVars, Upserts, Deletes
<1>5. UpToDate'
  <2> SUFFICES ASSUME NEW p \in Pods, Expected(p)', Upserts(p)' = {} PROVE Viewed(p)'
    BY DEF UpToDate
  <2>1. Viewed(p) BY <1>1, <1>3 DEF StoreInv, UpToDate, Expected, storeVars
  <2>2. ~InHand(p)' BY <1>1 DEF InHand
  <2>3. CASE p = cur
    <3>1. lock = "informer" \/ lock = "retrier" BY <1>1 DEF TypeInv, TypeOK, PassOK
    <3>2. CASE lock = "informer"
      BY <1>1, <1>2, <2>1, <2>2, <2>3, <3>2 DEF Viewed, InHand, storeVars
    <3>3. CASE lock = "retrier"
      <4>1. Agrees(podsMap[p], store[p]) BY <2>1, <2>3, <3>3 DEF Viewed, InHand
      <4>2. Agrees(infos, podsMap[p]) BY <1>1, <2>3, <3>3 DEF StoreInv, RetriesCached
      <4>3. Agrees(infos, store[p]) BY <4>1, <4>2 DEF Agrees
      <4>4. QED BY <1>1, <1>2, <2>2, <2>3, <4>3 DEF Viewed, storeVars
    <3>4. QED BY <3>1, <3>2, <3>3
  <2>4. CASE p # cur
    BY <1>1, <1>2, <2>1, <2>2, <2>4 DEF Viewed, InHand, storeVars
  <2>5. QED BY <2>3, <2>4
<1>6. GoneIsForgotten'
  BY <1>1, <1>2, <1>3 DEF StoreInv, GoneIsForgotten, Gone, Forgotten, IdsOf, storeVars
<1>7. CleansGone' BY <1>1, <1>3 DEF StoreInv, CleansGone, Gone, storeVars
<1>8. RetriesCached' BY <1>1 DEF RetriesCached
<1>9. MarksStored'
  <2>1. \A p \in cached' : p = cur \/ (p \in cached /\ podsMap'[p] = podsMap[p])
    BY <1>2 DEF TypeInv, TypeOK
  <2>2. IsMarked(cur, infos) /\ \A p \in cached : IsMarked(p, podsMap[p])
    BY <1>1 DEF StoreInv, MarksStored
  <2>3. \A p, si : (\A i \in ApmSlots : (si[i].done /\ si[i].inc # 0)
                                          => Id(p, i, si[i]) \in processed')
                   <=> IsMarked(p, si)
    BY <1>1 DEF IsMarked
  <2>4. QED BY <1>1, <1>2, <2>1, <2>2, <2>3 DEF MarksStored, IsMarked
<1>10. QED BY <1>1, <1>4, <1>5, <1>6, <1>7, <1>8, <1>9 DEF StoreInv

LEMMA StoreLookup == ASSUME TypeInv, StoreInv, Lookup PROVE StoreInv'
BY LookupShape, StoreFrame DEF UnchangedByLookup, UnchangedByPass, cacheVars, mapVars, sweepVars

LEMMA StorePass == ASSUME TypeInv, StoreInv, Pass PROVE StoreInv'
<1>1. CASE ConsiderContainer \/ SkipSource \/ ExecStart
  BY <1>1, StoreFrame
     DEF ConsiderContainer, SkipSource, ExecStart, UnchangedByPass, cacheVars, mapVars,
         sweepVars
<1>2. ASSUME ExecSucceeds \/ ExecFails PROVE StoreInv'
  <2>1. source > 0 /\ UNCHANGED <<storeVars, queue, podVars, lock, cur, cleanup, phase>>
    BY <1>2 DEF ExecSucceeds, ExecFails, UnchangedByPass, sweepVars
  <2>2. Here \in Container /\ slot \in Slots /\ infos[slot] \in Info
    BY <2>1, HereType DEF TypeInv, TypeOK
  <2>3. attempts \in [Container -> 0..(MaxAttempts - 1)] /\ left[Here] \in Nat
    BY <2>2 DEF TypeInv, TypeOK
  <2>4. CASE ExecSucceeds
    <3>1. processed' = processed \cup {Here} /\ infos' = [infos EXCEPT ![slot] = Marked(infos[slot], TRUE)]
      BY <2>4 DEF ExecSucceeds, MarkInjectionDone
    <3>2. \A c \in Container \ {Here} : attempts'[c] = attempts[c]
      BY <2>3, <2>4 DEF ExecSucceeds, MarkInjectionDone
    <3>3. QED BY <2>1, <3>1, <3>2, StoreExec
  <2>5. CASE ExecFails
    <3>1. infos' = [infos EXCEPT ![slot] = Marked(infos[slot], infos[slot].done \/ GivesUp(Here))]
      BY <2>5 DEF ExecFails
    <3>2. RecordInjectionFailure(Here) BY <2>5 DEF ExecFails
    <3>3. processed' = processed \cup (IF GivesUp(Here) THEN {Here} ELSE {})
      BY <2>3, <3>2 DEF RecordInjectionFailure, GivesUp, mapVars
    <3>4. \A c \in Container \ {Here} : attempts'[c] = attempts[c]
      BY <2>3, <3>2 DEF RecordInjectionFailure, mapVars
    <3> DEFINE d == infos[slot].done \/ GivesUp(Here)
    <3>5. /\ processed \subseteq processed' /\ processed' \subseteq processed \cup {Here}
          /\ d => infos[slot].done \/ Here \in processed'
      BY <3>3
    <3>6. infos' = [infos EXCEPT ![slot] = Marked(infos[slot], d)] BY <3>1
    <3> HIDE DEF d
    <3>7. QED BY <2>1, <3>4, <3>5, <3>6, StoreExec
  <2>6. QED BY <1>2, <2>4, <2>5
<1>3. QED BY <1>1, <1>2, StoreLookup, StoreEnd DEF Pass, Lookup

\* The retrier begins a pass only for a pod of the cache: an evicted one has no container.
LEMMA StoreRetrier == ASSUME TypeInv, EvictedEmpty, StoreInv, Retrier PROVE StoreInv'
<1>1. CASE RetrierStart
  BY <1>1, StoreFrame
     DEF RetrierStart, TypeInv, PassOK, cacheVars, mapVars, passVars, sweepVars
<1>2. CASE RetrierEnd
  BY <1>2, StoreFrame DEF RetrierEnd, cacheVars, mapVars, passVars, sweepVars
<1>3. ASSUME NEW q \in Pods, RetrierVisit(q) PROVE StoreInv'
  <2>1. /\ UNCHANGED <<storeVars, queue, phase, podVars, processed, attempts, cleanup, lock>>
        /\ lock = "retrier" /\ cur = NoPod
    BY <1>3 DEF RetrierVisit, cacheVars, mapVars, sweepVars
  <2>2. CASE UNCHANGED passVars BY <2>1, <2>2, StoreFrame DEF passVars
  <2>3. CASE HasDueInjection(q) /\ BeginPass(q, podsMap[q], "inject")
    <3>1. cur' = q /\ infos' = podsMap[q] BY <2>3 DEF BeginPass
    <3>2. q \in cached
      <4>1. \A i \in ApmSlots : NoInfo[i].inc = 0 BY DEF NoInfo, Slots
      <4>2. QED BY <2>3, <4>1 DEF HasDueInjection, EvictedEmpty
    <3>3. \A p : Upserts(p)' = Upserts(p) /\ Deletes(p)' = Deletes(p)
      BY <2>1 DEF Upserts, Deletes
    <3>4. QueueInv'
      BY <2>1, <3>3
         DEF StoreInv, QueueInv, LastIsStored, DeleteIsLast, storeVars, Upserts, Deletes
    <3>5. UpToDate'
      BY <2>1, <3>3 DEF StoreInv, UpToDate, Expected, Viewed, InHand, storeVars, podVars
    <3>6. GoneIsForgotten' /\ CleansGone'
      BY <2>1, <3>1, <3>2, <3>3
         DEF StoreInv, GoneIsForgotten, CleansGone, Gone, Forgotten, IdsOf, storeVars, podVars
    <3>7. RetriesCached'
      BY <2>1, <3>1, <3>2 DEF RetriesCached, Agrees, podVars
    <3>8. MarksStored'
      BY <2>1, <3>1, <3>2 DEF StoreInv, MarksStored, IsMarked, podVars
    <3>9. QED BY <2>1, <3>4, <3>5, <3>6, <3>7, <3>8 DEF StoreInv
  <2>4. QED BY <1>3, <2>2, <2>3 DEF RetrierVisit
<1>4. QED BY <1>1, <1>2, <1>3 DEF Retrier

\* Without the sweeper, nothing but the handler takes a pod out of the cache.
LEMMA StoreStep ==
    ASSUME ~Sweeping, TypeInv, EvictedEmpty, StoreInv, [Next]_vars PROVE StoreInv'
<1>1. CASE Handler
  BY <1>1, StoreUpsert, StoreDelete, StoreCleanup DEF Handler
<1>2. ~Sweeper
  BY DEF StoreInv, Sweeper, SweepList, SweepPods, SweepProcessed, SweepRetries
<1>3. CASE Tick
  BY <1>3, StoreFrame DEF Tick, sweepVars
<1>4. CASE UNCHANGED vars
  BY <1>4, StoreFrame DEF vars, cacheVars, mapVars, passVars, sweepVars
<1>5. QED
  BY <1>1, <1>2, <1>3, <1>4, StoreEnvironment, StoreLookup, StorePass, StoreRetrier
  DEF Next, Lookup

LEMMA StoreInit == Init => StoreInv
<1> SUFFICES ASSUME Init PROVE StoreInv
  OBVIOUS
<1>1. \A p : Upserts(p) = {} /\ Deletes(p) = {} BY DEF Init, Upserts, Deletes
<1>2. QueueInv /\ UpToDate /\ GoneIsForgotten
  BY <1>1 DEF Init, QueueInv, LastIsStored, DeleteIsLast, UpToDate, Expected,
              GoneIsForgotten, Gone
<1>3. CleansGone /\ RetriesCached /\ MarksStored
  BY DEF Init, CleansGone, RetriesCached, MarksStored
<1>4. QED BY <1>2, <1>3 DEF Init, StoreInv

\* The cache follows the informer's store as long as the sweeper has not run: the
\* strengthening that the three properties below are read off.
THEOREM StoreFollowed == ASSUME ~Sweeping PROVE Spec => [](IInv /\ StoreInv)
<1>1. IInv /\ StoreInv /\ [Next]_vars => StoreInv' BY StoreStep DEF IInv
<1>2. QED BY <1>1, StoreInit, InductiveInvariance, PTL DEF Spec

\* A pod with no pending notification has neither kind.
LEMMA HandledShape ==
    ASSUME StoreInv, NEW p \in Pods, Handled(p)
    PROVE  Upserts(p) = {} /\ Deletes(p) = {} /\ ~InHand(p)
BY DEF Handled, Pending, Upserts, Deletes, InHand

\* Without the sweeper, once the notifications of a live pod are handled, podsMap has it
\* with the statuses the API server has, whatever passes, retries, restarts of its
\* containers and other pods' notifications there were in between.
THEOREM LivePodsCachedHolds == ASSUME ~Sweeping PROVE Spec => []LivePodsCached
<1>1. StoreInv => LivePodsCached
  BY HandledShape DEF StoreInv, LivePodsCached, UpToDate, Expected, Viewed, Agrees
<1>2. QED BY <1>1, StoreFollowed, PTL

\* Without the sweeper, once the deletion of a pod is handled, podsMap does not have it,
\* and neither processedContainers nor injectionRetries has one of its last containers
\* that removePodFromCache is not about to forget.
THEOREM DeletedPodsForgottenHolds == ASSUME ~Sweeping PROVE Spec => []DeletedPodsForgotten
<1>1. StoreInv => DeletedPodsForgotten
  BY HandledShape DEF StoreInv, DeletedPodsForgotten, GoneIsForgotten, Gone, Forgotten
<1>2. QED BY <1>1, StoreFollowed, PTL

\* Without the sweeper, what podsMap marks done is in processedContainers, so that the
\* next event about its pod does not run the command again.
THEOREM MarkedIsProcessedHolds == ASSUME ~Sweeping PROVE Spec => []MarkedIsProcessed
<1>1. StoreInv => MarkedIsProcessed
  BY DEF StoreInv, MarkedIsProcessed, MarksStored, IsMarked, ApmContainer
<1>2. QED BY <1>1, StoreFollowed, PTL

-----------------------------------------------------------------------------
(***************************************************************************)
(* The contract: every step of PodInjection is one of Injection or leaves  *)
(* its variables alone.  The guards of a try are BeforeFirstCommand and    *)
(* PassesCounted, and it is the latter, too, that says of a failure that   *)
(* it was not the last one a container has.                                *)
(***************************************************************************)

\* What a step that is none of Injection's leaves alone.
LEMMA ContractStutter ==
    ASSUME UNCHANGED <<passes, processed, left, Trying>>
    PROVE  UNCHANGED Contract!vars
BY DEF Contract!vars

\* A step that neither moves the pass nor touches the bookkeeping.
LEMMA ContractFrame ==
    ASSUME UNCHANGED <<passes, processed, left, passVars>>
    PROVE  UNCHANGED Contract!vars
<1>1. Trying' = Trying
  BY DEF Trying, Here, passVars
<1>2. QED
  BY <1>1, ContractStutter

\* Between two containers, nothing is tried.
LEMMA ContractBetween ==
    ASSUME UNCHANGED <<passes, processed, left>>, source = 0, source' = 0 \/ ~tried'
    PROVE  UNCHANGED Contract!vars
<1>1. Trying = {} /\ Trying' = {}
  BY DEF Trying
<1>2. QED
  BY <1>1, ContractStutter

\* The types the steps below need.
LEMMA ContractTypes ==
    ASSUME TypeInv
    PROVE  /\ passes \in [Container -> Nat] /\ processed \subseteq Container
           /\ left \in [Container -> 0..MaxDelay]
           /\ attempts \in [Container -> 0..(MaxAttempts - 1)]
           /\ source > 0 => Here \in Container
BY HereType DEF TypeInv, TypeOK

\* Forgetting is allowed wherever the passes of what is forgotten are forgotten with it.
LEMMA ContractForget ==
    ASSUME TypeInv, TypeInv', processed' \subseteq processed, UNCHANGED passVars,
           \A c \in Container :
              \/ /\ passes'[c] = passes[c] /\ left'[c] = left[c]
                 /\ c \in processed => c \in processed'
              \/ passes'[c] = 0 /\ left'[c] \in {0, left[c]}
    PROVE  Contract!Next
<1>1. Trying' = Trying
  BY DEF Trying, Here, passVars
<1>2. passes' \in [Container -> Nat] /\ left' \in [Container -> Nat]
  BY DEF TypeInv, TypeOK
<1>3. Contract!Forget
  BY <1>1, <1>2 DEF Contract!Forget
<1>4. QED
  BY <1>3 DEF Contract!Next

LEMMA ContractHandler ==
    ASSUME IInv, IInv', Handler
    PROVE  [Contract!Next]_(Contract!vars)
<1>1. TypeInv /\ TypeInv'
  BY DEF IInv
<1>2. CASE HandleUpsert
  <2>1. UNCHANGED <<passes, processed, left>> /\ source = 0 /\ source' = 0
    BY <1>1, <1>2 DEF HandleUpsert, BeginPass, cacheVars, mapVars, TypeInv, PassOK
  <2>2. QED
    BY <2>1, ContractBetween
<1>3. CASE HandleDelete
  BY <1>3, ContractFrame DEF HandleDelete, mapVars
<1>4. CASE CleanupContainer
  <2>1. PICK d \in cleanup : /\ ForgetProcessed({d}) /\ ForgetRetries({d}) /\ ForgetPasses({d})
    BY <1>4 DEF CleanupContainer
  <2>2. UNCHANGED passVars
    BY <1>4 DEF CleanupContainer
  <2>3. /\ processed' = processed \ {d}
        /\ \A c \in Container : /\ left'[c] = IF c = d THEN 0 ELSE left[c]
                                /\ passes'[c] = IF c = d THEN 0 ELSE passes[c]
    BY <2>1 DEF ForgetProcessed, ForgetRetries, ForgetPasses
  <2>4. Contract!Next
    BY <1>1, <2>2, <2>3, ContractForget
  <2>5. QED
    BY <2>4
<1>5. QED
  BY <1>2, <1>3, <1>4 DEF Handler

\* The first command of a pass in a container is a try, the others are part of it.
LEMMA ContractStart ==
    ASSUME IInv, ExecStart
    PROVE  [Contract!Next]_(Contract!vars)
<1>1. /\ passes \in [Container -> Nat] /\ attempts \in [Container -> 0..(MaxAttempts - 1)]
      /\ source > 0 /\ elapsed = -1 /\ Here \in Container
  BY ContractTypes DEF IInv, ExecStart
<1>2. /\ UNCHANGED <<processed, left, source>> /\ tried' /\ Here' = Here
      /\ passes' = [passes EXCEPT ![Here] = IF tried THEN @ ELSE @ + 1]
  BY DEF ExecStart, cacheVars, mapVars, Here
<1>3. Trying' = {Here}
  BY <1>1, <1>2 DEF Trying
<1>4. CASE tried
  <2>1. passes' = passes /\ Trying = {Here}
    BY <1>1, <1>2, <1>4 DEF Trying
  <2>2. QED
    BY <1>2, <1>3, <2>1, ContractStutter
<1>5. CASE ~tried
  <2>1. Here \notin processed /\ left[Here] = 0
    BY <1>1, <1>5 DEF IInv, BudgetInv, BeforeFirstCommand
  <2>2. passes[Here] < MaxAttempts
    <3>1. passes[Here] <= attempts[Here]
      BY <1>1, <2>1 DEF IInv, BudgetInv, PassesCounted, Uncounted
    <3>2. QED
      BY <1>1, <3>1
  <2>3. Trying = {} /\ passes' = [passes EXCEPT ![Here] = @ + 1]
    BY <1>2, <1>5 DEF Trying
  <2>4. Contract!Try(Here)
    BY <1>2, <1>3, <2>1, <2>2, <2>3 DEF Contract!Try
  <2>5. QED
    BY <1>1, <2>4 DEF Contract!Next
<1>6. QED
  BY <1>4, <1>5

LEMMA ContractSucceeds ==
    ASSUME IInv, ExecSucceeds
    PROVE  [Contract!Next]_(Contract!vars)
<1>1. source > 0 /\ Here \in Container /\ tried
  BY ContractTypes DEF IInv, BudgetInv, BeforeFirstCommand, ExecSucceeds, TypeInv, TypeOK
<1>2. /\ passes' = passes /\ processed' = processed \cup {Here}
      /\ left' = [left EXCEPT ![Here] = 0] /\ source' = 0
  BY DEF ExecSucceeds, MarkInjectionDone, NextSlot
<1>3. Trying = {Here} /\ Trying' = {}
  BY <1>1, <1>2 DEF Trying
<1>4. Contract!Succeed(Here)
  BY <1>2, <1>3 DEF Contract!Succeed
<1>5. QED
  BY <1>1, <1>4 DEF Contract!Next

\* A pass that tries the next source of a container is still at the container.
LEMMA ContractMoves ==
    ASSUME source > 0, tried, tried' = tried, cur' = cur, NextSource,
           infos'[slot].inc = infos[slot].inc
    PROVE  Trying = {Here} /\ Trying' \in {Trying, {}}
<1>1. Trying = {Here}
  BY DEF Trying
<1>2. slot' = slot \/ source' = 0
  BY DEF NextSource, NextSlot
<1>3. CASE source' = 0
  BY <1>3 DEF Trying
<1>4. CASE slot' = slot
  <2>1. Here' = Here
    BY <1>4, HereFrame
  <2>2. QED
    BY <1>1, <2>1 DEF Trying
<1>5. QED
  BY <1>1, <1>2, <1>3, <1>4

LEMMA ContractFails ==
    ASSUME IInv, IInv', ExecFails
    PROVE  [Contract!Next]_(Contract!vars)
<1>1. /\ source > 0 /\ Here \in Container /\ tried /\ cur' = cur /\ tried' = tried
      /\ left \in [Container -> 0..MaxDelay] /\ slot \in Slots
      /\ passes \in [Container -> Nat]
  BY ContractTypes, HereType
     DEF IInv, BudgetInv, BeforeFirstCommand, ExecFails, TypeInv, TypeOK
<1>2. /\ passes' = passes /\ elapsed' = -1 /\ NextSource
      /\ RecordInjectionFailure(Here)
  BY DEF ExecFails
<1>3. infos'[slot].inc = infos[slot].inc
  <2>1. infos' = [infos EXCEPT ![slot] = Marked(infos[slot], infos[slot].done \/ GivesUp(Here))]
    BY <1>1 DEF ExecFails
  <2>2. infos \in [Slots -> Info]
    BY DEF IInv, TypeInv, TypeOK
  <2>3. QED
    BY <1>1, <2>1, <2>2 DEF Marked
<1>4. Trying = {Here} /\ Trying' \in {Trying, {}}
  BY <1>1, <1>2, <1>3, ContractMoves
<1>5. passes[Here] >= MaxAttempts => Here \in processed'
  <2>1. Here \notin processed' => passes'[Here] <= attempts'[Here] + Uncounted(Here)'
    <3>1. PassesCounted'
      BY DEF IInv, BudgetInv
    <3>2. \A c \in Container : c \notin processed' => passes'[c] <= attempts'[c] + Uncounted(c)'
      BY <3>1 DEF PassesCounted
    <3>3. QED
      BY <1>1, <1>2, <3>2 DEF Uncounted
  <2>2. Uncounted(Here)' = 0
    BY <1>2 DEF Uncounted
  <2>3. attempts'[Here] \in 0..(MaxAttempts - 1)
    BY <1>1 DEF IInv, TypeInv, TypeOK
  <2>4. QED
    BY <1>1, <1>2, <2>1, <2>2, <2>3
<1>6. IF left[Here] > 0 THEN UNCHANGED <<processed, left>>
      ELSE Contract!GiveUp(Here) \/ Contract!PutOff(Here)
  <2>1. CASE left[Here] > 0
    BY <1>2, <2>1 DEF RecordInjectionFailure, mapVars
  <2>2. CASE ~(left[Here] > 0) /\ GivesUp(Here)
    BY <1>2, <2>2 DEF RecordInjectionFailure, Contract!GiveUp
  <2>3. CASE ~(left[Here] > 0) /\ ~GivesUp(Here)
    <3>1. /\ left' = [left EXCEPT ![Here] = InjectionRetryDelay(attempts[Here] + 1)]
          /\ processed' = processed
      BY <1>2, <2>3 DEF RecordInjectionFailure
    <3>2. left'[Here] \in 0..MaxDelay /\ left' = [left EXCEPT ![Here] = left'[Here]]
      BY <1>1, <3>1 DEF IInv, TypeInv, TypeOK
    <3>3. QED
      BY <2>3, <3>1, <3>2 DEF Contract!PutOff
  <2>4. QED
    BY <2>1, <2>2, <2>3
<1>7. Contract!Fail(Here)
  BY <1>2, <1>4, <1>5, <1>6 DEF Contract!Fail
<1>8. QED
  BY <1>1, <1>7 DEF Contract!Next

LEMMA ContractSkips ==
    ASSUME IInv, SkipSource
    PROVE  [Contract!Next]_(Contract!vars)
<1>1. /\ source > 0 /\ Here \in Container /\ elapsed = -1 /\ NextSource
      /\ passes \in [Container -> Nat]
      /\ attempts \in [Container -> 0..(MaxAttempts - 1)]
  BY ContractTypes DEF IInv, SkipSource
<1>2. UNCHANGED <<passes, processed, left, tried, cur, infos>>
  BY DEF SkipSource, cacheVars, mapVars
<1>3. CASE ~tried
  BY <1>2, <1>3, ContractStutter DEF Trying
<1>4. CASE tried
  <2>1. Trying = {Here} /\ Trying' \in {Trying, {}}
    BY <1>1, <1>2, <1>4, ContractMoves
  <2>2. passes[Here] >= MaxAttempts => Here \in processed
    <3>1. Here \notin processed => passes[Here] <= attempts[Here]
      BY <1>1 DEF IInv, BudgetInv, PassesCounted, Uncounted
    <3>2. QED
      BY <1>1, <3>1
  <2>3. CASE Trying' = Trying
    BY <1>2, <2>3, ContractStutter
  <2>4. CASE Trying' = {}
    <3>1. Contract!Leave(Here)
      BY <1>2, <2>1, <2>2, <2>4 DEF Contract!Leave
    <3>2. QED
      BY <1>1, <3>1 DEF Contract!Next
  <2>5. QED
    BY <2>1, <2>3, <2>4
<1>5. QED
  BY <1>3, <1>4

LEMMA ContractLookup ==
    ASSUME IInv, Lookup
    PROVE  [Contract!Next]_(Contract!vars)
<1>1. /\ UNCHANGED <<passes, processed, left, tried, source, cur, infos>>
      /\ slot' = slot \/ source = 0
  BY LookupShape DEF IInv, UnchangedByLookup, cacheVars, mapVars
<1>2. CASE slot' = slot
  BY <1>1, <1>2, ContractStutter DEF Trying, Here
<1>3. CASE source = 0
  BY <1>1, <1>3, ContractBetween
<1>4. QED
  BY <1>1, <1>2, <1>3

LEMMA ContractPass ==
    ASSUME IInv, IInv', Pass
    PROVE  [Contract!Next]_(Contract!vars)
<1>1. CASE ConsiderContainer
  BY <1>1, ContractBetween DEF ConsiderContainer, cacheVars, mapVars
<1>2. CASE EndPass
  <2>1. source = 0 /\ source' = 0 /\ UNCHANGED <<passes, processed, left>>
    BY <1>2 DEF EndPass, IInv, TypeInv, TypeOK, PassOK, mapVars
  <2>2. QED
    BY <2>1, ContractBetween
<1>3. QED
  BY <1>1, <1>2, ContractLookup, ContractSkips, ContractStart, ContractSucceeds, ContractFails
  DEF Pass, Lookup

LEMMA ContractRetrier ==
    ASSUME IInv, Retrier
    PROVE  [Contract!Next]_(Contract!vars)
<1>1. CASE RetrierStart \/ RetrierEnd
  BY <1>1, ContractFrame DEF RetrierStart, RetrierEnd, cacheVars, mapVars
<1>2. ASSUME NEW p \in Pods, RetrierVisit(p)
      PROVE  [Contract!Next]_(Contract!vars)
  <2>1. /\ UNCHANGED <<passes, processed, left, source>> /\ source = 0
    BY <1>2 DEF RetrierVisit, BeginPass, IInv, TypeInv, PassOK, cacheVars, mapVars, passVars
  <2>2. QED
    BY <2>1, ContractBetween
<1>3. QED
  BY <1>1, <1>2 DEF Retrier

LEMMA ContractSweeper ==
    ASSUME IInv, IInv', Sweeper
    PROVE  [Contract!Next]_(Contract!vars)
<1>1. TypeInv /\ TypeInv' /\ NoEntryNoWait
  BY DEF IInv, BudgetInv
<1>2. CASE SweepList \/ SweepPods
  BY <1>2, ContractFrame DEF SweepList, SweepPods, cacheVars, mapVars
<1>3. CASE SweepProcessed
  <2>1. /\ UNCHANGED <<left, passVars>>
        /\ processed' = processed \ (Container \ liveIds)
        /\ \A c \in Container : passes'[c] = IF c \in processed \ liveIds THEN 0 ELSE passes[c]
    BY <1>3 DEF SweepProcessed, ForgetProcessed, ForgetPasses
  <2>2. Contract!Next
    BY <1>1, <2>1, ContractForget
  <2>3. QED
    BY <2>2
<1>4. CASE SweepRetries
  <2>1. /\ UNCHANGED <<processed, passVars>>
        /\ \A c \in Container :
              /\ left'[c] = IF c \notin liveIds THEN 0 ELSE left[c]
              /\ passes'[c] = IF c \notin liveIds /\ attempts[c] > 0 THEN 0 ELSE passes[c]
    BY <1>4 DEF SweepRetries, ForgetRetries, ForgetPasses
  <2>2. \A c \in Container : attempts[c] > 0 \/ left[c] = 0
    BY <1>1, ContractTypes DEF NoEntryNoWait
  <2>3. Contract!Next
    BY <1>1, <2>1, <2>2, ContractForget
  <2>4. QED
    BY <2>3
<1>5. QED
  BY <1>2, <1>3, <1>4 DEF Sweeper

LEMMA ContractTick ==
    ASSUME Tick
    PROVE  [Contract!Next]_(Contract!vars)
<1>1. UNCHANGED <<passes, processed>> /\ Trying' = Trying
  BY DEF Tick, Trying, Here
<1>2. Contract!Elapse
  BY <1>1 DEF Tick, Contract!Elapse
<1>3. QED
  BY <1>2 DEF Contract!Next

LEMMA ContractStep ==
    ASSUME IInv, IInv', [Next]_vars
    PROVE  [Contract!Next]_(Contract!vars)
<1>1. CASE Environment
  <2>1. UNCHANGED SystemVars
    BY <1>1 DEF Environment, PodAdded, PodTouched, PodDeleted, PodUpdated, ConfigReloaded
  <2>2. QED
    BY <2>1, ContractFrame DEF SystemVars, cacheVars, mapVars
<1>2. CASE UNCHANGED vars
  BY <1>2, ContractFrame DEF vars, cacheVars, mapVars
<1>3. QED
  BY <1>1, <1>2, ContractLookup, ContractHandler, ContractPass, ContractRetrier,
     ContractSweeper, ContractTick
  DEF Next, Lookup

LEMMA ContractInit == Init => Contract!Init
BY DEF Init, Contract!Init, Trying

\* The pod cache keeps Injection's contract for every container, with and without the
\* sweeper: a command runs only in a container that is neither processed nor waiting, in
\* MaxAttempts passes at most unless it is forgotten in between, and the failure of the
\* last of them makes it processed.
THEOREM ImplementsInjectionHolds == Spec => ImplementsInjection
<1>1. QED
  BY ContractInit, ContractStep, InductiveInvariance, PTL
     DEF Spec, ImplementsInjection, Contract!Spec

=============================================================================
