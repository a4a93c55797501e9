----------------------------- MODULE PodInjection -----------------------------
(***************************************************************************)
(* The pod cache of the node helper and the injection of container ids     *)
(* into APM agents (cadvisor/scraper/pods).                                *)
(*                                                                         *)
(* Four goroutines share podsMap (under podsMapLock) and the two sync.Maps *)
(* processedContainers and injectionRetries:                               *)
(*   - the informer's handler: one notification at a time, in order;       *)
(*   - the retrier, woken by a 5 s ticker;                                 *)
(*   - the sweeper, woken by a 10 min ticker;                              *)
(*   - the clock, which runs while a command is being executed.            *)
(* A pass (process and executeInjection for the informer, executeInjection *)
(* alone for the retrier) keeps podsMapLock for as long as the commands it *)
(* runs in the container take and the container runtime takes to answer    *)
(* it, so at most one pass is under way.  A call to the runtime has no     *)
(* deadline.                                                               *)
(*                                                                         *)
(* Abstractions.  A container's name is its position in the pod; its id is *)
(* the pod, the position and the incarnation (a restart gives a new id).   *)
(* A retry entry's nextAt is kept as the time left until it.  The writes   *)
(* podsMap[uid] = *podInfo in the middle of a pass are merged into the one *)
(* that ends it: all are made under the lock.  Of process there is the     *)
(* waiting for the runtime; the PIDs it attaches are read by no guard      *)
(* here, and neither is the PID lookup that removePodFromCache empties.    *)
(***************************************************************************)
EXTENDS Integers, Sequences, FiniteSets

CONSTANTS Pods,            \* uids of the pods bound to this node
          NumSlots,        \* containers of a pod
          ApmSlots,        \* the containers whose env has POD_NAME (IsApm)
          MaxIncarnation,  \* bound: restarts of a container
          NumSources,      \* agent-path sources tried in order by a pass
          SteadySources,   \* those that yield a valid path on every pass
          MaxAttempts,     \* injectionMaxAttempts
          BaseDelay,       \* injectionRetryBaseDelay
          MaxDelay,        \* injectionRetryMaxDelay
          ExecTimeout,     \* kubeapi's bound on one command
          MaxQueue,        \* bound: notifications the handler lags behind
          Sweeping,        \* the sweeper's ticker has fired at least once
          Reconfigurable   \* inject_container_id_to_apm_agent_enabled may change

ASSUME ConstantsAssumption ==
    /\ NumSlots \in Nat \ {0}
    /\ ApmSlots \subseteq 1..NumSlots
    /\ MaxIncarnation \in Nat \ {0}
    /\ NumSources \in Nat \ {0}
    /\ SteadySources \subseteq 1..NumSources
    /\ MaxAttempts \in Nat \ {0}
    /\ BaseDelay \in Nat \ {0}
    /\ MaxDelay \in Nat
    /\ BaseDelay <= MaxDelay
    /\ ExecTimeout \in Nat
    /\ MaxQueue \in Nat
    /\ Sweeping \in BOOLEAN
    /\ Reconfigurable \in BOOLEAN

CONSTANT NoPod
ASSUME NoPodAssumption == NoPod \notin Pods

-----------------------------------------------------------------------------

Slots     == 1..NumSlots
Container == Pods \X Slots \X (1..MaxIncarnation)

\* What the handler reads of a container's status: inc = 0 is an empty ContainerID.
Status    == [inc : 0..MaxIncarnation, running : BOOLEAN]

\* SimpleContainerInfo: the status and ExecProcessed.
Info      == [inc : 0..MaxIncarnation, running : BOOLEAN, done : BOOLEAN]

NoStatus  == [i \in Slots |-> [inc |-> 0, running |-> FALSE]]
NoInfo    == [i \in Slots |-> [inc |-> 0, running |-> FALSE, done |-> FALSE]]

Id(p, i, s)  == <<p, i, s.inc>>
IdsOf(p, ss) == {Id(p, i, ss[i]) : i \in {j \in Slots : ss[j].inc # 0}}

VARIABLES
    life,        \* the informer's store: which pods there are
    store,       \* the informer's store: the statuses of a pod's containers
    queue,       \* notifications not yet handled
    cached,      \* the keys of podsMap
    podsMap,     \* uid -> SimplePodInfo
    processed,   \* processedContainers
    attempts,    \* injectionRetries: attempts (0: no entry)
    left,        \* injectionRetries: nextAt, as the time left until it
    enabled,     \* the configuration's InjectContainerIdToApmAgentEnabled
    lock,        \* who holds podsMapLock from one step to the next
    cur,         \* the pod whose pass is under way
    stage,       \* in process, or in executeInjection
    runtime,     \* the pass's call to the container runtime, if it has one under way
    infos,       \* its SimplePodInfo in the pass
    slot,        \* the container the pass is at
    source,      \* the source the pass is at (0: container not looked at yet)
    elapsed,     \* how long the command has been running (-1: none is)
    todo,        \* pods the retrier has not visited yet
    cleanup,     \* ids removePodFromCache still has to forget
    phase,       \* where the sweeper is
    liveUids,    \* what store.List told it: the pods
    liveIds,     \* and their containers' ids
    passes,      \* history: passes that ran a command, since the id was forgotten
    injected,    \* history: ids whose command succeeded, since they were forgotten
    tried,       \* history: the pass has run a command in this container
    counted      \* history: failures the pass has counted for this container

storeVars == <<life, store>>
podVars   == <<cached, podsMap>>
mapVars   == <<processed, attempts, left>>
cacheVars == <<podVars, mapVars>>
passVars  == <<cur, stage, runtime, infos, slot, source, elapsed, tried, counted>>
sweepVars == <<phase, liveUids, liveIds>>
vars      == <<storeVars, queue, cacheVars, enabled, lock, passVars, todo,
               cleanup, sweepVars, passes, injected>>

Kinds  == {"absent", "live", "deleted"}
Phases == {"idle", "listed", "pods", "processed"}

TypeOK ==
    /\ life \in [Pods -> Kinds]
    /\ store \in [Pods -> [Slots -> Status]]
    /\ queue \in Seq([gone : BOOLEAN, pod : Pods, slots : [Slots -> Status]])
    /\ cached \subseteq Pods
    /\ podsMap \in [Pods -> [Slots -> Info]]
    /\ processed \subseteq Container
    /\ attempts \in [Container -> 0..(MaxAttempts - 1)]
    /\ left \in [Container -> 0..MaxDelay]
    /\ enabled \in BOOLEAN
    /\ lock \in {"free", "informer", "retrier"}
    /\ cur \in Pods \cup {NoPod}
    /\ stage \in {"process", "inject"}
    /\ runtime \in {"idle", "asked", "answered"}
    /\ infos \in [Slots -> Info]
    /\ slot \in 1..(NumSlots + 1)
    /\ source \in 0..NumSources
    /\ elapsed \in -1..ExecTimeout
    /\ todo \subseteq Pods
    /\ cleanup \subseteq Container
    /\ phase \in Phases
    /\ liveUids \subseteq Pods
    /\ liveIds \subseteq Container
    /\ passes \in [Container -> Nat]
    /\ injected \subseteq Container
    /\ tried \in BOOLEAN
    /\ counted \in Nat

Init ==
    /\ life = [p \in Pods |-> "absent"]
    /\ store = [p \in Pods |-> NoStatus]
    /\ queue = <<>>
    /\ cached = {}
    /\ podsMap = [p \in Pods |-> NoInfo]
    /\ processed = {}
    /\ attempts = [c \in Container |-> 0]
    /\ left = [c \in Container |-> 0]
    /\ enabled = TRUE
    /\ lock = "free"
    /\ cur = NoPod
    /\ stage = "inject"
    /\ runtime = "idle"
    /\ infos = NoInfo
    /\ slot = 1
    /\ source = 0
    /\ elapsed = -1
    /\ todo = {}
    /\ cleanup = {}
    /\ phase = "idle"
    /\ liveUids = {}
    /\ liveIds = {}
    /\ passes = [c \in Container |-> 0]
    /\ injected = {}
    /\ tried = FALSE
    /\ counted = 0

-----------------------------------------------------------------------------
(***************************************************************************)
(* The environment: the API server, as the informer's store and the        *)
(* notifications it sends, and the configuration file.                     *)
(***************************************************************************)

Notify(p, gone, ss) ==
    /\ Len(queue) < MaxQueue
    /\ queue' = Append(queue, [gone |-> gone, pod |-> p, slots |-> ss])

SystemVars == <<cacheVars, lock, passVars, todo, cleanup, sweepVars, passes, injected>>

\* A pod appears (already started, when the agent is younger than the pod).
PodAdded(p) ==
    /\ life[p] = "absent"
    /\ life' = [life EXCEPT ![p] = "live"]
    /\ \E ss \in {NoStatus, [i \in Slots |-> [inc |-> 1, running |-> TRUE]]} :
          /\ store' = [store EXCEPT ![p] = ss]
          /\ Notify(p, FALSE, ss)
    /\ UNCHANGED <<SystemVars, enabled>>

\* A container starts, with an id it never had, or stops and keeps the one it has.
NextStatus(s) == IF s.running THEN [inc |-> s.inc, running |-> FALSE]
                              ELSE [inc |-> s.inc + 1, running |-> TRUE]

PodUpdated(p, i) ==
    /\ life[p] = "live"
    /\ NextStatus(store[p][i]).inc <= MaxIncarnation
    /\ LET ss == [store[p] EXCEPT ![i] = NextStatus(@)]
       IN  /\ store' = [store EXCEPT ![p] = ss]
           /\ Notify(p, FALSE, ss)
    /\ UNCHANGED <<SystemVars, life, enabled>>

\* An update that leaves the container statuses alone (a condition, a label).
PodTouched(p) ==
    /\ life[p] = "live"
    /\ Notify(p, FALSE, store[p])
    /\ UNCHANGED <<SystemVars, storeVars, enabled>>

\* The delete notification, or the tombstone that stands for it.
PodDeleted(p) ==
    /\ life[p] = "live"
    /\ life' = [life EXCEPT ![p] = "deleted"]
    /\ Notify(p, TRUE, store[p])
    /\ UNCHANGED <<SystemVars, store, enabled>>

ConfigReloaded ==
    /\ Reconfigurable
    /\ enabled' = ~enabled
    /\ UNCHANGED <<SystemVars, storeVars, queue>>

-----------------------------------------------------------------------------
(***************************************************************************)
(* The retry bookkeeping (injection_retry.go).                             *)
(***************************************************************************)

\* Doubled from the base at every attempt, until it reaches the maximum.
InjectionRetryDelay(n) ==
    LET delay == BaseDelay * 2^(n - 1)
    IN  IF n = 1 THEN BaseDelay
        ELSE IF delay \in 0..(MaxDelay - 1) THEN delay
        ELSE MaxDelay

\* Mutant: whoever has attempts left is due.
InjectionRetryDue_NotAsked(c) == attempts[c] < MaxAttempts

InjectionRetryDue(c) == attempts[c] = 0 \/ left[c] = 0

\* Mutant: one attempt too many.
GivesUp_OffByOne(c) == left[c] = 0 /\ attempts[c] + 1 > MaxAttempts

\* The failure that is one too many: the container becomes processed, its entry goes.
GivesUp(c) == left[c] = 0 /\ attempts[c] + 1 >= MaxAttempts

\* Mutant: giving up clears the entry and does not make the container processed.
RecordInjectionFailure_NotProcessed(c) ==
    /\ attempts' = [attempts EXCEPT ![c] = IF left[c] > 0 THEN @
                                           ELSE IF GivesUp(c) THEN 0 ELSE @ + 1]
    /\ left' = [left EXCEPT ![c] = IF left[c] > 0 THEN @
                                   ELSE IF GivesUp(c) THEN 0
                                   ELSE InjectionRetryDelay(attempts[c] + 1)]
    /\ UNCHANGED processed

\* A failure before the retry time is not counted.
RecordInjectionFailure(c) ==
    IF left[c] > 0 THEN UNCHANGED <<mapVars>>
    ELSE IF GivesUp(c) THEN
        /\ attempts' = [attempts EXCEPT ![c] = 0]
        /\ processed' = processed \cup {c}
        /\ UNCHANGED left
    ELSE
        /\ attempts' = [attempts EXCEPT ![c] = @ + 1]
        /\ left' = [left EXCEPT ![c] = InjectionRetryDelay(attempts[c] + 1)]
        /\ UNCHANGED processed

\* Mutant: only the retry entry is cleared.
MarkInjectionDone_NotStored(c) ==
    /\ attempts' = [attempts EXCEPT ![c] = 0]
    /\ left' = [left EXCEPT ![c] = 0]
    /\ UNCHANGED processed

MarkInjectionDone(c) ==
    /\ processed' = processed \cup {c}
    /\ attempts' = [attempts EXCEPT ![c] = 0]
    /\ left' = [left EXCEPT ![c] = 0]

\* Mutant: only containers without a retry entry are looked for.
HasDueInjection_NotPending(p) ==
    \E i \in ApmSlots :
        LET s == podsMap[p][i]
        IN  ~s.done /\ s.inc # 0 /\ s.running /\ attempts[Id(p, i, s)] = 0

HasDueInjection(p) ==
    \E i \in ApmSlots :
        LET s == podsMap[p][i]
            c == Id(p, i, s)
        IN  /\ ~s.done /\ s.inc # 0 /\ s.running
            /\ attempts[c] > 0 /\ InjectionRetryDue(c)

-----------------------------------------------------------------------------
(***************************************************************************)
(* The informer's handler.                                                 *)
(***************************************************************************)

\* Mutant: ExecProcessed starts as false on every event.
CreateSimplePodInfo_Fresh(p, ss) ==
    [i \in Slots |-> [inc |-> ss[i].inc, running |-> ss[i].running, done |-> FALSE]]

\* ExecProcessed of an APM container with an id comes from processedContainers.
CreateSimplePodInfo(p, ss) ==
    [i \in Slots |->
        [inc     |-> ss[i].inc,
         running |-> ss[i].running,
         done    |-> i \in ApmSlots /\ ss[i].inc # 0 /\ Id(p, i, ss[i]) \in processed]]

\* Mutant: a pod that is already there keeps its information.
StorePod_KeepsFirst(p, si) ==
    /\ cached' = cached \cup {p}
    /\ podsMap' = IF p \in cached THEN podsMap ELSE [podsMap EXCEPT ![p] = si]

StorePod(p, si) ==
    /\ cached' = cached \cup {p}
    /\ podsMap' = [podsMap EXCEPT ![p] = si]

EvictPods(P) ==
    /\ cached' = cached \ P
    /\ podsMap' = [p \in Pods |-> IF p \in P THEN NoInfo ELSE podsMap[p]]

BeginPass(p, si, st) ==
    /\ cur' = p
    /\ infos' = si
    /\ stage' = st
    /\ UNCHANGED <<runtime, slot, source, elapsed, tried, counted>>

\* processPodsMap: lock, rebuild the pod's information and look up the PIDs of its
\* containers; the pass that begins here stores it (EndPass), injection or not.
HandleUpsert ==
    /\ queue # <<>> /\ ~Head(queue).gone /\ cleanup = {}
    /\ lock = "free"
    /\ lock' = "informer"
    /\ LET p == Head(queue).pod
       IN  BeginPass(p, CreateSimplePodInfo(p, Head(queue).slots), "process")
    /\ queue' = Tail(queue)
    /\ UNCHANGED <<storeVars, cacheVars, enabled, todo, cleanup, sweepVars,
                   passes, injected>>

\* Mutant: the pod is removed without waiting for podsMapLock.
HandleDelete_NoLock ==
    /\ queue # <<>> /\ Head(queue).gone /\ cleanup = {}
    /\ lock # "informer"
    /\ LET p == Head(queue).pod
       IN  /\ EvictPods({p})
           /\ cleanup' = IF p \in cached THEN IdsOf(p, podsMap[p]) ELSE {}
    /\ queue' = Tail(queue)
    /\ UNCHANGED <<storeVars, mapVars, enabled, lock, passVars, todo,
                   sweepVars, passes, injected>>

\* podDeleteHandler and removePodFromCache's critical section.
HandleDelete ==
    /\ queue # <<>> /\ Head(queue).gone /\ cleanup = {}
    /\ lock = "free"
    /\ LET p == Head(queue).pod
       IN  IF p \in cached
           THEN EvictPods({p}) /\ cleanup' = IdsOf(p, podsMap[p])
           ELSE UNCHANGED <<podVars, cleanup>>
    /\ queue' = Tail(queue)
    /\ UNCHANGED <<storeVars, mapVars, enabled, lock, passVars, todo,
                   sweepVars, passes, injected>>

ForgetProcessed(C) ==
    /\ processed' = processed \ C
    /\ injected' = injected \ C

\* Mutant: retry entries are left behind.
ForgetRetries_Kept(C) == UNCHANGED <<attempts, left>>

ForgetRetries(C) ==
    /\ attempts' = [c \in Container |-> IF c \in C THEN 0 ELSE attempts[c]]
    /\ left' = [c \in Container |-> IF c \in C THEN 0 ELSE left[c]]

ForgetPasses(C) == passes' = [c \in Container |-> IF c \in C THEN 0 ELSE passes[c]]

\* The rest of removePodFromCache, after the unlock: one container of the pod.
CleanupContainer ==
    /\ \E c \in cleanup :
          /\ ForgetProcessed({c})
          /\ ForgetRetries({c})
          /\ ForgetPasses({c})
          /\ cleanup' = cleanup \ {c}
    /\ UNCHANGED <<storeVars, queue, podVars, enabled, lock, passVars, todo, sweepVars>>

-----------------------------------------------------------------------------
(***************************************************************************)
(* A pass: process and executeInjection by the informer, executeInjection  *)
(* by the retrier.                                                         *)
(***************************************************************************)

Here == Id(cur, slot, infos[slot])

Eligible ==
    /\ infos[slot].inc # 0 /\ infos[slot].running
    /\ slot \in ApmSlots
    /\ ~infos[slot].done
    /\ InjectionRetryDue(Here)

Marked(info, done) == [inc |-> info.inc, running |-> info.running, done |-> done]

NextSlot == slot' = slot + 1 /\ source' = 0

\* The next agent-path source, or the next container after the last one.
NextSource ==
    IF source = NumSources
    THEN NextSlot
    ELSE source' = source + 1 /\ UNCHANGED slot

UnchangedByPass == UNCHANGED <<storeVars, queue, enabled, todo, cleanup, sweepVars>>

UnchangedByLookup ==
    /\ UNCHANGED <<cacheVars, lock, cur, infos, source, elapsed, tried, counted,
                   passes, injected>>
    /\ UnchangedByPass

\* process: a running container's PID is known (within its TTL, or from cri-o's files)
\* or asked of docker or containerd; an answer that is an error ends the look as well.
ProcessContainer ==
    /\ cur # NoPod /\ stage = "process" /\ slot <= NumSlots
    /\ \/ /\ runtime = "idle"
          /\ slot' = slot + 1 /\ UNCHANGED runtime
       \/ /\ runtime = "idle" /\ infos[slot].inc # 0 /\ infos[slot].running
          /\ runtime' = "asked" /\ UNCHANGED slot
       \/ /\ runtime = "answered"
          /\ runtime' = "idle" /\ slot' = slot + 1
    /\ UNCHANGED stage
    /\ UnchangedByLookup

\* processPodsMap looks at the configuration, for a pod that has an APM container.
BeginInjection ==
    /\ cur # NoPod /\ stage = "process" /\ slot > NumSlots
    /\ stage' = "inject"
    /\ slot' = IF ApmSlots # {} /\ enabled THEN 1 ELSE slot
    /\ UNCHANGED runtime
    /\ UnchangedByLookup

\* InspectWhatapAgentPath: the last source is the runtime's API.
AskForPath ==
    /\ cur # NoPod /\ source = NumSources /\ elapsed = -1
    /\ runtime = "idle"
    /\ runtime' = "asked"
    /\ UNCHANGED <<stage, slot>>
    /\ UnchangedByLookup

\* The runtime returns the call, with an answer or an error; nothing makes it do so.
RuntimeAnswered ==
    /\ runtime = "asked"
    /\ runtime' = "answered"
    /\ UNCHANGED <<stage, slot>>
    /\ UnchangedByLookup

\* What the source says of the path is there: of the last one, when the runtime has answered.
PathKnown == runtime = IF source = NumSources THEN "answered" ELSE "idle"

ConsiderContainer ==
    /\ cur # NoPod /\ stage = "inject" /\ slot <= NumSlots /\ source = 0
    /\ IF Eligible
       THEN source' = 1 /\ UNCHANGED slot
       ELSE NextSlot
    /\ tried' = FALSE
    /\ counted' = 0
    /\ UNCHANGED <<cacheVars, lock, cur, stage, runtime, infos, elapsed, passes, injected>>
    /\ UnchangedByPass

\* The source has no path, an invalid one, or cannot be read.
SkipSource ==
    /\ cur # NoPod /\ source > 0 /\ elapsed = -1 /\ PathKnown
    /\ source \notin SteadySources
    /\ NextSource
    /\ runtime' = "idle"
    /\ UNCHANGED <<cacheVars, lock, cur, stage, infos, elapsed, tried, counted, passes,
                   injected>>
    /\ UnchangedByPass

\* execCall: the command starts in the container.
ExecStart ==
    /\ cur # NoPod /\ source > 0 /\ elapsed = -1 /\ PathKnown
    /\ elapsed' = 0
    /\ runtime' = "idle"
    /\ tried' = TRUE
    /\ passes' = [passes EXCEPT ![Here] = IF tried THEN @ ELSE @ + 1]
    /\ UNCHANGED <<cacheVars, lock, cur, stage, infos, slot, source, counted, injected>>
    /\ UnchangedByPass

\* The command succeeds: the container is done with, whatever sources are left.
ExecSucceeds ==
    /\ cur # NoPod /\ source > 0 /\ elapsed >= 0
    /\ elapsed' = -1
    /\ MarkInjectionDone(Here)
    /\ infos' = [infos EXCEPT ![slot] = Marked(@, TRUE)]
    /\ injected' = injected \cup {Here}
    /\ NextSlot
    /\ UNCHANGED <<podVars, lock, cur, stage, runtime, passes, tried, counted>>
    /\ UnchangedByPass

\* The command fails or times out: the next source is tried, even after giving up.
ExecFails ==
    /\ cur # NoPod /\ source > 0 /\ elapsed >= 0
    /\ elapsed' = -1
    /\ RecordInjectionFailure(Here)
    /\ infos' = [infos EXCEPT ![slot] = Marked(@, @.done \/ GivesUp(Here))]
    /\ NextSource
    /\ counted' = IF left[Here] = 0 THEN counted + 1 ELSE counted
    /\ UNCHANGED <<podVars, lock, cur, stage, runtime, tried, passes, injected>>
    /\ UnchangedByPass

\* Mutant: the handler returns without unlocking.
UnlockAfterPass_Missing == UNCHANGED lock

UnlockAfterPass == lock' = IF lock = "informer" THEN "free" ELSE lock

\* The information is stored; the informer unlocks, the retrier goes on to its next pod.
EndPass ==
    /\ cur # NoPod /\ stage = "inject" /\ slot > NumSlots
    /\ StorePod(cur, infos)
    /\ cur' = NoPod
    /\ infos' = NoInfo
    /\ slot' = 1
    /\ tried' = FALSE
    /\ counted' = 0
    /\ todo' = todo \ {cur}
    /\ UnlockAfterPass
    /\ UNCHANGED <<storeVars, queue, mapVars, enabled, stage, runtime, source, elapsed,
                   cleanup, sweepVars, passes, injected>>

-----------------------------------------------------------------------------
(***************************************************************************)
(* The retrier (retryPendingInjections), the sweeper (sweepPodCaches) and  *)
(* the clock.                                                              *)
(***************************************************************************)

\* A tick of the retrier that finds no due container changes nothing.
RetrierStart ==
    /\ lock = "free" /\ enabled
    /\ \E p \in cached : HasDueInjection(p)
    /\ lock' = "retrier"
    /\ todo' = cached
    /\ UNCHANGED <<storeVars, queue, cacheVars, enabled, passVars, cleanup, sweepVars,
                   passes, injected>>

\* executeInjection looks at the configuration again.
RetrierVisit(p) ==
    /\ lock = "retrier" /\ cur = NoPod /\ p \in todo
    /\ IF HasDueInjection(p) /\ enabled
       THEN BeginPass(p, podsMap[p], "inject") /\ UNCHANGED todo
       ELSE todo' = todo \ {p} /\ UNCHANGED passVars
    /\ UNCHANGED <<storeVars, queue, cacheVars, enabled, lock, cleanup, sweepVars,
                   passes, injected>>

RetrierEnd ==
    /\ lock = "retrier" /\ cur = NoPod /\ todo = {}
    /\ lock' = "free"
    /\ UNCHANGED <<storeVars, queue, cacheVars, enabled, passVars, todo, cleanup, sweepVars,
                   passes, injected>>

LivePods == {p \in Pods : life[p] = "live"}

\* store.List(), before podsMapLock is taken.
SweepList ==
    /\ Sweeping
    /\ phase = "idle"
    /\ phase' = "listed"
    /\ liveUids' = LivePods
    /\ liveIds' = UNION {IdsOf(p, store[p]) : p \in LivePods}
    /\ UNCHANGED <<storeVars, queue, cacheVars, enabled, lock, passVars, todo, cleanup,
                   passes, injected>>

SweepPods ==
    /\ phase = "listed" /\ lock = "free"
    /\ EvictPods(cached \ liveUids)
    /\ phase' = "pods"
    /\ UNCHANGED <<storeVars, queue, mapVars, enabled, lock, passVars, todo, cleanup,
                   liveUids, liveIds, passes, injected>>

\* The two Range calls, after the unlock and without it.
SweepProcessed ==
    /\ phase = "pods"
    /\ ForgetProcessed(Container \ liveIds)
    /\ ForgetPasses(processed \ liveIds)
    /\ phase' = "processed"
    /\ UNCHANGED <<storeVars, queue, podVars, attempts, left, enabled, lock, passVars,
                   todo, cleanup, liveUids, liveIds>>

SweepRetries ==
    /\ phase = "processed"
    /\ ForgetRetries(Container \ liveIds)
    /\ ForgetPasses({c \in Container \ liveIds : attempts[c] > 0})
    /\ phase' = "idle"
    /\ liveUids' = {}
    /\ liveIds' = {}
    /\ UNCHANGED <<storeVars, queue, podVars, processed, enabled, lock, passVars, todo,
                   cleanup, injected>>

\* Time passes: a retry time comes closer, a command runs on, up to its timeout.
Tick ==
    /\ elapsed < ExecTimeout
    /\ elapsed >= 0 \/ \E c \in Container : left[c] > 0
    /\ left' = [c \in Container |-> IF left[c] > 0 THEN left[c] - 1 ELSE 0]
    /\ elapsed' = IF elapsed >= 0 THEN elapsed + 1 ELSE elapsed
    /\ UNCHANGED <<storeVars, queue, podVars, processed, attempts, enabled, lock, cur,
                   stage, runtime, infos, slot, source, tried, counted, todo, cleanup, sweepVars,
                   passes, injected>>

-----------------------------------------------------------------------------

Environment ==
    \/ \E p \in Pods : PodAdded(p) \/ PodTouched(p) \/ PodDeleted(p)
    \/ \E p \in Pods, i \in Slots : PodUpdated(p, i)
    \/ ConfigReloaded

Handler == HandleUpsert \/ HandleDelete \/ CleanupContainer

Pass == \/ ProcessContainer \/ BeginInjection
        \/ ConsiderContainer \/ AskForPath \/ SkipSource
        \/ ExecStart \/ ExecSucceeds \/ ExecFails \/ EndPass

Retrier == RetrierStart \/ (\E p \in Pods : RetrierVisit(p)) \/ RetrierEnd

Sweeper == SweepList \/ SweepPods \/ SweepProcessed \/ SweepRetries

Next == Environment \/ RuntimeAnswered \/ Handler \/ Pass \/ Retrier \/ Sweeper \/ Tick

Spec == Init /\ [][Next]_vars

\* The goroutines keep running and commands end, by themselves or by their timeout.
\* podsMapLock is a sync.RWMutex: one that waits for it gets it in the end, whoever
\* else asks for it (strong fairness).  A pass that waits for the runtime has no step.
Fairness ==
    /\ SF_vars(HandleUpsert) /\ SF_vars(HandleDelete) /\ WF_vars(CleanupContainer)
    /\ WF_vars(Pass)
    /\ SF_vars(RetrierStart) /\ WF_vars(Retrier)
    /\ WF_vars(SweepList) /\ SF_vars(SweepPods)
    /\ WF_vars(SweepProcessed) /\ WF_vars(SweepRetries)
    /\ WF_vars(Tick)

\* What the code does not see to: docker and containerd are called with a context that
\* has no deadline, under podsMapLock; it is assumed that they return every call.
RuntimeAnswers == WF_vars(RuntimeAnswered)

FairSpec == Spec /\ Fairness /\ RuntimeAnswers

-----------------------------------------------------------------------------
(***************************************************************************)
(* Properties.                                                             *)
(***************************************************************************)

ApmContainer(p, i) == i \in ApmSlots /\ podsMap[p][i].inc # 0

\* Injection is given up after injectionMaxAttempts: however events, retries and
\* double-counted failures interleave, no container sees more passes that run a
\* command in it, unless a deletion or a sweep has forgotten it in between.
PassBudget == \A c \in Container : passes[c] <= MaxAttempts

\* A container whose command has succeeded is left alone for as long as that is
\* remembered: neither a later event nor the retrier runs the command again.
NoReinjection == [][elapsed = -1 /\ elapsed' # -1 => Here \notin injected]_vars

\* The container a pass has run a command in, for as long as the pass is at it.
Trying == IF tried /\ source > 0 THEN {Here} ELSE {}

Contract == INSTANCE Injection WITH
    Containers <- Container,
    tries      <- passes,
    finished   <- processed,
    wait       <- left,
    trying     <- Trying

\* What a container is promised, whoever passes: it is tried only while it is not
\* processed and its retry time has come, injectionMaxAttempts times at most, and the
\* failure of the last of them makes it processed.  A deletion or a sweep that forgets
\* that it is processed, or that it waits, starts its count again.
ImplementsInjection == Contract!Spec

\* Between passes, what the retrier reads (ExecProcessed in podsMap) never lags behind
\* what the handler reads (processedContainers): it would run a finished container again.
ProcessedIsMarked ==
    \A p \in Pods, i \in Slots :
        /\ p \in cached /\ p # cur /\ ApmContainer(p, i)
        /\ Id(p, i, podsMap[p][i]) \in processed
        => podsMap[p][i].done

\* And the other way round: a container marked done in podsMap is in processedContainers,
\* so that the next event does not run the command again.  A racing sweep breaks this.
MarkedIsProcessed ==
    \A p \in Pods, i \in Slots :
        /\ p \in cached /\ ApmContainer(p, i) /\ podsMap[p][i].done
        => Id(p, i, podsMap[p][i]) \in processed

Pending(p)  == \E k \in 1..Len(queue) : queue[k].pod = p
Handled(p)  == ~Pending(p) /\ ~(cur = p /\ lock = "informer")

\* Once its notifications are handled, a live pod is in podsMap with the statuses the
\* API server has: the retrier works on it, and HTTP requests see it.
LivePodsCached ==
    \A p \in Pods : life[p] = "live" /\ Handled(p) =>
        /\ p \in cached
        /\ \A i \in Slots : /\ podsMap[p][i].inc = store[p][i].inc
                            /\ podsMap[p][i].running = store[p][i].running

\* Once its deletion is handled, nothing is kept of a pod or of its last containers.
DeletedPodsForgotten ==
    \A p \in Pods : life[p] = "deleted" /\ Handled(p) =>
        /\ p \notin cached
        /\ \A c \in IdsOf(p, store[p]) \ cleanup :
              c \notin processed /\ attempts[c] = 0

Current(p, i, c) == /\ life[p] = "live" /\ store[p][i].running
                    /\ c = Id(p, i, store[p][i])

\* A failed injection is retried until it succeeds or is given up, with no help from
\* further events, as long as the container runs, injection stays enabled and the
\* runtime returns the calls made of it.
RetriedToTheEnd ==
    \A p \in Pods, i \in ApmSlots, n \in 1..MaxIncarnation :
        LET c == <<p, i, n>>
        IN  attempts[c] > 0 /\ c \notin processed
               ~> c \in processed \/ ~Current(p, i, c) \/ ~enabled

\* Whoever takes podsMapLock releases it, as long as the runtime answers: a command that
\* hangs delays the others only (its call has a timeout, the runtime's have none).
LockReleased == (lock # "free") ~> (lock = "free")

Dead(c) == \/ life[c[1]] = "deleted"
           \/ c[3] < store[c[1]][c[2]].inc

\* What is remembered of a container that is gone, which the deletion handler cannot
\* know (an earlier incarnation, a pod the sweeper has evicted), is forgotten for good.
LeakReclaimed ==
    \A c \in Container : Dead(c) ~> [](c \notin processed /\ attempts[c] = 0)

\* A pass counts at most one failed attempt of a container.
OneAttemptPerPass == counted <= 1

=============================================================================
