# Specifications of agentKubeGo

TLA+ models of the WhaTap Kubernetes agents in this repository, the TLC
configurations that check them on small instances, and TLAPS proofs of the
properties that matter most for every value of the constants. `PROJECT.json`
lists components, runs, mutants, hazards, findings and theorems, and maps every
definition to the lines it stands for.

    cd tla
    tlc -config inject_pods.cfg MCPodInjection.tla      # a run
    tlapm PodInjection_proofs.tla                       # the proofs of a module

## 1. The system

The repository builds two long-running programs and one command-line tool.

* The **node helper** (`cadvisor/`) runs on every node. It watches the node's
  pods, writes container ids into the APM agents that run in them, and answers
  the master agent's HTTP requests with the statistics of containers, processes
  and disks.
* The **control-plane helper** (`controlplane/`) discovers the API servers,
  schedulers and etcd members, scrapes their `/metrics` every few seconds, and
  serves chosen metrics over HTTP.
* The **debugger** (`debugger/`) sends three requests, one after the other, to the
  configuration base, the master agent and the node agent, and prints the answers;
  another of its commands prints what the container runtime says.

`tools/` holds what they share: configuration files, logging, linked maps,
binary encoding, a pool.

### 1.1 Inventory

| Part | State | Operations | Hard behaviours | What makes it correct |
|---|---|---|---|---|
| Pod cache and injection (`cadvisor/scraper/pods`) | `podsMap` under `podsMapLock`; `processedContainers`, `injectionRetries` (sync.Maps); the informer's store | `podEventHandler`, `podDeleteHandler`, `executeInjection`, `retryPendingInjections`, `sweepPodCaches` | four goroutines; commands of up to 30 s, and calls of the container runtime without a deadline, with the lock held; backoff and giving up; the sweeper works from a listing that is older than its lock | bounded attempts, no repeated injection, failures retried to the end, live pods cached, dead ones forgotten |
| PID cache (`cadvisor/pkg/proc`) | `containerPidLookup`, `lastPidLookupSweepAt` | `GetContainerPid`, `RemoveContainerPid`, the sweep | the runtime is asked between two critical sections; lookups overtake each other and deletions | an answer is no older than its TTL; dead entries go |
| containerd client (`cadvisor/pkg/client`) | `containerdClient`, `containerdNamespaces` under `mu` | `GetContainerdClient`, `LoadContainerD`, `resetContainerdClient` | namespaces read without `mu`; a reset closes whichever client is current | one connection; a client without namespaces is replaced |
| Discovery (`controlplane/scraper/*/..._discovery.go`) | `endPointsMap`, `schedulerPodIpCache` | the informer's handlers, `reloadSchedulerInfo` | one deletion empties the map; the IP map is replaced and filled while it is read | the map follows the objects |
| Scrapers and caches (`controlplane/scraper`) | one metrics cache each | `collectMetrics`, `fetchMetrics`, `mergeMetricsData` | fan-out over targets, error paths, a collection abandoned half-way, panics and restarts, no timeouts | one response never mixes collections; every collection ends |
| Control-plane handlers (`controlplane/router`) | none | one handler per metric | absent metrics, records built over several metrics | absent means empty; each instance has its own counts |
| Configuration reload (`cadvisor/pkg/config`) | the shared `conf`, `last_file_time`, `last_check` | `reload`, `apply`, observers | whole-second modification times, a file that disappears, fields read while they are assigned | the last version is loaded in the end |
| Logger (`tools/util/logutil`) | the open file, level, day, per-id times | `process`, `update`, `SetLogSysOut`, the rate-limited prints | rotation at midnight, output set while no file is open | the open file is today's |
| Linked maps (`tools/util/hmap`), the entries of `MapValue` | a hash table threaded by a doubly linked list | `Put*`, `Remove*`, `Sort`, enumerations | a capacity, four put modes, a mutex that is not reentrant | table and list hold the same keys; calls return |
| Rates (`cadvisor/tools/osinfo`) | last measurements by key | load, measure, save, compute | requests side by side, counters that restart, differences of zero | a rate is between two measurements in order |
| Mount-point cache (`cadvisor/handler`) | `initialMountPointsCache` | `populateFileValues` | filled by requests side by side | every mount once |
| Process count (`cadvisor/pkg/processcount`) | none | `Collect` | processes and procfs change during the scan | a count is of one procfs |
| Container statistics (`cadvisor/handler`, `pkg/containerd`, `docker`, `crio`, `cgroup`) | restart counts by id with a time, the detected control-group version, two locks | statistics, inspection, volumes, ports, logs, the list | a file or call of many that fails, a lock held over a call, a container that ends or a PID that is reused in the middle, a reload that writes the version | an answer is whole and about the container that was asked for; locks are released |
| Encoding (`tools/io`, `tools/lang/value`) | a buffer and a position | write and read of numbers, texts and tagged values | lengths at the boundaries of the variable-length forms | what is written is read back |
| Pool, singleton, safe loops (`tools/util`) | a channel, a flag, maps | `Get`, `Put`, `Close`; `Start` | closing while others wait | no one waits for ever |

Interactions. The pods' handler calls `GetContainerPid` under `podsMapLock`,
and `removePodFromCache` calls `RemoveContainerPid` after it has released it.
HTTP requests call `GetContainerPid` side by side with both. Both caches of the
node helper read the shared configuration, which a goroutine of its own reloads.
In the control-plane helper, discovery writes what collections read, and
collections write what HTTP handlers read.

### 1.2 Not modelled, and why

* The clients, the token and the flags of the control-plane helper are made once,
  before anything runs beside them. How its handlers fold a family's metrics into
  records is a function of the cache; `ControlPlane` leaves the numbers out.
* The property files (`tools/util/properties`) are a copy of a third-party
  library. `ConfigReload` takes of it that a load yields the file's keys or ends
  the process.
* Text, address and file utilities, and the way an agent's path is found in an
  environment or a command line, are stateless text processing that unit tests
  reach.
* The pool (`tools/util/pool`) has no caller, the process helpers start one command
  and wait. The macOS sources are for development.
* The debugger's `containerd` command asks the runtime once and prints.
* Within modelled parts: the numbers in a container's files, memory, input and
  output of a process, sizes and rates of a disk, the wording of every answer.

## 2. The modules

| Module | Role |
|---|---|
| `Injection` | what injection promises of each container: tries, waits, an end |
| `PodInjection` | the pod cache and the injection of container ids; implements `Injection` |
| `ControlPlane` | discovery, the three scrapers, the caches that are served |
| `ContainerLookup` | the PID cache and the containerd client |
| `OrderedMap` | what a linked map promises: a content and an order |
| `LinkedMap` | the three linked maps; implements `OrderedMap` |
| `Logger` | the log file and its rotation |
| `ConfigReload` | the property file and its reload, which drives `Logger` (extends it) |
| `ContainerStats` | the requests about containers |
| `ProcessRates` | the requests about processes and their number |
| `DiskRates` | the requests about disks |
| `NodeHelper` | the node helper's HTTP server: composes the three above |
| `DataX` | bytes, numbers, texts and arrays of the binary encoding |
| `Values` | the tagged values written and read with `DataX` |
| `Confbase` | the debugger's run: maps of `Values` over connections |
| `MC...` | instances of these for TLC |
| `PodInjection_proofs`, `ControlPlane_proofs`, `ContainerLookup_proofs`, `LinkedMap_proofs`, `ConfigReload_proofs`, `DataX_proofs` | theorems about the module of that name |
| `ContainerStats_proofs` | theorems about the requests about containers, as `NodeHelper` serves them |
| `Rates_proofs` | theorems about `ProcessRates` and `DiskRates`, as `NodeHelper` serves them, and the type invariant of the whole server (extends `ContainerStats_proofs`) |

Operators whose name has a suffix after an underscore (`GivesUp_OffByOne`) are
mutants: each is a plausible bug in the definition that follows it, and breaks
the property `PROJECT.json` names with it. No specification uses them.

### 2.1 PodInjection

*State.* `cached`/`podsMap` are `podsMap` (its keys, its values);
`processed` is `processedContainers`; `attempts`/`left` are `injectionRetries`
(the time left until `nextAt`); `lock` says who holds `podsMapLock` from one
step to the next. `life`/`store`/`queue` are the informer: its store and the
notifications its handler has not seen. `cur`, `infos`, `slot`, `source`,
`elapsed` are the locals of a pass: pod, information, container, agent-path
source, duration of the command that is running; `stage` is whether it is in
`process` or in `executeInjection`, and `runtime` whether it waits for the container
runtime.

*Actions.* `HandleUpsert` is `processPodsMap` up to the pass; `HandleDelete` and
`CleanupContainer` are `removePodFromCache`, cut where it releases the lock. The
handler's pass begins with `process`: `ProcessContainer` finds the PID of a running
container in the cache or asks the runtime, and `BeginInjection` goes on to
`executeInjection`, where the retrier's pass starts: `ConsiderContainer` (the skips
at the top of its loop), `AskForPath` (`InspectWhatapAgentPath`, for the last
source), `SkipSource`, `ExecStart`, `ExecSucceeds`, `ExecFails` (`execCall`) and
`EndPass`. `RuntimeAnswered` is the runtime's: the return of a call, with an answer
or an error.
`RetrierStart`, `RetrierVisit`, `RetrierEnd` are `retryPendingInjections`;
`SweepList`, `SweepPods`, `SweepProcessed`, `SweepRetries` are `sweepPodCaches`,
cut where it locks and unlocks; `Tick` is the clock.

*Atomicity.* What runs under `podsMapLock` cannot be observed half-way by
another critical section, so a step ends where the lock is taken or released, where
a command runs (time passes then), or where the pass waits for the runtime (which
may be for ever). The sweeper's two `Range` calls take no lock:
each is one step between any two steps of a pass. The load and the store of
`recordInjectionFailure` are one step.

*Abstractions.* A container's id is its pod, position and incarnation. A source
has a valid path (`SteadySources`), or has one on some passes. The twelve-odd
sources of the code are two. Writes to `podsMap` within a pass, all under the
lock, are merged into the last one. The PIDs that `process` attaches are read by
no guard. Of the runtime's calls, the two that have no deadline are steps; those
that have one (`javaenv.Inspect`, 3 s, for a path in the process's environment) are
part of the step of their source.

*Environment.* Pods appear (with or without their containers started), containers
stop and start with new ids, updates that change nothing arrive, pods are
deleted. The configuration may switch injection off and on. Notifications are
handled in order and none is lost: that is the informer's contract, tombstones
included.

*History variables.* `passes` counts the passes that ran a command in a
container, `injected` the successes, both since the container was last
forgotten; `tried`, `counted` are about the current pass.

*Contract.* `Injection` knows neither pods nor locks: a container has tries, may
have to wait, and is finished in the end. `Contract` maps its variables: a try is a
pass that has run a command in the container and is still at it (`Trying`), tries
are `passes`, the finished are `processedContainers`, the wait is `left`. Its
`Fail` may give up before the last try, because the code counts more than one
failure in a pass with long commands (`inject_one_attempt`); its `Forget` ties what
may be forgotten together: whoever forgets that a container is processed or waits
forgets its tries. `ImplementsInjection` says that `PodInjection` implements it.

### 2.2 ControlPlane

One module for the three scrapers, which have the same shape; `kind` says which
one a behaviour is about. `UpdateURLs`/`HandleDelete` are the Endpoints handlers,
`ReloadBegin`/`ReloadStore` are `reloadSchedulerInfo` (a pod at a time).
`CollectBegin` and `CollectAborted` are `collectMetrics` up to the wait,
`FetchReturns` and `FetchFails` are a fetching goroutine, `Merge` is what follows
when all have sent. A metric is abstracted to the target and the collection it is
from. A goroutine that outlives its collection sends into a channel nobody
reads. `Restart` is the kubelet's: the process starts with empty maps, and the
informer lists every object again.

### 2.3 ContainerLookup

Requests are processes with a program counter (`pc`) and the locals of
`GetContainerPid` and `LoadContainerD`. Every critical section is a step, and so
is every call of the runtime between them. `containerdNamespaces` is read
without `mu` in two steps, as in the code; `mu` is held over two steps only while
a new client lists its namespaces.

Times are ages: an entry's age is `now - timestamp` of a request that would start
now; a request's own `now` is `since` ago, and ages it compares are taken
relative to that. Ages stop at `OldAge`, from where on no comparison tells them
apart. A client is a number, used again once nobody holds it.

*Environment.* A container's process starts (with a PID it never had), stops, is
removed; the pods' handler forgets a removed container; the daemon goes away and
comes back. A stopped container has PID 0 in docker and cri-o, no task in
containerd; the runtime's answer is that of the moment it is asked. Of a client
that was closed under it, a request only learns that the container is not found:
`isGrpcConnectionError` does not know that error.

### 2.4 LinkedMap and OrderedMap

`kind` says which of `IntKeyLinkedMap`, `StringKeyLinkedMap` and `IntLinkedSet` a
behaviour is about. `table` is the array of buckets, each with the entries of its
chain (keys differ within one, so no caller can tell in which order they stand);
`heap` is the entries with their key, value and the two links; `max` the limit. Methods
under the mutex are one step (`Put`, `RemoveKey`, `Clear`, `Sort`, `GetLRU`); what
is done without it is cut: `RemoveEndBegin`/`RemoveEnd` ask `IsEmpty` first, and
`Enumerate`/`NextElement`/`EndEnumeration` hold nothing. A bucket's number is the
hash of the key as each class computes it, with `MaxInt` as the largest key in
the place of `math.MaxInt32`. `put` on a full map drops ends (`DropEnd`) until there
is room for one more (`Evict`).

`IntKeyLinkedMap` locks its mutex twice where `put` evicts, in `RemoveFirst`,
`RemoveLast` and `Sort`: the step sets `stuck`, and every method that locks is
disabled from then on. Its `PutLast` of a new key enters the table and not the
list. Both are in the refinement: `OrderedMap` has a content, an order and a
limit, and `listsAll` is FALSE for the class whose `PutLast` leaves a new key out
of the order. The mapping takes the content from the table and the order from the
links, so that `ImplementsOrderedMap` fails as soon as rehash, eviction or an
unlinking treats one of them differently from the other.

### 2.5 Logger and ConfigReload

`Logger` is the goroutine that passes every ten seconds, in the steps between
which midnight may fall or the configuration's goroutine look at the fields:
`Rotate` (and `clearOldLog`), `OpenFile` or `OpenFails`, `StoreFile`,
`DirectOutput`. A file is the day in its name; an opening is a number (a handle).
The setters of the rotation have no caller and are fixed. `output` is where the
standard logger writes and who said so, since `SetLogSysOut` and `openFile` each
direct it: a `MultiWriter` whose file is nil or closed writes to stdout no longer.
`openFile` always adds stdout, so `log_sys_out=false` is forgotten at the next
rotation.

`ConfigReload` is `reload` in its steps: `Stat` stores the modification time before
the file is read, `Create`/`CreateFails`, `Load`, then `apply` one field after the
other (`ApplyDebug`, `ApplyLogSysOut`, `PickFile`, `SetLogSysOut`). A file that is
gone or cannot be parsed when it is read makes `MustLoadFile` end the process
(`ExitAndRestart`: the kubelet starts it again, `Init` runs again). The file is
replaced, removed and truncated between any two steps. `clock` counts seconds, the
precision of the comparison. The test of three seconds never holds, because the
goroutine has just slept for three, and is left out; so are the observers, of which
none is registered. Two keys stand for all.

### 2.6 ContainerStats, ProcessRates, DiskRates and NodeHelper

*ContainerStats.* A request is a *plan*: the sequence of calls and files it
reads, each with what the code does when it fails (fail, skip, be done, or go on
with another plan). `GetContainerStats`, `GetContainerInspect`, `Volumes`,
`Netstat`, `Logs` and `All` are the plans of the handlers, put together from those
of the runtimes and of the two versions of control groups. `Advance` and the
actions after it execute the head of a plan; between two items containers start,
end and are removed, PIDs go to others, calls fail, and a reload writes the
version. `known`/`fresh` are the two restart caches (the containerd package has a
copy of its own), `lock` says who holds each of their locks, which is kept over the
listing of all pods, without deadline, and blkio's (taken for every file, here
once).

`GetContainerPid` answers a PID of the container that was asked for: from the cache
it may be the one a container had that has ended meanwhile. How old an entry may be
is `ContainerLookup`'s; one of before the container's start is left out.

What the module says of the code, where it may surprise: statistics are
dispatched on the configured runtime, volumes and ports on the socket files that
exist (a node has one runtime in the model); ports on cri-o are an empty answer;
docker reads version 1's files by code of its own, without blkio's lock, and
falls back to the daemon's statistics; a missing Kubernetes client is a panic,
which `net/http` recovers ("aborted"); the restart count is 0 when the API server
fails, though an older one is known.

*ProcessRates.* `Load`, `ReadTotal`, `ReadProcessStatus`/`ReadStat` and
`SaveAndCompare` are the steps of a request for rates; nothing is locked around
them. The first request measures twice and saves the first sample. A process is
matched by the time it started or by its name and command. `CountStarts`, `CountDir`,
`CountStatus`, `RootAgain` are `Collect`. `covered` is a history variable: the
ticks of CPU time that some answer accounts for.

*DiskRates.* `Line` is one line of the mounts with all the callback does, and what
`append` read; `EnterInCache` stores it in `initialMountPointsCache`, without a
lock. `LoadSample` and `SaveSample` compare the disks' counters. A disk that the
last saved sample lacks is left out of the answer, as in the code; the model's
answer keeps the places its mounts had in the list (the property counts them).

*NodeHelper.* The three families of requests share no variable but the
configuration they read, so a behaviour is about one family (`family`), and the
others keep their start; the composition is a disjunction of the modules' own
`Next`.

### 2.7 DataX, Values and Confbase

`DataX` has the encodings as operators: a number as bytes of a width, the decimal
of 0 to 8 bytes, the blob with its length in one, three or five bytes, arrays with
a short for their length; every one has its reader, which fails (`Panicked`) where
the code panics. A byte has `Base` values instead of 256, so that a number of
eight bytes fits TLC's integers; every boundary of the code that is a power of 256
is the same power of `Base` (`Power`), and 253, 254 and 255 keep their distance from it.
Texts are looked up in `Spelling`; a floating-point number is its bits, in which
`Values` tells the zeros, the infinities and the NaNs apart (`Fraction` is how many
patterns have one exponent). Loops are
recursive functions, never RECURSIVE operators, so that they can be reasoned about.

`Values` has the tagged values with the type codes of the code: `WriteValue` and
`ReadValue` call each other, so they are RECURSIVE and the module has no theorems.
`Readable` says which values the code can read: not those whose type has no case in
`CreateValueRaw` (`IntValue` and `LongValue`, hence the case of `GetInt` for them is
never reached, and the oid of the second request is such a value), arrays longer
than a signed short, maps of `MAX_CHILD` entries (lists of as many are read), and
lists put into an `IntMapValue` by value, whose key is written alone. `Equals` is the
code's, type by type. It compares floats as numbers: 0 equals -0, a NaN equals
nothing, not itself, but in an array it passes for any number, because
`CompareToFloats` asks only which is less. `ReadsBack` therefore asks for two things:
what is read equals what was written wherever that equals itself, and it is written
as the same bytes again, down to the bits of a NaN and the sign of a zero.

`Confbase` sends the three requests of the debugger: `Dial`, `WritePart`,
`ReadPart` (one read of the socket), `MagicRead`, `LengthRead`, `BodyRead`, `Break`,
`Proceed`. The servers are not in the repository: one that speaks the protocol
answers with any of the instance's answers.

## 3. The runs

| Run | Instance | Checks | States |
|---|---|---|---|
| `inject_pods` | 2 pods, 1 container, 2 sources, 3 attempts, 2 notifications | `TypeOK` `PassBudget` `ProcessedIsMarked` `DeletedPodsForgotten` `NoReinjection` `ImplementsInjection` | 859 000 |
| `inject_quiet` | 1 pod, 2 incarnations, 2 sources (one unsteady), injection switched off and on; fair | `MarkedIsProcessed` `LivePodsCached` `RetriedToTheEnd` `LockReleased` | 102 000 |
| `inject_sweep` | 1 pod, 2 incarnations, the sweeper; fair | `ImplementsInjection` `LeakReclaimed` | 152 000 |
| `inject_one_attempt` | 2 sources, commands of up to three base delays | `OneAttemptPerPass` is violated | |
| `inject_sweep_race` | the sweeper | `LivePodsCached` is violated | |
| `scrape` | all three scrapers, 2 object names, 2 targets, 2 families, 2 collections; fair | `TypeOK` `OneCollection` `EndpointsTracked` `CollectionEnds` | 684 000 |
| `scrape_absent` | the scheduler's scraper | `AbsentMetricsServed` is violated | |
| `lookup` | 2 requests, 1 container, 2 namespaces, the three runtimes; fair | `TypeOK` `FreshAnswers` `OneConnection` `DeadForgotten` `NamespacesLoaded` | 178 000 |
| `linked_map` | three classes, 3 keys, 2 values, 1 bucket at first, limit 2, 1 enumerating caller | `TableAndListAgree` `EnumerationFollowsOrder` `ImplementsOrderedMap` | 28 000 |
| `reload` | 2 keys, 3 days, 2 seconds, 2 changes of the file, 1 failing opening; fair | `TypeOK` `SettingsAgree` `OpenFileKept` `OutputIsOpenFile` `FileTakesEffect` | 840 000 |
| `stats` | 5 kinds of nodes, 2 requests about 2 containers; 3 requests for rates; 1 count; 3 requests for disks | `TypeOK` `AnswerIsWhole` `NetworkIsItsOwn` `VersionKept` `LockIsReleased` `NoTickLost` `CountsBracketed` `DiskIsAnswered` `CacheIsTheFile` | 1 621 000 |
| `confbase` | 3 requests, 99 answers, bytes of 14 values, parts of 1 and 3 bytes | `WrittenIsRead` `ReportIsTheAnswer` | 6 500 |

### 3.1 Bounds, and why they are enough

* **PodInjection.** A container's bookkeeping never touches another's, so one
  container per pod shows what passes do to it, and two pods what they share: the
  lock, the queue, the retrier's round over `podsMap`. Three attempts of six
  distinguish the first failure, one in between and the last. One unit of time is
  10 s: the base delay is 1 and a command's timeout 3 where the ratio matters.
  Two incarnations give a container that is not the pod's last one. `MaxQueue`
  lets the handler lag behind by two notifications: a deletion behind an update.
* **ControlPlane.** Two collections are a late goroutine and the collection it
  must not reach; two targets one that has a client and one that has not; two
  families what is torn when they differ; two names the API server's object and
  one whose deletion empties the map.
* **ContainerLookup.** Two requests overtake each other at every step. All
  periods are 1, so that every age around each comparison is reached: fresh, just
  expired, just too old. A longer lookup than `MaxDelay` is excluded by the
  bound, not by the code.
* **LinkedMap.** One bucket makes three keys collide and rehash at the first
  insertions; the keys -1, 0 and 2 are one whose sign counts in the hash, the one
  that equals the header's, and one more. A limit of 2 makes the third evict; it is
  set back and forth, so that `Sort` meets a map beyond its limit.
* **ConfigReload.** Two changes are one that a `Stat` sees and one between it and
  the reading; two seconds are versions that share one and versions that do not;
  three days with one kept are a file that is old enough to be removed while it is
  open. The environment and the file differ in both keys, so that every source of
  a setting shows in it.
* **NodeHelper.** Two requests are enough for whatever one may do between two
  steps of the other, and the restart cache and the version survive the first. One
  failing call at any place, one container that ends and gives its PID away. The
  configuration is reloaded once on the containerd node, which starts with a version,
  and twice on the cri-o node, which starts without one and detects it: a reload falls
  before, into and after a detection, with a version or without, and a second one
  follows the one that a detection overwrote. A
  third request for rates and for disks finds what two overlapping ones left.
  Twice the events for disks (5 million states) found nothing more.
* **Confbase.** The answers have every type of value, and every boundary of a
  length or a number with the values on both of its sides. Parts of one and three
  bytes, beside all of the rest, end in the middle of every number.

`CHECK_DEADLOCK FALSE`: the environments are bounded (incarnations, collections,
starts), and a system with nothing left to do stops.

### 3.2 Fairness

* **PodInjection.** Goroutines run on and commands end, by themselves or by
  `injectExecTimeout` (weak fairness on a pass, on cleanup, on the clock). The
  handler, the retrier and the sweeper compete for `podsMapLock`, a
  `sync.RWMutex`, which hands itself over to waiters: strong fairness on the steps
  that take it. `RuntimeAnswers`, that every call of the container runtime returns
  some day, is an assumption on docker and containerd: `process` and
  `InspectWhatapAgentPath` call them under `podsMapLock` with a context that has no
  deadline. Without it a pass waits for ever, the lock is not released
  (TLC finds `LockReleased` violated), and `RetriedToTheEnd` and `LeakReclaimed`,
  which need the lock, do not hold either. Of the API server nothing is assumed but
  that its commands time out.
* **ControlPlane.** The informer's handler, the merge and the restart are
  weakly fair. `PeersAnswer`, that every request is answered or refused some day,
  is an assumption on the targets: no request has a timeout, and without the
  assumption `CollectionEnds` does not hold.
* **ContainerLookup.** A request that can go on does (weak fairness), and time
  passes (strong, since `MaxDelay` stops the clock for a slow request).
  `PollsContinue` is an assumption on the master agent: the cache is swept, and a
  client made, by requests only.
* **ConfigReload.** Both goroutines loop as long as the process lives, and recover
  (weak fairness on each). Nothing is assumed of who changes the file: the changes
  are bounded, and `FileTakesEffect` is about the last one.

### 3.3 What the failing runs show

1. `inject_one_attempt`: the comment above `recordInjectionFailure` says that a
   pass counts at most one attempt. A command may run longer than the delay the
   first failure set, so the next source's failure, in the same pass, counts too.
2. `inject_sweep_race`: a test says a live pod survives the sweep. It does not
   when it is added after the sweeper has listed the store and before it gets the
   lock, which a running pass may hold for minutes.
3. `scrape_absent`: a comment promises an empty array for absent scheduler
   metrics. A missing family is put into the result as nil and dereferenced by the
   merge: the process ends.

## 4. What is proved

Every safety invariant, action property and refinement that a passing run checks is
a theorem, but those of section 5. The theorems assume only the named assumptions on the constants
(`ConstantsAssumption`, `NoPodAssumption`, `ScrapeAssumption`, `LookupAssumption`,
`LinkedMapAssumption`, `LoggerAssumption`, `ConfigAssumption`, `StatsAssumption`,
`KernelAssumption`, `ProcessAssumption`, `DiskAssumption`, `HelperAssumption`,
`BaseAssumption`, `SpellingAssumption`, `LimitAssumption`), which
TLC evaluates on the instances. They say what the code's constants are (naturals,
non-empty where a loop needs an element, in the order the code relies on, keys in the
range of their type), what the bounds are (of one key two entries at once, since
`Sort` makes a new one while the old is still there), and of the environment:

* the kernel gives no PID twice in one procfs (`HelperAssumption`, for the
  processes there are at the start; the actions keep it), and the process that
  `NoTickLost` is about is asked for and is no kernel thread;
* which files the kernels of each cgroup version have (`KernelAssumption`): those the
  node helper reads there without asking, and no file of the other version; of
  `blkio.*_recursive` and its throttle variant, at least one;
* the mount that `DiskIsAnswered` is about is mounted once, has a size, and no
  other mount hides it (`DiskAssumption`).

None of the properties below is inductive; what follows names the invariant that
is, and what it adds.

### 4.1 PodInjection_proofs

`TypeCorrect`, `PassBudgetHolds`, `ProcessedIsMarkedHolds`, `NoReinjectionHolds`,
for any number of pods, containers, sources, attempts, with or without the sweeper,
from `IInv == TypeInv /\ EvictedEmpty /\ MarkedInv /\ BudgetInv`:

* `TypeInv` adds to `TypeOK` where a pass can be: it has a pod only while the lock
  is held, is at a source only in `executeInjection` and of an APM container with an
  id, and runs a command only at a source. The steps that wait for the runtime
  (`Lookup`) change none of what the rest is about, so that one lemma for each part
  of the invariant covers them all.
* `EvictedEmpty`: a pod that is not in the map has no information left. The
  retrier starts a pass from the map's information, so what an evicted pod would
  hold matters.
* `MarkedInv` adds to `ProcessedIsMarked`, which is about the map, the information
  of the running pass: it, too, is marked wherever `processedContainers` has the
  container. And what was injected is processed. `NoReinjection` follows: a pass
  reaches a command only through an unmarked container.
* `BudgetInv`: a container that is not given up has at most as many passes as
  attempts, plus one while a command that was due is running (its failure is not
  counted yet); a pass that has not run a command is at a container that is due
  and not processed; a container with no entry does not wait. A step that forgets
  the attempts forgets the passes with them. `PassBudget` follows, since an entry
  has fewer than `MaxAttempts` attempts.

`ImplementsInjectionHolds` (`ContractStep`): every step under `IInv` is a step of
`Injection` or leaves its variables alone. The first command of a pass in a
container is a `Try`, whose guard is what `BudgetInv` says of a pass that has run no
command; that the last try finishes a container is its count of passes again, read
after the failure. `NoEntryNoWait` makes the sweeper's `Forget` one: an entry it
deletes is the only thing a container waits for.

`LivePodsCachedHolds`, `DeletedPodsForgottenHolds` and `MarkedIsProcessedHolds` are
about the map and the informer's store. They assume `~Sweeping`: with the sweeper
none of the three holds. It evicts a pod that appeared after its listing
(`inject_sweep_race`); it forgets the container such a pod's pass has marked in the
meantime; and it may evict a deleted pod before the deletion is handled, which then
finds no container to forget, so that the next `Range` has to. They rest on
`StoreFollowed`, that `IInv /\ StoreInv` is invariant:

* `QueueInv`: the last notification about a pod that waits is the one of its
  current state, and nothing follows a deletion. It is what in-order delivery buys.
* `UpToDate`: a pod that is live, or whose deletion has not been handled, and of
  which no update waits, is in the map or in the hands of the pass, with the
  containers the store has.
* `GoneIsForgotten`, `CleansGone`: once a deletion is handled, no entry of
  `processedContainers` or `injectionRetries` is of a container of the pod, but of
  those `removePodFromCache` has yet to clean, which it does after it has released
  the lock.
* `RetriesCached`, `MarksStored`: a retry is of a cached pod, and a marked container
  that is not processed is not the one the store has.

### 4.2 ControlPlane_proofs

* `OneCollectionHolds`. The invariant adds `ChannelInv`, that the current channel
  holds results of the current collection only: it is what the per-collection
  channel buys, and what the mutant with one channel breaks. The theorem is about
  the cache: the scheduler's handler reads three families one after the other, and
  an assignment of the cache may come in between.
* `TypeCorrect`, from `TypeInv`, which adds that the objects are finitely many.
* `EndpointsTrackedHolds`, from `TrackInv`: the last notification that waits about
  an object that exists has its current addresses (`LastIsCurrent`), and when none
  waits, the map has them (`Followed`), unless a deletion emptied the map since.

### 4.3 ContainerLookup_proofs

* `FreshAnswersHold`: what the runtime tells a request is outdated by the request's
  own duration at most, and that is the age the entry gets when it is stored (`now`
  is taken before the runtime is asked), so an entry is never more outdated than it
  is old; a fresh one is then outdated by `TTL` at most.
* `OneConnectionHolds`: a client is opened only while there is none and closed
  before the variable is cleared, both under `mu`.
* `TypeCorrect`, from the two invariants above and the types of the rest.

### 4.4 ConfigReload_proofs

`TypeInvariance` and three theorems, each of which says where the goroutines are:

* `OpenFileKeptHolds` (`FileInv`): the open file's day is not before
  `lastDataUnit`, which is not after today. `clearOldLog` runs in the pass that
  compares the days, so it finds the open file expired only if that pass has just
  closed it. Between `OpenFile` and `StoreFile` the same is said of the file opened.
* `OutputIsOpenFileHolds` is inductive together with `FileInv`.
* `SettingsAgreeHolds` (`SettingsInv`): which fields have the version's value at each
  step of `apply`, and that the logger in between directs the output with `openFile`'s
  name on it, never `SetLogSysOut`'s.

### 4.5 The node helper's requests

The theorems are about `NodeHelper`'s `Spec`, so they hold of each family beside the
others.

* `LockIsReleasedHolds`: `StatsTypes` says what a busy request has left of its plan:
  an item, and after it items that plans are made of. No plan names the sections
  (`list`, `blkioFiles`) themselves, so that only the step that takes the lock enters
  one, and every step out of it, a failure or a panic too, gives the lock back.
* `AnswerIsWholeHolds` (`WholeInv`): while nothing has upset it, a request stands at
  an item of a *track*, a plan together with the one that led to it, and everything
  before that item is done: its files are read, or the daemon's statistics stand in
  for them. So a request at the end of its plan has every part. The track is the one
  for the node's version because a version once read is the detected one, and stays
  (`Settled`); that the PID is there to read the network counters from needs that a
  running container has one. The proof goes through every track (`TrackIsSound`),
  with the files `KernelAssumption` gives the node.
* `NetworkIsItsOwnHolds` (`Networks`): no two running containers share a PID, one
  that has not started has none, and a request about a running container has its
  PID and its counters or none. A container that ends in the middle is not running
  when the request ends, which is the property's condition.
* `VersionKeptHolds` (`Versioned`): a request that is about to keep what it detected
  stands beside a configuration that gave no version, unless `raced`.
* `CountsBracketedHolds` (`CountsInv`): during a count, a process that was there
  throughout is counted or its PID is yet to be read; a procfs that was replaced has
  another root than the one the count began with. The numbers follow by
  cardinality, since only finitely many processes run (`FiniteWorld`).
* `NoTickLostHolds` (`TickInv`): every sample that is compared holds the steady
  process, and there is a tick from which the answers leave none out up to the
  sample that is saved *and* up to each one a request has loaded. The second part
  is what makes overlapping requests harmless: whichever saves last, its sample is
  reached.
* `CacheIsTheFileHolds` (`CacheInv`): while one reads the file with the cache on, it
  is the only one, and the cache followed by its remaining lines is the file.
* `DiskIsAnsweredHolds` (`AnswerInv`): the steady mount is once in what a request has
  answered for together with what it has yet to go through, and its disk is in every
  sample that was saved or loaded.
* `TypeCorrect` (`HelperInv`), at the end of `Rates_proofs`: the types of the whole server.
  The proof needed two assumptions nobody had written down: a node's version is one
  a file may give, and one change of processes is left for the requests for rates,
  which start with all others used up.

### 4.6 LinkedMap_proofs

For any keys, capacity, limits and number of callers.

* `TableAndListAgreeHolds`: the invariant is that the entries are `Sound` for some
  sequence of entries `list`. `Hashed`, `OneEach` and `Counted` are about the table:
  each entry is in the bucket of its key, no two have the same key, `count` is their
  number. `Linked` says that the links thread the header and `list`, position by
  position and both ways; `Loose` that an entry outside `list` has no links, or was
  left by `Clear`, whose old entries link to each other and to nothing that is listed.
  The property speaks of the list as the walk along the links, a recursive function on
  the heap: that there is such a function, and that it returns `list`, is shown by
  induction (`WalkExists`, `WalkIsList`), as is what a number of evictions leaves
  (`EvictSound`) and what `Sort` builds (`SortSound`). The library's induction theorems
  take an operator as a parameter and the provers cannot use them, but its theorem that
  `<` is well-founded takes a set: `Induction` follows from it, for the set of the
  numbers at which the claim holds.
* `EnumerationFollowsOrderHolds` (`Walks`): the keys that a caller has visited are those
  of the list up to its cursor, and the keys that its enumeration began with are a
  prefix of what it visits in the end (`OnWalk`). A step that moves no entry puts at
  most one before the list or behind it (`Shifted`); any other ends the claim.
* `ImplementsOrderedMapHolds`: what callers see of a map, `Content` and `Order`, is
  fixed by its chained entries and `list` (`Shows`), so each step needs the exact
  list it leaves and the values in it: an overwritten entry stays or moves to an end
  (`Moved`), a new one comes at an end of what the limit keeps (`Kept`, `Added`), a
  removed one is taken out (`Without`), and `Sort` leaves the entries in ascending
  order, the highest ones if the limit was lowered (`Sorts`; by induction over the
  keys that are put again, `PutBehind`). The lemmas `Seen...` carry that over to
  content and order: one entry has one name, so taking an entry out of the list takes
  its key out of the order. `OrderedStep` then maps `Put`, `RemoveKey`, `RemoveEnd`,
  `Clear`, `Sort`, `GetLRU` and `SetMax` to the steps of `OrderedMap`, and the rest,
  with a put or a remove that finds nothing to do, to stutters.

### 4.7 DataX_proofs

For bytes of any even number of values above eight, and any limits (at least the
eight bytes of a number). `confbase` checks each of these on the values of its
instance; here they hold for all.

* What a theorem assumes is `Holds(buf, at, w)`: the bytes `w` stand in the buffer
  from the place `at`, whatever is before and behind them. What it shows is the value
  that is read *and* the place after it, so that the next read begins where the next
  write did: the parts of what was written one after the other hold one after the
  other (`HoldsParts`).
* `NumberReads`: `ToUnsigned` of the last `n` bytes of `v` is `v` modulo
  `Power(n)` (`NumberOfIs`, by induction over the bytes, with the division of
  `DivNext`), and the half of the range from which `ToSigned` subtracts is the half
  that `Fits` gives the negative numbers (`SignedIs`; it needs that `Base` is even).
* `DecimalReads`: among the lengths there is a least one that fits, the reader takes
  the byte for the same length, and no length is the byte that stands for 0.
* `BlobReads`: one case for each of the three forms of the length. That the two
  greatest first bytes are never lengths of their own is what the mutant
  `WriteBlob_OneMore` breaks. `TextReads` adds that no two texts are spelled alike.
* `NumbersRead`, `TextsRead`: the encodings of the elements stand one after the other
  (`FlatHolds`, by induction over them), and the reader's loop has the first `i`
  elements after `i` rounds (`ElementsRead`). The length is a signed short, whatever
  it was: an array it cannot hold is outside these theorems, as it is outside
  `Readable`.

The functions that `ToUnsigned`, `Power` and the loops define are shown to exist
(`PowerExists`, `FlatExists`) or given, and to be the only ones (`OnePower`,
`OneNumber`, `OneRead`), before anything is said about their values.

## 5. What is only model-checked

* Liveness (`RetriedToTheEnd`, `LockReleased`, `LeakReclaimed`, `CollectionEnds`,
  `DeadForgotten`, `NamespacesLoaded`, `FileTakesEffect`): the prover has no support
  for `ENABLED`, so fairness is out of its reach.
* `WrittenIsRead` and `ReportIsTheAnswer`: `Values` is recursive in its data, and
  induction over data is out of the prover's reach, as are RECURSIVE operators. That
  the numbers, texts and arrays in a value are read as they were written is proved
  (4.7); that the tags and the nesting are is checked.

What the properties do not ask for, because the code does not give it:

* `LockReleased`, `RetriedToTheEnd`, `LeakReclaimed`: they hold as long as docker and
  containerd return the calls made of them, which the code does not see to.
* `ImplementsOrderedMap`: that a call returns. An `IntKeyLinkedMap` locks a mutex it
  holds, and is stuck from then on.
* `EndpointsTracked`: an emptied map, and names that two objects share.
* `FileTakesEffect`: a version that shares its second with another may never be
  loaded.
* `SettingsAgree`, `OutputIsOpenFile`: a reader during an apply may see two versions;
  an output that `SetLogSysOut` directed may be a file that is nil or closed until
  the next rotation.
* `VersionKept`: the version of a reload between a request's detection and its writing is
  overwritten, until the next reload.
* `NetworkIsItsOwn`: the PID of a container that has ended may be another's.
* `NoTickLost`: of two overlapping first requests the later one replaces a sample it
  did not answer for. That a process is matched by its command alone, so that a
  reused PID may be compared as if it were the same process, is in the model and
  no property excludes it.
* `DiskIsAnswered`, `CacheIsTheFile`: a request that is asked while another fills
  the cache leaves every mount twice in it, or only some of them, for good; a
  `statfs` that fails leaves a mount out of two answers.

## 6. Plan

Done: all the modules of section 2, the runs of section 3, the theorems of
section 4. Left:

1. The folding of metrics into records by the control-plane handlers.
