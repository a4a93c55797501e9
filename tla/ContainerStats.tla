--------------------------- MODULE ContainerStats ---------------------------
(***************************************************************************)
(* The node helper's requests about one container (handler.go and the      *)
(* packages it calls: containerd, docker, crio, cgroup): statistics,       *)
(* inspection, volumes, open ports, logs, and the list of all containers.  *)
(* A request is a plan: the calls and files it reads, one after the other, *)
(* each with what the code does when it fails.  Containers start, end and  *)
(* are removed in between, their PIDs go to others, the API server and the *)
(* runtime fail, and a reload writes the cgroup version.                   *)
(*                                                                         *)
(* A file is its name, an answer is the set of files that were read, whose *)
(* network counters it holds, and whether its restart count is known.      *)
(* The files of /proc itself (stat, meminfo) are always there.  The PID    *)
(* cache and the containerd client have a module of their own,             *)
(* ContainerLookup: here a PID is what GetContainerPid may answer.         *)
(***************************************************************************)
EXTENDS Naturals, FiniteSets, Sequences

CONSTANTS Workers,        \* the goroutines that serve requests
          Containers, Pids,
          First,          \* the container that runs from the start
          Nodes,          \* [runtime |-> conf.Runtime, mode |-> of its control
                          \*  groups, files |-> that its kernel provides,
                          \*  version |-> cgroup_version at the start]
          Versions,       \* what cgroup_version may say, "" when absent
          Requests,       \* Requests[w]: [kind, of] that worker w may serve
          Nobody,
          MaxEnded,       \* bound: the containers that end
          MaxFailures,    \* bound: the failing calls
          MaxRequests,    \* bound: the requests of a worker
          MaxReloads      \* bound: MaxReloads[n], the reloads, on node n

ASSUME StatsAssumption ==
    /\ First \in Containers /\ Pids # {}
    /\ Nobody \notin Containers \cup Pids \cup Workers
    /\ MaxEnded \in Nat /\ MaxFailures \in Nat /\ MaxRequests \in Nat /\ MaxReloads \in [Nodes -> Nat]
    /\ "" \in Versions /\ Nodes # {} /\ \A n \in Nodes : n.version \in Versions
    /\ \A w \in Workers : Requests[w] \subseteq
         [kind : {"stats", "inspect", "volume", "netstat", "log", "all"}, of : Containers]

(* Of the files that statistics come from, those a kernel provides: version*)
(* 1's hierarchies, with the recursive counters of blkio where it has its  *)
(* scheduler and those of the throttling policy otherwise, or version 2's, *)
(* with a peak, a swap and a pressure file where the kernel is new enough. *)
ASSUME KernelAssumption ==
    \A n \in Nodes :
      \/ /\ n.mode = "unified"
         /\ {"cpu.stat", "memory.current", "memory.events", "memory.stat", "io.stat"}
              \subseteq n.files
         /\ n.files \subseteq
              {"cpu.stat", "memory.current", "memory.events", "memory.stat", "io.stat",
               "memory.peak", "memory.swap.current", "pressure"}
      \/ /\ n.mode \in {"legacy", "hybrid"}
         /\ {"cpu.stat", "cpuacct.stat", "memory.max_usage_in_bytes",
             "memory.usage_in_bytes", "memory.failcnt", "memory.stat", "blkio.throttle"}
              \subseteq n.files
         /\ {"blkio.recursive", "blkio.throttle.recursive"} \cap n.files # {}
         /\ n.files \subseteq
              {"cpu.stat", "cpuacct.stat", "memory.max_usage_in_bytes",
               "memory.usage_in_bytes", "memory.failcnt", "memory.stat", "blkio.throttle",
               "cpuacct.shares", "blkio.recursive", "blkio.throttle.recursive"}

VARIABLES node,
          state,      \* of each container
          pidOf,      \* the PID each container was given
          listed,     \* the containers the pods' statuses list
          faults, reloads,
          configured, \* cgroup_version in the file that was loaded last
          version,    \* conf.CgroupVersion
          raced,      \* a reload ran between its reading and its writing
          known,      \* known[x]: the ids in x's containerRestartLookup
          fresh,      \* fresh[x]: lastCacheUpdate is less than 60 s ago
          lock,       \* who holds x's restartCacheLock, and blkioReadMutex
          req,        \* req[w]: the request w serves
          rest,       \* what is left of its plan
          status,     \* "busy", or what it was answered
          read,       \* the files it has read
          pid, net,   \* the PID it uses, whose network counters it has
          restart,    \* the restart count it has
          local,      \* the cgroup version it read
          upset,      \* a call failed for a reason of its own
          requests
nodeVars   == <<node, state, pidOf, listed, faults>>
confVars   == <<reloads, configured, version, raced>>
cacheVars  == <<known, fresh, lock>>
workerVars == <<req, rest, status, read, pid, net, restart, local, upset, requests>>
statsVars  == <<nodeVars, confVars, cacheVars, workerVars>>

Caches == {"cgroup", "containerd"}   \* two packages, each with its own
Locks  == Caches \cup {"blkio"}

-----------------------------------------------------------------------------
(* Plans.  An item says what is read and what follows when that fails:     *)
(* "fail", "skip", "done", or the name of the plan that replaces this one. *)

Call(name, otherwise)  == [call |-> name, of |-> <<>>, otherwise |-> otherwise]
(* The files of a control group: some are required, some optional, and of  *)
(* some pairs the second is read where the first is missing.  One item: a  *)
(* group that vanishes in the middle makes a later file fail, with the     *)
(* same consequence.                                                       *)
Files(parts, otherwise) == [call |-> "files", of |-> parts, otherwise |-> otherwise]
(* The package of cgroups reads blkio's files under a lock.  One item: the *)
(* lock is in fact taken for each of them.                                 *)
Blkio(part, otherwise) == [call |-> "blkio", of |-> <<part>>, otherwise |-> otherwise]
Part(required, optional) ==
    [required |-> required, optional |-> optional, either |-> <<>>]

CgroupV1Cpu    == Part({"cpu.stat", "cpuacct.stat"}, {"cpuacct.shares"})
CgroupV1Memory == Part({"memory.max_usage_in_bytes", "memory.usage_in_bytes",
                        "memory.failcnt", "memory.stat"}, {})
CgroupV1Blkio  == [required |-> {"blkio.throttle"}, optional |-> {},
                   either |-> <<"blkio.recursive", "blkio.throttle.recursive">>]
GetContainerStatsCgroupV1 ==
    << Files(<<CgroupV1Cpu, CgroupV1Memory>>, "fail"), Blkio(CgroupV1Blkio, "fail"),
       Call("net", "fail") >>

CgroupV2Cpu    == Part({"cpu.stat"}, {})
CgroupV2Memory == Part({"memory.current", "memory.events", "memory.stat"},
                       {"memory.peak", "memory.swap.current"})
CgroupV2Io_Required == Part({"io.stat", "pressure"}, {})
CgroupV2Io     == Part({"io.stat"}, {"pressure"})
GetContainerStatsCgroupV2 ==
    << Files(<<CgroupV2Cpu, CgroupV2Memory, CgroupV2Io>>, "fail"), Call("net", "fail") >>

(* The docker package reads version 1's files by code of its own, whatever *)
(* the version; any failure falls back to the daemon's statistics.         *)
DockerCpu    == CgroupV1Cpu
DockerMemory == CgroupV1Memory
DockerBlkio  == CgroupV1Blkio
DockerFiles  == << Files(<<DockerCpu, DockerMemory, DockerBlkio>>, "dockerApi"),
                   Call("net", "dockerApi") >>

DockerStats ==
    << Call("runtime", "dockerInspect"), Call("pidFile", "dockerInspect"),
       Call("restart", "skip") >> \o DockerFiles
DockerInspect ==
    << Call("pidFile", "dockerApi"), Call("restart", "skip") >> \o DockerFiles
DockerApi ==
    << Call("daemonStats", "fail"), Call("pid", "done"), Call("net", "done"),
       Call("restart", "fail") >>
ContainerdStats ==
    << Call("runtime", "fail"), Call("restart", "skip"), Call("pid", "skip"),
       Call("version", "fail") >>
CrioStats ==
    << Call("restart", "fail"), Call("runtime", "fail"), Call("pidFile", "fail"),
       Call("version", "fail") >>

Unsupported == << Call("unsupported", "fail") >>

GetContainerStats(r) ==
    CASE r = "docker"     -> DockerStats
      [] r = "containerd" -> ContainerdStats
      [] r = "crio"       -> CrioStats
      [] OTHER            -> Unsupported

DockerInspection     == << Call("runtime", "fail") >>
(* The container, and then its extensions; a task that is not found leaves *)
(* its state out.                                                          *)
ContainerdInspection ==
    << Call("restart", "fail"), Call("runtime", "fail"), Call("runtime", "fail") >>
CrioInspection       == << Call("runtime", "fail"), Call("pidFile", "fail") >>

GetContainerInspect(r) ==
    CASE r = "docker"     -> DockerInspection
      [] r = "containerd" -> ContainerdInspection
      [] r = "crio"       -> CrioInspection
      [] OTHER            -> Unsupported

(* ExecuteCommandEx lists the node's pods to find the container's.         *)
ExecuteCommandEx == << Call("find", "fail"), Call("exec", "fail") >>
Volumes == << Call("runtime", "fail") >> \o ExecuteCommandEx
(* The docker package has the daemon run it.                               *)
ExecuteCommand == << Call("runtime", "fail"), Call("exec", "fail") >>
(* For cri-o nothing is run.                                               *)
Netstat(r) ==
    CASE r = "docker"     -> ExecuteCommand
      [] r = "containerd" -> ExecuteCommandEx
      [] OTHER            -> <<>>
Logs == << Call("find", "fail"), Call("kube", "fail") >>
All  == << Call("kube", "fail"), Call("kube", "fail") >>

Plan(name, r) ==
    CASE name = "stats"         -> GetContainerStats(r)
      [] name = "inspect"       -> GetContainerInspect(r)
      [] name = "volume"        -> Volumes
      [] name = "netstat"       -> Netstat(r)
      [] name = "log"           -> Logs
      [] name = "all"           -> All
      [] name = "dockerInspect" -> DockerInspect
      [] name = "dockerApi"     -> DockerApi

(* GetContainerStatsExRaw: what follows once the version is resolved.      *)
CgroupPlan(v) ==
    CASE v \in {"legacy", "hybrid"} -> GetContainerStatsCgroupV1
      [] v = "unified"              -> GetContainerStatsCgroupV2
      [] OTHER                      -> << Call("unknownMode", "fail") >>

-----------------------------------------------------------------------------

NoRequest == [kind |-> "none", of |-> CHOOSE c \in Containers : TRUE]

NodeTypeOK ==
    /\ node \in Nodes
    /\ state \in [Containers -> {"created", "running", "ended", "removed"}]
    /\ pidOf \in [Containers -> Pids \cup {Nobody}] /\ listed \subseteq Containers
    /\ faults \in 0..MaxFailures /\ reloads \in 0..MaxReloads[node]
    /\ configured \in Versions /\ version \in Versions \cup {node.mode}
    /\ raced \in BOOLEAN
RequestTypeOK(w) ==
    /\ req[w] = NoRequest \/ req[w] \in Requests[w]
    /\ status[w] \in {"busy", "200", "400", "500", "503", "aborted"}
    /\ pid[w] \in Pids \cup {Nobody} /\ net[w] \in Containers \cup {Nobody}
    /\ restart[w] \in BOOLEAN /\ upset[w] \in BOOLEAN
    /\ requests[w] \in 0..MaxRequests
StatsTypeOK ==
    /\ NodeTypeOK
    /\ known \in [Caches -> SUBSET Containers] /\ fresh \in [Caches -> BOOLEAN]
    /\ lock \in [Locks -> Workers \cup {Nobody}]
    /\ \A w \in Workers : RequestTypeOK(w)

(* Nothing has been asked yet, of a given node.                            *)
StatsStart(n) ==
    /\ node = n /\ configured = n.version /\ version = n.version
    /\ state = [c \in Containers |-> IF c = First THEN "running" ELSE "created"]
    /\ pidOf = [c \in Containers |-> IF c = First THEN CHOOSE p \in Pids : TRUE ELSE Nobody]
    /\ listed = {First}
    /\ faults = 0 /\ reloads = 0 /\ raced = FALSE
    /\ known = [x \in Caches |-> {}] /\ fresh = [x \in Caches |-> FALSE]
    /\ lock = [x \in Locks |-> Nobody]
    /\ req = [w \in Workers |-> NoRequest] /\ rest = [w \in Workers |-> <<>>]
    /\ status = [w \in Workers |-> "200"] /\ read = [w \in Workers |-> {}]
    /\ pid = [w \in Workers |-> Nobody] /\ net = [w \in Workers |-> Nobody]
    /\ restart = [w \in Workers |-> FALSE] /\ local = [w \in Workers |-> ""]
    /\ upset = [w \in Workers |-> FALSE] /\ requests = [w \in Workers |-> 0]

StatsInit == \E n \in Nodes : StatsStart(n)

Busy(w) == status[w] = "busy"

-----------------------------------------------------------------------------
(* The node.  A request under way notes what happened to its container.    *)

Upset(c) == [w \in Workers |-> upset[w] \/ (Busy(w) /\ req[w].of = c)]
NodeStep == UNCHANGED <<node, faults, confVars, cacheVars, req, rest,
                        status, read, pid, net, restart, local, requests>>

Holder(p) == {c \in Containers : state[c] = "running" /\ pidOf[c] = p}

ContainerStarts(c) ==
    /\ state[c] = "created" /\ state' = [state EXCEPT ![c] = "running"]
    /\ \E p \in Pids : Holder(p) = {} /\ pidOf' = [pidOf EXCEPT ![c] = p]
    /\ NodeStep /\ UNCHANGED <<listed, upset>>

(* The kubelet reports the new container some time later.                  *)
ContainerListed(c) ==
    /\ state[c] = "running" /\ c \notin listed /\ listed' = listed \cup {c}
    /\ NodeStep /\ UNCHANGED <<state, pidOf, upset>>

(* The process ends, and its control group is removed with it.             *)
ContainerEnds(c) ==
    /\ Cardinality({d \in Containers : state[d] \in {"ended", "removed"}}) < MaxEnded
    /\ state[c] = "running" /\ state' = [state EXCEPT ![c] = "ended"]
    /\ upset' = Upset(c) /\ NodeStep /\ UNCHANGED <<pidOf, listed>>

ContainerRemoved(c) ==
    /\ state[c] = "ended" /\ state' = [state EXCEPT ![c] = "removed"]
    /\ listed' = listed \ {c} /\ NodeStep /\ UNCHANGED <<pidOf, upset>>

(* A reload writes the version the file gives, over one that was detected. *)
Between(w) == Busy(w) /\ rest[w] # <<>> /\ Head(rest[w]).call = "keep"
Reload_OnlyIfGiven ==
    /\ reloads < MaxReloads[node] /\ reloads' = reloads + 1
    /\ \E v \in Versions : configured' = v /\ version' = IF v = "" THEN version ELSE v
    /\ raced' = \E w \in Workers : Between(w)
    /\ UNCHANGED <<nodeVars, cacheVars, workerVars>>
Reload ==
    /\ reloads < MaxReloads[node] /\ reloads' = reloads + 1
    /\ \E v \in Versions : configured' = v /\ version' = v
    /\ raced' = \E w \in Workers : Between(w)
    /\ UNCHANGED <<nodeVars, cacheVars, workerVars>>

(* Sixty seconds pass.                                                     *)
CacheAges(x) ==
    /\ fresh[x] /\ fresh' = [fresh EXCEPT ![x] = FALSE]
    /\ UNCHANGED <<nodeVars, confVars, known, lock, workerVars>>

-----------------------------------------------------------------------------
(* Requests.                                                               *)

(* A handler starts.  A version that does not fit the kernel, a container  *)
(* that does not run or is not listed yet: the request may fail.           *)
Request(w) ==
    /\ ~Busy(w) /\ requests[w] < MaxRequests
    /\ requests' = [requests EXCEPT ![w] = @ + 1]
    /\ \E r \in Requests[w] :
         LET plan == Plan(r.kind, node.runtime) IN
         /\ state[r.of] # "created"
         /\ req' = [req EXCEPT ![w] = r]
         /\ rest' = [rest EXCEPT ![w] = plan]
         /\ \/ status' = [status EXCEPT ![w] = IF plan = <<>> THEN "200" ELSE "busy"]
            \/ r.kind = "volume" /\ status' = [status EXCEPT ![w] = "503"]
         /\ upset' = [upset EXCEPT ![w] = state[r.of] # "running" \/ r.of \notin listed]
    /\ read' = [read EXCEPT ![w] = {}] /\ local' = [local EXCEPT ![w] = ""]
    /\ pid' = [pid EXCEPT ![w] = Nobody] /\ net' = [net EXCEPT ![w] = Nobody]
    /\ restart' = [restart EXCEPT ![w] = FALSE]
    /\ UNCHANGED <<nodeVars, confVars, cacheVars>>

-----------------------------------------------------------------------------
(* Steps of a request.  At(w, calls): the next item is one of calls.       *)

At(w, calls) == Busy(w) /\ Head(rest[w]).call \in calls
Of(w) == req[w].of

(* What follows an item that succeeded or failed.  A plan that replaces    *)
(* another starts without what that one had read.                          *)
Advance(w, ok, files, whose, count) ==
    LET then     == Head(rest[w]).otherwise
        replaced == ~ok /\ then \notin {"fail", "skip", "done"}
        left     == CASE ok \/ then = "skip" -> Tail(rest[w])
                      [] replaced            -> Plan(then, node.runtime)
                      [] OTHER               -> <<>>
    IN  /\ rest' = [rest EXCEPT ![w] = left]
        /\ status' = [status EXCEPT ![w] = CASE ~ok /\ then = "fail" -> "500"
                                             [] left = <<>>          -> "200"
                                             [] OTHER                -> "busy"]
        /\ read' = [read EXCEPT ![w] = IF replaced THEN {} ELSE @ \cup files]
        /\ net' = [net EXCEPT ![w] = IF replaced THEN Nobody ELSE whose]
        /\ restart' = [restart EXCEPT ![w] = ~replaced /\ count]
        /\ UNCHANGED <<req, local, requests>>

Got(w, ok, files) == Advance(w, ok, files, net[w], restart[w])

(* A call that fails for a reason of its own; a panic ends the request.    *)
CallFails(w) ==
    /\ faults < MaxFailures /\ faults' = faults + 1
    /\ upset' = [upset EXCEPT ![w] = TRUE]
    /\ UNCHANGED <<node, state, pidOf, listed, confVars, pid>>
Panics(w) ==
    /\ rest' = [rest EXCEPT ![w] = <<>>] /\ status' = [status EXCEPT ![w] = "aborted"]
    /\ UNCHANGED <<req, read, net, restart, local, requests>>
Quiet == UNCHANGED <<nodeVars, confVars, upset>>

(* What a part's files give, and whether the required ones are all there.  *)
Alternative(part) ==
    IF part.either = <<>> THEN {}
    ELSE {IF part.either[1] \in node.files THEN part.either[1] ELSE part.either[2]}
Complete(part) == part.required \cup Alternative(part) \subseteq node.files
FilesOf(part)  ==
    part.required \cup Alternative(part) \cup (part.optional \cap node.files)

ReadParts(w) ==
    LET parts == Head(rest[w]).of
        ok    == /\ state[Of(w)] = "running"
                 /\ \A i \in DOMAIN parts : Complete(parts[i])
    IN  Got(w, ok, IF ok THEN UNION {FilesOf(parts[i]) : i \in DOMAIN parts} ELSE {})

ReadFiles(w) ==
    /\ At(w, {"files"}) /\ ReadParts(w)
    /\ Quiet /\ UNCHANGED <<cacheVars, pid>>

LockBlkio(w) ==
    /\ At(w, {"blkio"}) /\ lock["blkio"] = Nobody /\ lock' = [lock EXCEPT !["blkio"] = w]
    /\ rest' = [rest EXCEPT ![w][1].call = "blkioFiles"]
    /\ UNCHANGED <<nodeVars, confVars, known, fresh>>
    /\ UNCHANGED <<req, status, read, pid, net, restart, local, upset, requests>>

ReadBlkio(w) ==
    /\ At(w, {"blkioFiles"}) /\ ReadParts(w)
    /\ lock' = [lock EXCEPT !["blkio"] = Nobody]
    /\ Quiet /\ UNCHANGED <<known, fresh, pid>>

(* /proc/<pid>/net/dev: of whoever has the PID now.                        *)
ReadNetworkStats(w) ==
    /\ At(w, {"net"})
    /\ IF pid[w] # Nobody /\ Holder(pid[w]) # {}
         THEN \E c \in Holder(pid[w]) : Advance(w, TRUE, {}, c, restart[w])
         ELSE Got(w, FALSE, {})
    /\ Quiet /\ UNCHANGED <<cacheVars, pid>>

(* The runtime, or a file it keeps, knows a container until it is removed. *)
(* A PID that outlived the process may still be in the file.               *)
RuntimePid(c) == IF state[c] = "running" THEN {pidOf[c]} ELSE {pidOf[c], Nobody}
AskRuntime(w) ==
    /\ At(w, {"runtime", "daemonStats", "exec", "pidFile"})
    /\ LET ok == IF At(w, {"exec"}) THEN state[Of(w)] = "running"
                                    ELSE state[Of(w)] # "removed" IN
       \/ /\ Got(w, ok, IF At(w, {"daemonStats"}) THEN {"daemon"} ELSE {})
          /\ Quiet
          /\ IF At(w, {"pidFile"}) /\ ok
               THEN \E p \in RuntimePid(Of(w)) : pid' = [pid EXCEPT ![w] = p]
               ELSE UNCHANGED pid
       \/ Got(w, FALSE, {}) /\ CallFails(w)
    /\ UNCHANGED cacheVars

(* GetContainerPid: out of the cache or from the runtime, which knows none *)
(* (docker: 0) or fails once the container has ended.  A container's id    *)
(* sees one start, so that an entry made while it ran, however old, has    *)
(* the PID it has, or had; an entry of before its start is not modelled,   *)
(* as nothing is asked of a container that has not started.                *)
GetContainerPid_AnyEntry(w) ==
    /\ At(w, {"pid"})
    /\ \/ /\ \E p \in {pidOf[Of(w)]} \cup ({pid[v] : v \in Workers} \ {Nobody}) :
               pid' = [pid EXCEPT ![w] = p]
          /\ Got(w, TRUE, {}) /\ Quiet
       \/ state[Of(w)] # "running" /\ Got(w, FALSE, {}) /\ Quiet /\ UNCHANGED pid
       \/ Got(w, FALSE, {}) /\ CallFails(w)
    /\ UNCHANGED cacheVars

GetContainerPid(w) ==
    /\ At(w, {"pid"})
    /\ \/ /\ \E p \in RuntimePid(Of(w)) : pid' = [pid EXCEPT ![w] = p]
          /\ Got(w, TRUE, {}) /\ Quiet
       \/ state[Of(w)] # "running" /\ Got(w, FALSE, {}) /\ Quiet /\ UNCHANGED pid
       \/ Got(w, FALSE, {}) /\ CallFails(w)
    /\ UNCHANGED cacheVars

(* Without a configuration GetKubernetesClient returns nil and no error:   *)
(* the call on it panics.                                                  *)
AskKubernetes(w) ==
    /\ At(w, {"kube", "find"})
    /\ \/ Got(w, At(w, {"kube"}) \/ Of(w) \in listed, {}) /\ Quiet /\ UNCHANGED pid
       \/ (Got(w, FALSE, {}) \/ Panics(w)) /\ CallFails(w)
    /\ UNCHANGED cacheVars

-----------------------------------------------------------------------------
(* GetContainerRestartCount, in the package of cgroups, and the copy in    *)
(* containerd's, each with a cache and a lock; the lock is held over the   *)
(* listing of the pods.                                                    *)

Cache(w) == IF node.runtime = "containerd" /\ req[w].kind = "stats"
            THEN "containerd" ELSE "cgroup"

GetContainerRestartCount(w) ==
    /\ At(w, {"restart"}) /\ lock[Cache(w)] = Nobody
    /\ IF fresh[Cache(w)] /\ Of(w) \in known[Cache(w)]
         THEN Advance(w, TRUE, {}, net[w], TRUE) /\ UNCHANGED lock
         ELSE /\ rest' = [rest EXCEPT ![w][1].call = "list"]
              /\ lock' = [lock EXCEPT ![Cache(w)] = w]
              /\ UNCHANGED <<req, status, read, net, restart, local, requests>>
    /\ Quiet /\ UNCHANGED <<known, fresh, pid>>

ListPods_KeepsLock(w) ==
    /\ At(w, {"list"})
    /\ \/ /\ known' = [known EXCEPT ![Cache(w)] = @ \cup listed]
          /\ fresh' = [fresh EXCEPT ![Cache(w)] = TRUE]
          /\ lock' = [lock EXCEPT ![Cache(w)] = Nobody]
          /\ LET found == Of(w) \in known'[Cache(w)] IN
             Advance(w, found, {}, net[w], found)
          /\ Quiet /\ UNCHANGED pid
       \/ /\ (Got(w, FALSE, {}) \/ Panics(w)) /\ CallFails(w)
          /\ UNCHANGED <<known, fresh, lock>>

ListPods(w) ==
    /\ At(w, {"list"}) /\ lock' = [lock EXCEPT ![Cache(w)] = Nobody]
    /\ \/ /\ known' = [known EXCEPT ![Cache(w)] = @ \cup listed]
          /\ fresh' = [fresh EXCEPT ![Cache(w)] = TRUE]
          /\ LET found == Of(w) \in known'[Cache(w)] IN
             Advance(w, found, {}, net[w], found)
          /\ Quiet /\ UNCHANGED pid
       \/ /\ (Got(w, FALSE, {}) \/ Panics(w)) /\ CallFails(w)
          /\ UNCHANGED <<known, fresh>>

-----------------------------------------------------------------------------
(* GetContainerStatsExRaw: the configured version, or the one detected,    *)
(* which is then kept as if it were configured.                            *)

ReadVersion(w) ==
    /\ At(w, {"version"})
    /\ local' = [local EXCEPT ![w] = version]
    /\ rest' = [rest EXCEPT ![w] = IF version = "" THEN << Call("keep", "fail") >>
                                                   ELSE CgroupPlan(version)]
    /\ UNCHANGED <<nodeVars, confVars, cacheVars>>
    /\ UNCHANGED <<req, status, read, pid, net, restart, upset, requests>>

DetectVersion_KeepsType(w) ==
    /\ At(w, {"keep"})
    /\ local' = [local EXCEPT ![w] = node.mode] /\ version' = "cgroup2fs"
    /\ rest' = [rest EXCEPT ![w] = CgroupPlan(node.mode)]
    /\ UNCHANGED <<nodeVars, reloads, configured, raced, cacheVars>>
    /\ UNCHANGED <<req, status, read, pid, net, restart, upset, requests>>

DetectVersion(w) ==
    /\ At(w, {"keep"})
    /\ local' = [local EXCEPT ![w] = node.mode] /\ version' = node.mode
    /\ rest' = [rest EXCEPT ![w] = CgroupPlan(node.mode)]
    /\ UNCHANGED <<nodeVars, reloads, configured, raced, cacheVars>>
    /\ UNCHANGED <<req, status, read, pid, net, restart, upset, requests>>

Refuse(w) ==
    /\ At(w, {"unsupported", "unknownMode"})
    /\ rest' = [rest EXCEPT ![w] = <<>>]
    /\ status' = [status EXCEPT ![w] = IF At(w, {"unsupported"}) THEN "400" ELSE "500"]
    /\ UNCHANGED <<nodeVars, confVars, cacheVars>>
    /\ UNCHANGED <<req, read, pid, net, restart, local, upset, requests>>

RequestStep(w) ==
    \/ ReadFiles(w) \/ LockBlkio(w) \/ ReadBlkio(w)
    \/ ReadNetworkStats(w) \/ AskRuntime(w)
    \/ GetContainerPid(w) \/ AskKubernetes(w) \/ GetContainerRestartCount(w)
    \/ ListPods(w) \/ ReadVersion(w) \/ DetectVersion(w) \/ Refuse(w)

StatsNode == \/ \E c \in Containers : \/ ContainerStarts(c) \/ ContainerListed(c)
                                      \/ ContainerEnds(c) \/ ContainerRemoved(c)
             \/ Reload \/ (\E x \in Caches : CacheAges(x))

StatsNext == StatsNode \/ \E w \in Workers : Request(w) \/ RequestStep(w)

-----------------------------------------------------------------------------

Ended(w) == req[w] # NoRequest /\ ~Busy(w)
SameFiles(v) == IF v = "hybrid" THEN "legacy" ELSE v
(* The version the request used, if any, reads the kernel's files.         *)
Fits(w) == local[w] = "" \/ SameFiles(local[w]) = SameFiles(node.mode)
Wanted == node.files \ (IF "blkio.recursive" \in node.files
                          THEN {"blkio.throttle.recursive"} ELSE {})

(* The answer about a container that runs and is listed throughout, while  *)
(* no call fails for a reason of its own, is a whole one: every file the   *)
(* kernel has, its network counters and its restart count, whatever the    *)
(* runtime, the kernel's control groups, the other requests and reloads.   *)
(* (Docker's own reader knows version 1 only: otherwise the daemon's       *)
(* statistics stand for the files.)                                        *)
AnswerIsWhole ==
    \A w \in Workers :
      (Ended(w) /\ ~upset[w] /\ Fits(w) /\ node.runtime \in {"docker", "containerd", "crio"}) =>
        /\ status[w] \in {"200", "503"}
        /\ req[w].kind = "stats" =>
             /\ \/ Wanted \subseteq read[w]
                \/ node.runtime = "docker" /\ node.mode = "unified" /\ "daemon" \in read[w]
             /\ net[w] = Of(w) /\ restart[w]

(* The network counters in an answer are never another container's, as     *)
(* long as the container still ran at the end of the request: a PID of an  *)
(* earlier request or of an earlier container is not used.                 *)
NetworkIsItsOwn ==
    \A w \in Workers :
      (Ended(w) /\ status[w] = "200" /\ state[Of(w)] = "running") =>
          net[w] \in {Of(w), Nobody}

(* The version in use is the one the loaded file gives, or the detected    *)
(* one where it gives none: a detected version does not outlive a reload   *)
(* that gives another, unless the reload falls between a request's reading *)
(* and its writing, and then only until the next one.                      *)
VersionKept ==
    raced \/ version = configured \/ (configured = "" /\ version = node.mode)

(* Whoever holds a lock is a request inside the section it guards, and the *)
(* only one there: the listing of the pods for a restart cache, the reading*)
(* of blkio's files.  So two such readings do not overlap, and no request  *)
(* waits for one that is over, answered, failed or panicked.               *)
InSection(w, x) ==
    IF x = "blkio" THEN At(w, {"blkioFiles"}) ELSE At(w, {"list"}) /\ Cache(w) = x
LockIsReleased ==
    \A x \in Locks : /\ lock[x] = Nobody \/ InSection(lock[x], x)
                     /\ \A w \in Workers : InSection(w, x) => lock[x] = w
=============================================================================
