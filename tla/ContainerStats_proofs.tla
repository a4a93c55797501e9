------------------------ MODULE ContainerStats_proofs ------------------------
(***************************************************************************)
(* Theorems about the requests for containers, as NodeHelper serves them,  *)
(* for any number of workers, containers, PIDs, nodes, reloads and failing *)
(* calls: a lock is held by a request in the section it guards and by no   *)
(* other (LockIsReleased); network counters are never another container's  *)
(* (NetworkIsItsOwn); a detected version does not outlive a reload that    *)
(* gives another (VersionKept); an answer that nothing upset is a whole    *)
(* one (AnswerIsWhole).                                                    *)
(***************************************************************************)
EXTENDS NodeHelper, SequenceTheorems, TLAPS

-----------------------------------------------------------------------------
(* Plans.  No plan names the items that only a step puts there: the        *)
(* section of a lock, and the writing of a detected version.               *)

Parts == {<<>>, <<CgroupV1Cpu, CgroupV1Memory>>, <<CgroupV1Blkio>>,
          <<CgroupV2Cpu, CgroupV2Memory, CgroupV2Io>>,
          <<DockerCpu, DockerMemory, DockerBlkio>>}
Otherwise == {"fail", "skip", "done", "dockerInspect", "dockerApi"}
PlanCalls == {"runtime", "daemonStats", "exec", "pidFile", "pid", "net", "restart",
              "version", "kube", "find", "files", "blkio", "unsupported", "unknownMode"}
Sections  == {"list", "blkioFiles"}
PlanItems == [call : PlanCalls, of : Parts, otherwise : Otherwise]
Items     == [call : PlanCalls \cup Sections \cup {"keep"}, of : Parts,
              otherwise : Otherwise]
PlanNames == {"stats", "inspect", "volume", "netstat", "log", "all"} \cup
             {"dockerInspect", "dockerApi"}

LEMMA ItemType ==
    /\ \A c \in PlanCalls, o \in Otherwise : Call(c, o) \in PlanItems
    /\ \A p \in Parts, o \in Otherwise : Files(p, o) \in PlanItems
    /\ \A o \in Otherwise : Blkio(CgroupV1Blkio, o) \in PlanItems
    /\ \A o \in Otherwise : Call("keep", o) \in Items
    /\ PlanItems \subseteq Items
<1>1. <<>> \in Parts /\ <<CgroupV1Blkio>> \in Parts BY DEF Parts
<1>2. QED BY <1>1 DEF PlanItems, Items, Call, Files, Blkio, PlanCalls

LEMMA DockerFilesType == DockerFiles \in Seq(PlanItems)
<1>1. /\ Files(<<DockerCpu, DockerMemory, DockerBlkio>>, "dockerApi") \in PlanItems
      /\ Call("net", "dockerApi") \in PlanItems
  BY ItemType DEF Parts, PlanCalls, Otherwise
<1>2. QED BY <1>1 DEF DockerFiles

LEMMA CgroupPlanType ==
    ASSUME NEW v PROVE CgroupPlan(v) \in Seq(PlanItems) /\ CgroupPlan(v) # <<>>
<1>1. /\ Files(<<CgroupV1Cpu, CgroupV1Memory>>, "fail") \in PlanItems
      /\ Files(<<CgroupV2Cpu, CgroupV2Memory, CgroupV2Io>>, "fail") \in PlanItems
  BY ItemType DEF Parts, Otherwise
<1>2. /\ Blkio(CgroupV1Blkio, "fail") \in PlanItems /\ Call("net", "fail") \in PlanItems
      /\ Call("unknownMode", "fail") \in PlanItems
  BY ItemType DEF PlanCalls, Otherwise
<1>3. GetContainerStatsCgroupV1 \in Seq(PlanItems) /\ GetContainerStatsCgroupV1 # <<>>
  BY <1>1, <1>2 DEF GetContainerStatsCgroupV1
<1>4. GetContainerStatsCgroupV2 \in Seq(PlanItems) /\ GetContainerStatsCgroupV2 # <<>>
  BY <1>1, <1>2 DEF GetContainerStatsCgroupV2
<1>5. << Call("unknownMode", "fail") >> \in Seq(PlanItems) BY <1>2
<1>6. QED BY <1>3, <1>4, <1>5 DEF CgroupPlan

LEMMA PlanType ==
    ASSUME NEW name \in PlanNames, NEW r PROVE Plan(name, r) \in Seq(PlanItems)
<1>1. /\ Call("runtime", "fail") \in PlanItems /\ Call("pidFile", "fail") \in PlanItems
      /\ Call("restart", "fail") \in PlanItems /\ Call("version", "fail") \in PlanItems
      /\ Call("unsupported", "fail") \in PlanItems /\ Call("find", "fail") \in PlanItems
      /\ Call("exec", "fail") \in PlanItems /\ Call("kube", "fail") \in PlanItems
      /\ Call("daemonStats", "fail") \in PlanItems
  BY ItemType DEF PlanCalls, Otherwise
<1>2. /\ Call("restart", "skip") \in PlanItems /\ Call("pid", "skip") \in PlanItems
      /\ Call("pid", "done") \in PlanItems /\ Call("net", "done") \in PlanItems
  BY ItemType DEF PlanCalls, Otherwise
<1>3. /\ Call("runtime", "dockerInspect") \in PlanItems
      /\ Call("pidFile", "dockerInspect") \in PlanItems
      /\ Call("pidFile", "dockerApi") \in PlanItems
  BY ItemType DEF PlanCalls, Otherwise
<1>4. DockerStats \in Seq(PlanItems)
  BY <1>2, <1>3, DockerFilesType, ConcatProperties DEF DockerStats
<1>5. DockerInspect \in Seq(PlanItems)
  BY <1>2, <1>3, DockerFilesType, ConcatProperties DEF DockerInspect
<1>6. DockerApi \in Seq(PlanItems) BY <1>1, <1>2 DEF DockerApi
<1>7. Unsupported \in Seq(PlanItems) BY <1>1 DEF Unsupported
<1>8. GetContainerStats(r) \in Seq(PlanItems)
  BY <1>1, <1>2, <1>4, <1>7 DEF GetContainerStats, ContainerdStats, CrioStats
<1>9. GetContainerInspect(r) \in Seq(PlanItems)
  BY <1>1, <1>7 DEF GetContainerInspect, DockerInspection, ContainerdInspection,
     CrioInspection
<1>10. ExecuteCommandEx \in Seq(PlanItems) BY <1>1 DEF ExecuteCommandEx
<1>11. Volumes \in Seq(PlanItems) BY <1>1, <1>10, ConcatProperties DEF Volumes
<1>12. Netstat(r) \in Seq(PlanItems) BY <1>1, <1>10 DEF Netstat, ExecuteCommand
<1>13. Logs \in Seq(PlanItems) /\ All \in Seq(PlanItems) BY <1>1 DEF Logs, All
<1>14. QED
  BY <1>5, <1>6, <1>8, <1>9, <1>11, <1>12, <1>13 DEF Plan, PlanNames

-----------------------------------------------------------------------------
(* Types, and what a request under way has left of its plan: an item to    *)
(* begin with, and after it items of a plan.                               *)

Statuses == {"busy", "200", "400", "500", "503", "aborted"}
Kinds    == {"stats", "inspect", "volume", "netstat", "log", "all"}

NodeType ==
    /\ state \in [Containers -> {"created", "running", "ended", "removed"}]
    /\ pidOf \in [Containers -> Pids \cup {Nobody}]
    /\ lock \in [Locks -> Workers \cup {Nobody}] /\ raced \in BOOLEAN
RequestType ==
    /\ req \in [Workers -> [kind : Kinds \cup {"none"}, of : Containers]]
    /\ rest \in [Workers -> Seq(Items)] /\ status \in [Workers -> Statuses]
    /\ pid \in [Workers -> Pids \cup {Nobody}]
    /\ net \in [Workers -> Containers \cup {Nobody}]
RestInv == \A w \in Workers :
             Busy(w) => rest[w] # <<>> /\ Tail(rest[w]) \in Seq(PlanItems)
StatsTypes == NodeType /\ RequestType /\ RestInv

(* What a step of w does to the requests: w goes on with items of a plan,  *)
(* or is answered; or it is put at an item of its own, c.                  *)
OthersStay(w) ==
    /\ rest' \in [Workers -> Seq(Items)] /\ status' \in [Workers -> Statuses]
    /\ \A v \in Workers \ {w} : UNCHANGED <<rest[v], status[v], req[v]>>
GoesOn(w) ==
    /\ OthersStay(w) /\ rest'[w] \in Seq(PlanItems)
    /\ status'[w] = "busy" => rest'[w] # <<>>
IsPutAt(w, c) ==
    /\ OthersStay(w) /\ rest'[w] # <<>> /\ Tail(rest'[w]) \in Seq(PlanItems)
    /\ Head(rest'[w]).call = c /\ UNCHANGED <<status, req>>

LEMMA PlanItemsSeq == Seq(PlanItems) \subseteq Seq(Items)
BY ItemType

LEMMA StatsStartTypes == ASSUME NEW n, StatsStart(n) PROVE StatsTypes
<1>1. NodeType BY StatsAssumption DEF StatsStart, NodeType, Locks
<1>2. RequestType
  <2>1. NoRequest \in [kind : Kinds \cup {"none"}, of : Containers]
    <3>1. (CHOOSE c \in Containers : TRUE) \in Containers BY StatsAssumption
    <3>2. QED BY <3>1 DEF NoRequest
  <2>2. rest \in [Workers -> Seq(Items)]
    <3>1. <<>> \in Seq(Items) OBVIOUS
    <3>2. rest = [w \in Workers |-> <<>>] BY DEF StatsStart
    <3>3. QED BY <3>1, <3>2
  <2>3. QED BY <2>1, <2>2 DEF StatsStart, RequestType, Statuses
<1>3. RestInv BY DEF StatsStart, RestInv, Busy
<1>4. QED BY <1>1, <1>2, <1>3 DEF StatsTypes

LEMMA AdvanceGoesOn ==
    ASSUME StatsTypes, NEW w \in Workers, Busy(w), NEW ok \in BOOLEAN, NEW files, NEW whose,
           NEW count, Advance(w, ok, files, whose, count)
    PROVE  /\ GoesOn(w) /\ req' = req
           /\ net'[w] \in {whose, Nobody} /\ \A v \in Workers \ {w} : net'[v] = net[v]
           /\ whose \in Containers \cup {Nobody} =>
                net' \in [Workers -> Containers \cup {Nobody}]
<1> DEFINE then     == Head(rest[w]).otherwise
           replaced == ~ok /\ then \notin {"fail", "skip", "done"}
           left     == CASE ok \/ then = "skip" -> Tail(rest[w])
                         [] replaced            -> Plan(then, node.runtime)
                         [] OTHER               -> <<>>
<1>1. then \in Otherwise
  <2>1. Head(rest[w]) \in Items BY DEF StatsTypes, RequestType, RestInv
  <2>2. QED BY <2>1 DEF Items
<1>2. left \in Seq(PlanItems)
  <2>1. Tail(rest[w]) \in Seq(PlanItems) BY DEF StatsTypes, RestInv
  <2>2. replaced => Plan(then, node.runtime) \in Seq(PlanItems)
    BY <1>1, PlanType DEF Otherwise, PlanNames
  <2>3. <<>> \in Seq(PlanItems) OBVIOUS
  <2> HIDE DEF then, replaced
  <2>4. QED BY <2>1, <2>2, <2>3
<1>3. /\ rest' = [rest EXCEPT ![w] = left]
      /\ status' = [status EXCEPT ![w] = CASE ~ok /\ then = "fail" -> "500"
                                           [] left = <<>>          -> "200"
                                           [] OTHER                -> "busy"]
      /\ net' = [net EXCEPT ![w] = IF replaced THEN Nobody ELSE whose]
      /\ req' = req
  BY DEF Advance
<1> HIDE DEF then, replaced, left
<1>4. GoesOn(w) /\ req' = req
  BY <1>2, <1>3, PlanItemsSeq DEF GoesOn, OthersStay, StatsTypes, RequestType, Statuses
<1>5. QED BY <1>3, <1>4 DEF StatsTypes, RequestType

(* An item that becomes another one in place keeps what follows it.        *)
LEMMA Relabel ==
    ASSUME StatsTypes, NEW w \in Workers, Busy(w), NEW c \in Sections,
           rest' = [rest EXCEPT ![w][1].call = c], UNCHANGED <<status, req>>
    PROVE  IsPutAt(w, c)
<1>1. rest[w] \in Seq(Items) /\ rest[w] # <<>> /\ Tail(rest[w]) \in Seq(PlanItems)
  BY DEF StatsTypes, RequestType, RestInv
<1> DEFINE first == [rest[w][1] EXCEPT !.call = c]
<1>2. first \in Items /\ first.call = c
  <2>1. rest[w][1] \in Items BY <1>1
  <2>2. QED BY <2>1 DEF Items
<1>3. rest' = [rest EXCEPT ![w] = [rest[w] EXCEPT ![1] = first]] OBVIOUS
<1> HIDE DEF first
<1> DEFINE r == [rest[w] EXCEPT ![1] = first]
<1>4. r \in Seq(Items) /\ Len(r) = Len(rest[w]) /\ r # <<>> BY <1>1, <1>2
<1>5. Tail(r) = Tail(rest[w]) BY <1>1, <1>4
<1>6. Head(r).call = c BY <1>1, <1>2, <1>4
<1> HIDE DEF r
<1>7. rest'[w] = r /\ rest' \in [Workers -> Seq(Items)]
  BY <1>3, <1>4 DEF StatsTypes, RequestType, r
<1>8. QED
  BY <1>1, <1>3, <1>4, <1>5, <1>6, <1>7 DEF IsPutAt, OthersStay, StatsTypes, RequestType

LEMMA PanicGoesOn ==
    ASSUME StatsTypes, NEW w \in Workers, Panics(w) PROVE GoesOn(w)
<1>1. <<>> \in Seq(PlanItems) /\ <<>> \in Seq(Items) OBVIOUS
<1>2. QED
  BY <1>1 DEF Panics, GoesOn, OthersStay, StatsTypes, RequestType, Statuses

(* The steps that go on with the plan, and take and release no lock.       *)
LEMMA PlainGoesOn ==
    ASSUME StatsTypes, NEW w \in Workers,
           ReadFiles(w) \/ ReadNetworkStats(w) \/ AskRuntime(w)
             \/ GetContainerPid(w) \/ AskKubernetes(w)
    PROVE  GoesOn(w) /\ req' = req
<1>1. Busy(w) BY DEF ReadFiles, ReadNetworkStats, AskRuntime, GetContainerPid,
                    AskKubernetes, At
<1>2. \/ Panics(w)
      \/ \E ok \in BOOLEAN : \E files, whose, count : Advance(w, ok, files, whose, count)
  <2>1. CASE ReadFiles(w)
    <3>1. \E ok \in BOOLEAN : \E files : Got(w, ok, files)
      BY <2>1, Zenon DEF ReadFiles, ReadParts
    <3>2. QED BY <3>1 DEF Got
  <2>2. CASE ReadNetworkStats(w) BY <2>2 DEF ReadNetworkStats, Got
  <2>3. CASE AskRuntime(w)
    <3>1. \E ok \in BOOLEAN : \E files : Got(w, ok, files) BY <2>3 DEF AskRuntime
    <3>2. QED BY <3>1 DEF Got
  <2>4. CASE GetContainerPid(w) BY <2>4 DEF GetContainerPid, Got
  <2>5. CASE AskKubernetes(w)
    <3>1. \/ Got(w, FALSE, {}) \/ Panics(w)
          \/ Got(w, At(w, {"kube"}) \/ Of(w) \in listed, {})
      BY <2>5 DEF AskKubernetes
    <3>2. (At(w, {"kube"}) \/ Of(w) \in listed) \in BOOLEAN BY DEF At
    <3>3. QED BY <3>1, <3>2, Zenon DEF Got
  <2>6. QED BY <2>1, <2>2, <2>3, <2>4, <2>5
<1>3. Panics(w) => req' = req BY DEF Panics
<1>4. QED BY <1>1, <1>2, <1>3, AdvanceGoesOn, PanicGoesOn

(* The sections: a request enters one with its lock and leaves it without. *)
LEMMA EntersShape ==
    ASSUME StatsTypes, NEW w \in Workers, GetContainerRestartCount(w) \/ LockBlkio(w)
    PROVE  /\ req' = req
           /\ \/ GoesOn(w) /\ lock' = lock
              \/ \E x \in Locks, c \in Sections :
                   /\ (x = "blkio" /\ c = "blkioFiles") \/ (x = Cache(w) /\ c = "list")
                   /\ IsPutAt(w, c) /\ lock[x] = Nobody /\ lock' = [lock EXCEPT ![x] = w]
<1>1. CASE LockBlkio(w)
  <2>0. /\ Busy(w) /\ UNCHANGED <<req, status>>
        /\ rest' = [rest EXCEPT ![w][1].call = "blkioFiles"]
    BY <1>1 DEF LockBlkio, At
  <2>1. Busy(w) /\ IsPutAt(w, "blkioFiles")
    BY <2>0, Relabel DEF Sections
  <2>2. lock["blkio"] = Nobody /\ lock' = [lock EXCEPT !["blkio"] = w]
    BY <1>1 DEF LockBlkio
  <2>3. "blkio" \in Locks /\ "blkioFiles" \in Sections BY DEF Locks, Sections
  <2>4. \E x \in Locks, c \in Sections :
          /\ x = "blkio" /\ c = "blkioFiles"
          /\ IsPutAt(w, c) /\ lock[x] = Nobody /\ lock' = [lock EXCEPT ![x] = w]
    BY <2>1, <2>2, <2>3
  <2>5. QED BY <2>0, <2>4
<1>2. CASE GetContainerRestartCount(w)
  <2>1. Busy(w) BY <1>2 DEF GetContainerRestartCount, At
  <2>2. CASE fresh[Cache(w)] /\ Of(w) \in known[Cache(w)]
    BY <1>2, <2>1, <2>2, AdvanceGoesOn DEF GetContainerRestartCount
  <2>3. CASE ~(fresh[Cache(w)] /\ Of(w) \in known[Cache(w)])
    <3>1. /\ rest' = [rest EXCEPT ![w][1].call = "list"]
          /\ lock' = [lock EXCEPT ![Cache(w)] = w] /\ lock[Cache(w)] = Nobody
          /\ UNCHANGED <<req, status>>
      BY <1>2, <2>3 DEF GetContainerRestartCount
    <3>2. IsPutAt(w, "list") BY <2>1, <3>1, Relabel DEF Sections
    <3>3. Cache(w) \in Locks BY DEF Cache, Locks, Caches
    <3>4. QED BY <3>1, <3>2, <3>3 DEF Sections
  <2>4. QED BY <2>2, <2>3
<1>3. QED BY <1>1, <1>2

LEMMA LeavesShape ==
    ASSUME StatsTypes, NEW w \in Workers, ListPods(w) \/ ReadBlkio(w)
    PROVE  /\ req' = req /\ GoesOn(w)
           /\ \E x \in Locks : InSection(w, x) /\ lock' = [lock EXCEPT ![x] = Nobody]
<1>1. CASE ListPods(w)
  <2>1. Busy(w) /\ lock' = [lock EXCEPT ![Cache(w)] = Nobody] /\ At(w, {"list"})
    BY <1>1 DEF ListPods, At
  <2>2. InSection(w, Cache(w)) /\ Cache(w) \in Locks
    BY <2>1 DEF InSection, Cache, Locks, Caches
  <2>3. \/ Panics(w)
        \/ Got(w, FALSE, {})
        \/ \E found \in BOOLEAN : Advance(w, found, {}, net[w], found)
    <3> DEFINE found == Of(w) \in known'[Cache(w)]
    <3>1. Panics(w) \/ Got(w, FALSE, {}) \/ Advance(w, found, {}, net[w], found)
      BY <1>1 DEF ListPods
    <3>2. found \in BOOLEAN OBVIOUS
    <3> HIDE DEF found
    <3>3. QED BY <3>1, <3>2
  <2>4. GoesOn(w) /\ req' = req
    BY <2>1, <2>3, AdvanceGoesOn, PanicGoesOn DEF Got, Panics
  <2>5. QED BY <2>1, <2>2, <2>4
<1>2. CASE ReadBlkio(w)
  <2>1. Busy(w) /\ lock' = [lock EXCEPT !["blkio"] = Nobody] /\ InSection(w, "blkio")
    BY <1>2 DEF ReadBlkio, At, InSection
  <2>2. \E ok \in BOOLEAN : \E files : Got(w, ok, files)
    BY <1>2, Zenon DEF ReadBlkio, ReadParts
  <2>3. GoesOn(w) /\ req' = req BY <2>1, <2>2, AdvanceGoesOn DEF Got
  <2>4. QED BY <2>1, <2>3 DEF Locks
<1>3. QED BY <1>1, <1>2

(* The version: an empty one is detected, by an item of its own.           *)
LEMMA VersionShape ==
    ASSUME StatsTypes, NEW w \in Workers, ReadVersion(w) \/ DetectVersion(w) \/ Refuse(w)
    PROVE  /\ req' = req /\ lock' = lock
           /\ \/ GoesOn(w)
              \/ ReadVersion(w) /\ version = "" /\ IsPutAt(w, "keep")
<1>1. \A v : CgroupPlan(v) \in Seq(Items) /\ CgroupPlan(v) \in Seq(PlanItems)
            /\ CgroupPlan(v) # <<>>
  BY CgroupPlanType, PlanItemsSeq
<1>2. CASE ReadVersion(w) /\ version # ""
  BY <1>1, <1>2 DEF ReadVersion, cacheVars, GoesOn, OthersStay, StatsTypes, RequestType
<1>3. CASE ReadVersion(w) /\ version = ""
  <2>1. Call("keep", "fail") \in Items BY ItemType DEF Otherwise
  <2> DEFINE r == << Call("keep", "fail") >>
  <2>2. /\ r \in Seq(Items) /\ r # <<>> /\ Tail(r) = <<>>
        /\ Head(r) = Call("keep", "fail")
    BY <2>1
  <2>3. <<>> \in Seq(PlanItems) /\ Call("keep", "fail").call = "keep" BY DEF Call
  <2>4. rest' = [rest EXCEPT ![w] = r] /\ UNCHANGED <<req, lock, status>>
    BY <1>3 DEF ReadVersion, cacheVars
  <2> HIDE DEF r
  <2>5. QED
    BY <1>3, <2>2, <2>3, <2>4 DEF IsPutAt, OthersStay, StatsTypes, RequestType
<1>4. CASE DetectVersion(w)
  BY <1>1, <1>4 DEF DetectVersion, cacheVars, GoesOn, OthersStay, StatsTypes, RequestType
<1>5. CASE Refuse(w)
  <2>1. <<>> \in Seq(PlanItems) /\ <<>> \in Seq(Items) OBVIOUS
  <2>2. rest' = [rest EXCEPT ![w] = <<>>] /\ UNCHANGED <<req, lock>>
        /\ \E a \in {"400", "500"} : status' = [status EXCEPT ![w] = a]
    BY <1>5 DEF Refuse, cacheVars
  <2>3. QED
    BY <2>1, <2>2 DEF GoesOn, OthersStay, StatsTypes, RequestType, Statuses
<1>6. QED BY <1>2, <1>3, <1>4, <1>5

LEMMA RequestShape ==
    ASSUME StatsTypes, NEW w \in Workers, Request(w)
    PROVE  /\ ~Busy(w) /\ lock' = lock /\ GoesOn(w)
           /\ req' \in [Workers -> [kind : Kinds \cup {"none"}, of : Containers]]
           /\ state[req'[w].of] # "created"
           /\ pid' = [pid EXCEPT ![w] = Nobody] /\ net' = [net EXCEPT ![w] = Nobody]
<1>1. PICK r \in Requests[w] :
        LET plan == Plan(r.kind, node.runtime) IN
        /\ state[r.of] # "created" /\ req' = [req EXCEPT ![w] = r]
        /\ rest' = [rest EXCEPT ![w] = plan]
        /\ \/ status' = [status EXCEPT ![w] = IF plan = <<>> THEN "200" ELSE "busy"]
           \/ status' = [status EXCEPT ![w] = "503"]
  BY Zenon DEF Request
<1>2. r \in [kind : Kinds, of : Containers] BY StatsAssumption, Zenon DEF Kinds
<1>3. r.kind \in PlanNames /\ r \in [kind : Kinds \cup {"none"}, of : Containers]
  BY <1>2 DEF Kinds, PlanNames
<1> DEFINE plan == Plan(r.kind, node.runtime)
<1>4. plan \in Seq(PlanItems) /\ plan \in Seq(Items) BY <1>3, PlanType, PlanItemsSeq
<1>5. GoesOn(w)
  <2>1. /\ rest' = [rest EXCEPT ![w] = plan]
        /\ \/ status' = [status EXCEPT ![w] = IF plan = <<>> THEN "200" ELSE "busy"]
           \/ status' = [status EXCEPT ![w] = "503"]
        /\ \A v \in Workers \ {w} : req'[v] = req[v]
    BY <1>1
  <2> HIDE DEF plan
  <2>2. QED BY <1>4, <2>1 DEF GoesOn, OthersStay, StatsTypes, RequestType, Statuses
<1>6. req' \in [Workers -> [kind : Kinds \cup {"none"}, of : Containers]]
      /\ req'[w] = r
  BY <1>1, <1>3 DEF StatsTypes, RequestType
<1>7. /\ ~Busy(w) /\ lock' = lock
      /\ pid' = [pid EXCEPT ![w] = Nobody] /\ net' = [net EXCEPT ![w] = Nobody]
  BY DEF Request, cacheVars
<1>8. QED BY <1>1, <1>5, <1>6, <1>7

-----------------------------------------------------------------------------
(* The steps of the node leave the requests and the locks alone, and every *)
(* step leaves the node what it is.                                        *)
LEMMA NodeStepShape ==
    ASSUME StatsNode PROVE UNCHANGED <<node, lock, req, rest, status, pid, net, local>>
BY DEF StatsNode, ContainerStarts, ContainerListed, ContainerEnds, ContainerRemoved,
       Reload, CacheAges, NodeStep, nodeVars, confVars, cacheVars, workerVars

LEMMA NodeIsFixed == ASSUME StatsNext PROVE node' = node
<1>1. ASSUME NEW w \in Workers, RequestStep(w) PROVE node' = node
  BY <1>1 DEF RequestStep, ReadFiles, LockBlkio, ReadBlkio, ReadNetworkStats, AskRuntime,
     GetContainerPid, AskKubernetes, GetContainerRestartCount, ListPods, ReadVersion,
     DetectVersion, Refuse, Quiet, CallFails, nodeVars
<1>2. ASSUME NEW w \in Workers, Request(w) PROVE node' = node
  BY <1>2 DEF Request, nodeVars
<1>3. QED BY <1>1, <1>2, NodeStepShape DEF StatsNext

LEMMA InSectionKept ==
    ASSUME NEW v, UNCHANGED <<node, rest[v], status[v], req[v]>>, NEW x
    PROVE  InSection(v, x)' <=> InSection(v, x)
BY DEF InSection, At, Busy, Cache

LEMMA OutOfSections ==
    ASSUME NEW w, GoesOn(w), NEW x PROVE ~InSection(w, x)'
<1>1. status'[w] = "busy" => Head(rest'[w]) \in PlanItems BY DEF GoesOn
<1>2. status'[w] = "busy" => Head(rest'[w]).call \in PlanCalls BY <1>1 DEF PlanItems
<1>3. QED BY <1>2 DEF InSection, At, Busy, PlanCalls

(* A request that enters no section and leaves none.                       *)
LEMMA LocksKept ==
    ASSUME LockIsReleased, NEW w \in Workers, node' = node, OthersStay(w), lock' = lock,
           \A x \in Locks : ~InSection(w, x) /\ ~InSection(w, x)', StatsTypes
    PROVE  LockIsReleased'
<1>1. \A v \in Workers \ {w} : \A x \in Locks : InSection(v, x)' <=> InSection(v, x)
  BY InSectionKept DEF OthersStay
<1>2. \A x \in Locks : lock[x] # w BY StatsAssumption DEF LockIsReleased
<1>3. \A x \in Locks : lock[x] \in Workers \cup {Nobody} BY DEF StatsTypes, NodeType
<1>4. QED BY <1>1, <1>2, <1>3 DEF LockIsReleased

LEMMA LockIsTaken ==
    ASSUME LockIsReleased, NEW w \in Workers, node' = node, OthersStay(w), StatsTypes,
           NEW y \in Locks, lock[y] = Nobody, lock' = [lock EXCEPT ![y] = w],
           \A x \in Locks : ~InSection(w, x) /\ (InSection(w, x)' <=> x = y)
    PROVE  LockIsReleased'
<1>1. \A v \in Workers \ {w} : \A x \in Locks : InSection(v, x)' <=> InSection(v, x)
  BY InSectionKept DEF OthersStay
<1>2. \A x \in Locks : lock[x] # w BY StatsAssumption DEF LockIsReleased
<1>3. \A x \in Locks : lock[x] \in Workers \cup {Nobody} BY DEF StatsTypes, NodeType
<1>4. lock'[y] = w /\ \A x \in Locks \ {y} : lock'[x] = lock[x]
  BY DEF StatsTypes, NodeType
<1>5. \A v \in Workers \ {w} : ~InSection(v, y)
  BY StatsAssumption DEF LockIsReleased
<1>6. QED BY <1>1, <1>2, <1>3, <1>4, <1>5 DEF LockIsReleased

LEMMA LockIsGivenBack ==
    ASSUME LockIsReleased, NEW w \in Workers, node' = node, OthersStay(w), StatsTypes,
           NEW y \in Locks, InSection(w, y), lock' = [lock EXCEPT ![y] = Nobody],
           \A x \in Locks : ~InSection(w, x)' /\ (x # y => ~InSection(w, x))
    PROVE  LockIsReleased'
<1>1. \A v \in Workers \ {w} : \A x \in Locks : InSection(v, x)' <=> InSection(v, x)
  BY InSectionKept DEF OthersStay
<1>2. \A x \in Locks \ {y} : lock[x] # w BY StatsAssumption DEF LockIsReleased
<1>3. \A x \in Locks : lock[x] \in Workers \cup {Nobody} BY DEF StatsTypes, NodeType
<1>4. lock'[y] = Nobody /\ \A x \in Locks \ {y} : lock'[x] = lock[x]
  BY DEF StatsTypes, NodeType
<1>5. \A v \in Workers \ {w} : ~InSection(v, y) BY DEF LockIsReleased
<1>6. QED BY <1>1, <1>2, <1>3, <1>4, <1>5 DEF LockIsReleased

LEMMA LockStep ==
    ASSUME StatsTypes, LockIsReleased, StatsNext PROVE LockIsReleased'
<1>1. CASE StatsNode
  BY <1>1, NodeStepShape DEF LockIsReleased, InSection, At, Busy, Cache
<1>2. ASSUME NEW w \in Workers, Request(w) PROVE LockIsReleased'
  <2>1. \A x \in Locks : ~InSection(w, x)
    BY <1>2, RequestShape DEF InSection, At
  <2>2. \A x \in Locks : ~InSection(w, x)' BY <1>2, RequestShape, OutOfSections
  <2>3. QED BY <1>2, <2>1, <2>2, LocksKept, RequestShape, NodeIsFixed DEF GoesOn
<1>3. ASSUME NEW w \in Workers, RequestStep(w) PROVE LockIsReleased'
  <2>1. CASE \/ ReadFiles(w) \/ ReadNetworkStats(w) \/ AskRuntime(w)
             \/ GetContainerPid(w) \/ AskKubernetes(w)
    <3>1. \A x \in Locks : ~InSection(w, x)
      BY <2>1 DEF ReadFiles, ReadNetworkStats, AskRuntime, GetContainerPid,
         AskKubernetes, InSection, At
    <3>2. lock' = lock
      BY <2>1 DEF ReadFiles, ReadNetworkStats, AskRuntime, GetContainerPid,
         AskKubernetes, cacheVars
    <3>3. QED BY <2>1, <3>1, <3>2, LocksKept, PlainGoesOn, OutOfSections, NodeIsFixed
               DEF GoesOn
  <2>2. CASE ReadVersion(w) \/ DetectVersion(w) \/ Refuse(w)
    <3>1. \A x \in Locks : ~InSection(w, x)
      BY <2>2 DEF ReadVersion, DetectVersion, Refuse, InSection, At
    <3>2. \A x \in Locks : ~InSection(w, x)'
      <4>1. IsPutAt(w, "keep") => ~At(w, {"list"})' /\ ~At(w, {"blkioFiles"})'
        BY DEF IsPutAt, At
      <4>2. IsPutAt(w, "keep") => \A x \in Locks : ~InSection(w, x)'
        BY <4>1 DEF InSection
      <4>3. QED BY <2>2, <4>2, VersionShape, OutOfSections
    <3>3. QED BY <2>2, <3>1, <3>2, LocksKept, VersionShape, NodeIsFixed DEF GoesOn, IsPutAt
  <2>3. CASE GetContainerRestartCount(w) \/ LockBlkio(w)
    <3>1. \A x \in Locks : ~InSection(w, x)
      BY <2>3 DEF GetContainerRestartCount, LockBlkio, InSection, At
    <3>2. CASE GoesOn(w) /\ lock' = lock
      BY <3>1, <3>2, LocksKept, OutOfSections, NodeIsFixed DEF GoesOn
    <3>3. ASSUME NEW y \in Locks, NEW c \in Sections,
                 (y = "blkio" /\ c = "blkioFiles") \/ (y = Cache(w) /\ c = "list"),
                 IsPutAt(w, c), lock[y] = Nobody, lock' = [lock EXCEPT ![y] = w]
          PROVE  LockIsReleased'
      <4>1. Busy(w) BY <2>3 DEF GetContainerRestartCount, LockBlkio, At
      <4>2. Busy(w)' /\ Head(rest'[w]).call = c
        BY <3>3, <4>1 DEF IsPutAt, Busy
      <4>3. Cache(w)' = Cache(w) /\ Cache(w) # "blkio"
        BY <3>3, NodeIsFixed DEF IsPutAt, Cache
      <4>4. \A x \in Locks : InSection(w, x)' <=> x = y
        BY <3>3, <4>2, <4>3 DEF InSection, At
      <4>5. QED BY <3>1, <3>3, <4>4, LockIsTaken, NodeIsFixed DEF IsPutAt
    <3>4. QED BY <2>3, <3>2, <3>3, EntersShape
  <2>4. CASE ListPods(w) \/ ReadBlkio(w)
    <3>1. PICK y \in Locks : InSection(w, y) /\ lock' = [lock EXCEPT ![y] = Nobody]
      BY <2>4, LeavesShape
    <3>2. \A x \in Locks : x # y => ~InSection(w, x)
      BY <3>1 DEF InSection, At, Cache
    <3>3. QED BY <2>4, <3>1, <3>2, LockIsGivenBack, LeavesShape, OutOfSections,
                 NodeIsFixed DEF GoesOn
  <2>5. QED BY <1>3, <2>1, <2>2, <2>3, <2>4 DEF RequestStep
<1>4. QED BY <1>1, <1>2, <1>3 DEF StatsNext

-----------------------------------------------------------------------------
(* Every step keeps the types.                                             *)

LEMMA RestStep ==
    ASSUME StatsTypes, NEW w \in Workers, GoesOn(w) \/ \E c : IsPutAt(w, c) /\ Busy(w)
    PROVE  /\ rest' \in [Workers -> Seq(Items)] /\ status' \in [Workers -> Statuses]
           /\ RestInv'
<1>1. OthersStay(w) BY DEF GoesOn, IsPutAt
<1>2. \A v \in Workers \ {w} : Busy(v)' => rest'[v] # <<>> /\ Tail(rest'[v]) \in Seq(PlanItems)
  BY <1>1 DEF OthersStay, StatsTypes, RestInv, Busy
<1>3. status'[w] = "busy" => rest'[w] # <<>> /\ Tail(rest'[w]) \in Seq(PlanItems)
  BY DEF GoesOn, IsPutAt
<1>4. QED BY <1>1, <1>2, <1>3 DEF OthersStay, RestInv, Busy

LEMMA NodeStepTypes == ASSUME StatsTypes, StatsNode PROVE StatsTypes'
<1>1. RequestType' /\ RestInv'
  BY NodeStepShape DEF StatsTypes, RequestType, RestInv, Busy
<1>2. NodeType'
  <2> USE DEF StatsTypes, NodeType
  <2>1. ASSUME NEW c \in Containers, ContainerStarts(c) PROVE NodeType'
    BY <2>1 DEF ContainerStarts, NodeStep, confVars, cacheVars
  <2>2. ASSUME NEW c \in Containers,
               ContainerListed(c) \/ ContainerEnds(c) \/ ContainerRemoved(c)
        PROVE  NodeType'
    BY <2>2 DEF ContainerListed, ContainerEnds, ContainerRemoved, NodeStep, confVars,
       cacheVars
  <2>3. CASE Reload BY <2>3 DEF Reload, nodeVars, cacheVars
  <2>4. CASE \E x \in Caches : CacheAges(x)
    BY <2>4 DEF CacheAges, nodeVars, confVars
  <2>5. QED BY <2>1, <2>2, <2>3, <2>4 DEF StatsNode
<1>3. QED BY <1>1, <1>2 DEF StatsTypes

(* The PID and the network counters that the steps of a request store.     *)
Stores(w) ==
    /\ UNCHANGED <<state, pidOf, raced>>
    /\ pid' \in [Workers -> Pids \cup {Nobody}]
    /\ net' \in [Workers -> Containers \cup {Nobody}]
    /\ \A v \in Workers \ {w} : UNCHANGED <<pid[v], net[v]>>

(* A step stores the PID of the request's own container, or one that its   *)
(* process left behind, and the counters of whoever holds the PID.         *)
StoresOwn(w) ==
    /\ pid'[w] \in {pid[w], pidOf[Of(w)], Nobody}
    /\ \/ net'[w] \in {net[w], Nobody}
       \/ pid[w] # Nobody /\ net'[w] \in Holder(pid[w])

LEMMA PanicStores ==
    ASSUME StatsTypes, NEW w \in Workers, Panics(w), UNCHANGED <<state, pidOf, raced, pid>>
    PROVE  Stores(w) /\ StoresOwn(w)
BY DEF Panics, Stores, StoresOwn, StatsTypes, RequestType

LEMMA GotStores ==
    ASSUME StatsTypes, NEW w \in Workers, Busy(w), NEW ok \in BOOLEAN, NEW files,
           Got(w, ok, files), UNCHANGED <<state, pidOf, raced>>,
           UNCHANGED pid \/ pid' = [pid EXCEPT ![w] = pidOf[Of(w)]]
             \/ pid' = [pid EXCEPT ![w] = Nobody]
    PROVE  Stores(w) /\ StoresOwn(w)
<1>1. net[w] \in Containers \cup {Nobody} /\ Of(w) \in Containers
  BY DEF StatsTypes, RequestType, Of
<1>2. /\ net'[w] \in {net[w], Nobody} /\ \A v \in Workers \ {w} : net'[v] = net[v]
      /\ net' \in [Workers -> Containers \cup {Nobody}]
  BY <1>1, AdvanceGoesOn DEF Got
<1>3. pidOf[Of(w)] \in Pids \cup {Nobody} BY <1>1 DEF StatsTypes, NodeType
<1>4. QED BY <1>2, <1>3 DEF Stores, StoresOwn, StatsTypes, RequestType

LEMMA RequestStepStores ==
    ASSUME StatsTypes, NEW w \in Workers, RequestStep(w) PROVE Stores(w) /\ StoresOwn(w)
<1> USE DEF Quiet, nodeVars, confVars, CallFails
<1>1. CASE ReadFiles(w)
  <2>1. Busy(w) /\ UNCHANGED <<state, pidOf, raced, pid>> BY <1>1 DEF ReadFiles, At
  <2>2. \E ok \in BOOLEAN : \E files : Got(w, ok, files)
    BY <1>1, Zenon DEF ReadFiles, ReadParts
  <2>3. QED BY <2>1, <2>2, GotStores
<1>2. CASE ReadBlkio(w)
  <2>1. Busy(w) /\ UNCHANGED <<state, pidOf, raced, pid>> BY <1>2 DEF ReadBlkio, At
  <2>2. \E ok \in BOOLEAN : \E files : Got(w, ok, files)
    BY <1>2, Zenon DEF ReadBlkio, ReadParts
  <2>3. QED BY <2>1, <2>2, GotStores
<1>3. CASE LockBlkio(w)
  BY <1>3 DEF LockBlkio, Stores, StoresOwn, StatsTypes, RequestType
<1>4. CASE ReadNetworkStats(w)
  <2>1. Busy(w) /\ UNCHANGED <<state, pidOf, raced, pid>>
    BY <1>4 DEF ReadNetworkStats, At
  <2>2. CASE pid[w] # Nobody /\ Holder(pid[w]) # {}
    <3>1. PICK c \in Holder(pid[w]) : Advance(w, TRUE, {}, c, restart[w])
      BY <1>4, <2>2 DEF ReadNetworkStats
    <3>2. c \in Containers BY DEF Holder
    <3>3. /\ net'[w] \in {c, Nobody} /\ \A v \in Workers \ {w} : net'[v] = net[v]
          /\ net' \in [Workers -> Containers \cup {Nobody}]
      BY <2>1, <3>1, <3>2, AdvanceGoesOn
    <3>4. QED BY <2>1, <2>2, <3>3 DEF Stores, StoresOwn, StatsTypes, RequestType
  <2>3. CASE ~(pid[w] # Nobody /\ Holder(pid[w]) # {})
    BY <1>4, <2>1, <2>3, GotStores DEF ReadNetworkStats
  <2>4. QED BY <2>2, <2>3
<1>5. CASE AskRuntime(w)
  <2>1. Busy(w) /\ UNCHANGED <<state, pidOf, raced>> BY <1>5 DEF AskRuntime, At
  <2>2. \E ok \in BOOLEAN : \E files : Got(w, ok, files) BY <1>5 DEF AskRuntime
  <2>3. \/ UNCHANGED pid \/ pid' = [pid EXCEPT ![w] = pidOf[Of(w)]]
        \/ pid' = [pid EXCEPT ![w] = Nobody]
    BY <1>5 DEF AskRuntime, RuntimePid
  <2>4. QED BY <2>1, <2>2, <2>3, GotStores
<1>6. CASE GetContainerPid(w)
  <2>1. Busy(w) /\ UNCHANGED <<state, pidOf, raced>> BY <1>6 DEF GetContainerPid, At
  <2>2. \E ok \in BOOLEAN : Got(w, ok, {}) BY <1>6 DEF GetContainerPid
  <2>3. \/ UNCHANGED pid \/ pid' = [pid EXCEPT ![w] = pidOf[Of(w)]]
        \/ pid' = [pid EXCEPT ![w] = Nobody]
    BY <1>6 DEF GetContainerPid, RuntimePid
  <2>4. QED BY <2>1, <2>2, <2>3, GotStores
<1>7. CASE AskKubernetes(w)
  <2>1. Busy(w) /\ UNCHANGED <<state, pidOf, raced, pid>> BY <1>7 DEF AskKubernetes, At
  <2>2. \/ Got(w, FALSE, {}) \/ Panics(w)
        \/ Got(w, At(w, {"kube"}) \/ Of(w) \in listed, {})
    BY <1>7 DEF AskKubernetes
  <2>3. (At(w, {"kube"}) \/ Of(w) \in listed) \in BOOLEAN BY DEF At
  <2>4. QED BY <2>1, <2>2, <2>3, GotStores, PanicStores
<1>8. CASE GetContainerRestartCount(w)
  <2>1. Busy(w) /\ UNCHANGED <<state, pidOf, raced, pid>>
    BY <1>8 DEF GetContainerRestartCount, At
  <2>2. Advance(w, TRUE, {}, net[w], TRUE) \/ UNCHANGED net
    BY <1>8 DEF GetContainerRestartCount
  <2>3. net[w] \in Containers \cup {Nobody} BY DEF StatsTypes, RequestType
  <2>4. CASE Advance(w, TRUE, {}, net[w], TRUE)
    BY <2>1, <2>3, <2>4, AdvanceGoesOn DEF Stores, StoresOwn, StatsTypes, RequestType
  <2>5. CASE UNCHANGED net
    BY <2>1, <2>5 DEF Stores, StoresOwn, StatsTypes, RequestType
  <2>6. QED BY <2>2, <2>4, <2>5
<1>9. CASE ListPods(w)
  <2>1. Busy(w) /\ UNCHANGED <<state, pidOf, raced, pid>> BY <1>9 DEF ListPods, At
  <2>2. \/ Panics(w) \/ Got(w, FALSE, {})
        \/ \E found \in BOOLEAN : Advance(w, found, {}, net[w], found)
    <3> DEFINE found == Of(w) \in known'[Cache(w)]
    <3>1. Panics(w) \/ Got(w, FALSE, {}) \/ Advance(w, found, {}, net[w], found)
      BY <1>9 DEF ListPods
    <3>2. found \in BOOLEAN OBVIOUS
    <3> HIDE DEF found
    <3>3. QED BY <3>1, <3>2
  <2>3. net[w] \in Containers \cup {Nobody} BY DEF StatsTypes, RequestType
  <2>4. ASSUME NEW found \in BOOLEAN, Advance(w, found, {}, net[w], found)
        PROVE  Stores(w) /\ StoresOwn(w)
    BY <2>1, <2>3, <2>4, AdvanceGoesOn DEF Stores, StoresOwn, StatsTypes, RequestType
  <2>5. QED BY <2>1, <2>2, <2>4, GotStores, PanicStores
<1>10. CASE ReadVersion(w) \/ DetectVersion(w) \/ Refuse(w)
  BY <1>10 DEF ReadVersion, DetectVersion, Refuse, Stores, StoresOwn, StatsTypes, RequestType
<1>11. QED
  BY <1>1, <1>2, <1>3, <1>4, <1>5, <1>6, <1>7, <1>8, <1>9, <1>10 DEF RequestStep

LEMMA RequestStepRest ==
    ASSUME StatsTypes, NEW w \in Workers, RequestStep(w)
    PROVE  /\ req' = req /\ lock' \in [Locks -> Workers \cup {Nobody}]
           /\ GoesOn(w) \/ \E c : IsPutAt(w, c) /\ Busy(w)
<1>1. lock \in [Locks -> Workers \cup {Nobody}] BY DEF StatsTypes, NodeType
<1>2. CASE \/ ReadFiles(w) \/ ReadNetworkStats(w) \/ AskRuntime(w)
           \/ GetContainerPid(w) \/ AskKubernetes(w)
  <2>1. lock' = lock
    BY <1>2 DEF ReadFiles, ReadNetworkStats, AskRuntime, GetContainerPid,
       AskKubernetes, cacheVars
  <2>2. QED BY <1>1, <1>2, <2>1, PlainGoesOn
<1>3. CASE GetContainerRestartCount(w) \/ LockBlkio(w)
  <2>1. Busy(w) BY <1>3 DEF GetContainerRestartCount, LockBlkio, At
  <2>2. QED BY <1>1, <1>3, <2>1, EntersShape
<1>4. CASE ListPods(w) \/ ReadBlkio(w) BY <1>1, <1>4, LeavesShape
<1>5. CASE ReadVersion(w) \/ DetectVersion(w) \/ Refuse(w)
  <2>1. Busy(w) BY <1>5 DEF ReadVersion, DetectVersion, Refuse, At
  <2>2. QED BY <1>1, <1>5, <2>1, VersionShape
<1>6. QED BY <1>2, <1>3, <1>4, <1>5 DEF RequestStep

LEMMA StatsTypesStep == StatsTypes /\ (StatsNext \/ UNCHANGED statsVars) => StatsTypes'
<1>1. ASSUME StatsTypes, UNCHANGED statsVars PROVE StatsTypes'
  BY <1>1 DEF statsVars, nodeVars, confVars, cacheVars, workerVars, StatsTypes, NodeType,
     RequestType, RestInv, Busy
<1>2. ASSUME StatsTypes, NEW w \in Workers, Request(w) PROVE StatsTypes'
  <2>1. UNCHANGED <<state, pidOf, raced, lock>>
    BY <1>2 DEF Request, nodeVars, confVars, cacheVars
  <2>2. NodeType' BY <1>2, <2>1 DEF StatsTypes, NodeType
  <2>3. pid' \in [Workers -> Pids \cup {Nobody}]
        /\ net' \in [Workers -> Containers \cup {Nobody}]
    BY <1>2, RequestShape DEF StatsTypes, RequestType
  <2>4. QED BY <1>2, <2>2, <2>3, RequestShape, RestStep DEF StatsTypes, RequestType
<1>3. ASSUME StatsTypes, NEW w \in Workers, RequestStep(w) PROVE StatsTypes'
  <2>1. NodeType'
    BY <1>3, RequestStepRest, RequestStepStores DEF Stores, StatsTypes, NodeType
  <2>2. QED
    BY <1>3, <2>1, RequestStepRest, RequestStepStores, RestStep
       DEF Stores, StatsTypes, RequestType
<1>4. QED BY <1>1, <1>2, <1>3, NodeStepTypes DEF StatsNext

-----------------------------------------------------------------------------
(* The requests for containers within the node helper.                     *)

LEMMA StatsInitially == Init => \E n : StatsStart(n)
BY DEF Init, StatsInit, IdleStats

LEMMA StatsSteps == [Next]_helperVars => StatsNext \/ UNCHANGED statsVars
BY DEF Next, helperVars

LEMMA InitTypes == Init => StatsTypes
BY StatsInitially, StatsStartTypes

(* LockIsReleased: a lock is held by a request in the section it guards,   *)
(* the only one there, and by nobody once that request has left it,        *)
(* answered, failed or panicked.                                           *)
THEOREM LockIsReleasedHolds == Spec => []LockIsReleased
<1>1. Init => StatsTypes /\ LockIsReleased
  <2> SUFFICES ASSUME Init PROVE StatsTypes /\ LockIsReleased OBVIOUS
  <2>1. PICK n : StatsStart(n) BY StatsInitially
  <2>2. \A x \in Locks : lock[x] = Nobody BY <2>1 DEF StatsStart
  <2>3. \A w \in Workers : ~Busy(w) BY <2>1 DEF StatsStart, Busy
  <2>4. QED BY <2>2, <2>3, InitTypes DEF LockIsReleased, InSection, At
<1>2. StatsTypes /\ LockIsReleased /\ [Next]_helperVars => (StatsTypes /\ LockIsReleased)'
  <2>1. ASSUME LockIsReleased, UNCHANGED statsVars PROVE LockIsReleased'
    BY <2>1 DEF statsVars, nodeVars, cacheVars, workerVars, LockIsReleased, InSection,
       At, Busy, Cache
  <2>2. QED BY <2>1, StatsSteps, LockStep, StatsTypesStep
<1>3. QED BY <1>1, <1>2, PTL DEF Spec

-----------------------------------------------------------------------------
(* Network counters.  No two running containers have one PID, one that has *)
(* not started has none, and a request about a running container has no    *)
(* PID but its container's and no counters but its container's.  It stays  *)
(* so while others start: no request under way is about one of those.      *)

PidsUnique ==
    /\ \A c, d \in Containers :
         (state[c] = "running" /\ state[d] = "running" /\ pidOf[c] = pidOf[d]) => c = d
    /\ \A c \in Containers : state[c] = "created" => pidOf[c] = Nobody
OwnNetwork(w) ==
    /\ state[Of(w)] = "running" => /\ pid[w] \in {pidOf[Of(w)], Nobody}
                                   /\ net[w] \in {Of(w), Nobody}
    /\ state[Of(w)] = "created" => pid[w] = Nobody /\ net[w] = Nobody
Networks == PidsUnique /\ \A w \in Workers : OwnNetwork(w)

LEMMA NetworksNode == ASSUME StatsTypes, Networks, StatsNode PROVE Networks'
<1>1. UNCHANGED <<req, pid, net>> BY NodeStepShape
<1>2. \A w \in Workers : Of(w) \in Containers BY DEF StatsTypes, RequestType, Of
<1>3. ASSUME NEW c \in Containers, ContainerStarts(c) PROVE Networks'
  <2>1. state[c] = "created" /\ state' = [state EXCEPT ![c] = "running"]
    BY <1>3 DEF ContainerStarts
  <2>2. PICK p \in Pids : Holder(p) = {} /\ pidOf' = [pidOf EXCEPT ![c] = p]
    BY <1>3 DEF ContainerStarts
  <2>3. \A d \in Containers : state[d] = "running" => pidOf[d] # p /\ d # c
    BY <2>1, <2>2 DEF Holder
  <2>4. /\ state'[c] = "running" /\ pidOf'[c] = p
        /\ \A d \in Containers \ {c} : state'[d] = state[d] /\ pidOf'[d] = pidOf[d]
    BY <2>1, <2>2 DEF StatsTypes, NodeType
  <2>5. PidsUnique' BY <2>3, <2>4 DEF Networks, PidsUnique
  <2>6. ASSUME NEW w \in Workers PROVE OwnNetwork(w)'
    BY <1>1, <1>2, <2>1, <2>4 DEF Networks, OwnNetwork, Of
  <2>7. QED BY <2>5, <2>6 DEF Networks
<1>4. ASSUME NEW c \in Containers,
             ContainerListed(c) \/ ContainerEnds(c) \/ ContainerRemoved(c)
      PROVE  Networks'
  <2>1. pidOf' = pidOf /\ \E s \in {"ended", "removed"} :
                             UNCHANGED state \/ state' = [state EXCEPT ![c] = s]
    BY <1>4 DEF ContainerListed, ContainerEnds, ContainerRemoved
  <2>2. \A d \in Containers : state'[d] \in {"running", "created"} => state'[d] = state[d]
    BY <2>1 DEF StatsTypes, NodeType
  <2>3. PidsUnique' BY <2>1, <2>2 DEF Networks, PidsUnique
  <2>4. ASSUME NEW w \in Workers PROVE OwnNetwork(w)'
    BY <1>1, <1>2, <2>1, <2>2 DEF Networks, OwnNetwork, Of
  <2>5. QED BY <2>3, <2>4 DEF Networks
<1>5. CASE Reload \/ \E x \in Caches : CacheAges(x)
  <2>1. UNCHANGED <<state, pidOf>> BY <1>5 DEF Reload, CacheAges, nodeVars
  <2>2. QED BY <1>1, <2>1 DEF Networks, PidsUnique, OwnNetwork, Of
<1>6. QED BY <1>3, <1>4, <1>5 DEF StatsNode

LEMMA NetworksRequest ==
    ASSUME StatsTypes, Networks, NEW w \in Workers, Request(w) \/ RequestStep(w)
    PROVE  Networks'
<1>1. UNCHANGED <<state, pidOf>>
  <2>1. CASE Request(w) BY <2>1 DEF Request, nodeVars
  <2>2. CASE RequestStep(w) BY <2>2, RequestStepStores DEF Stores
  <2>3. QED BY <2>1, <2>2
<1>2. PidsUnique' BY <1>1 DEF Networks, PidsUnique
<1>3. ASSUME NEW v \in Workers \ {w} PROVE OwnNetwork(v)'
  <2>1. UNCHANGED <<req[v], pid[v], net[v]>>
    <3>1. CASE Request(w)
      BY <3>1, RequestShape DEF GoesOn, OthersStay, StatsTypes, RequestType
    <3>2. CASE RequestStep(w) BY <3>2, RequestStepStores, RequestStepRest DEF Stores
    <3>3. QED BY <3>1, <3>2
  <2>2. QED BY <1>1, <2>1 DEF Networks, OwnNetwork, Of
<1>4. OwnNetwork(w)'
  <2>1. CASE Request(w)
    BY <2>1, RequestShape DEF OwnNetwork, StatsTypes, RequestType
  <2>2. CASE RequestStep(w)
    <3>1. req' = req /\ StoresOwn(w) BY <2>2, RequestStepRest, RequestStepStores
    <3>2. Of(w) \in Containers BY DEF StatsTypes, RequestType, Of
    <3>3. ASSUME state[Of(w)] = "running"
          PROVE  pid'[w] \in {pidOf[Of(w)], Nobody} /\ net'[w] \in {Of(w), Nobody}
      <4>1. pid'[w] \in {pidOf[Of(w)], Nobody}
        BY <3>1, <3>3 DEF StoresOwn, Networks, OwnNetwork
      <4>2. pid[w] # Nobody => Holder(pid[w]) \subseteq {Of(w)}
        BY <3>2, <3>3 DEF Networks, OwnNetwork, PidsUnique, Holder
      <4>3. QED BY <3>1, <3>3, <4>1, <4>2 DEF StoresOwn, Networks, OwnNetwork
    <3>4. ASSUME state[Of(w)] = "created" PROVE pid'[w] = Nobody /\ net'[w] = Nobody
      BY <3>1, <3>2, <3>4 DEF StoresOwn, Networks, OwnNetwork, PidsUnique
    <3>5. QED BY <1>1, <3>1, <3>3, <3>4 DEF OwnNetwork, Of
  <2>3. QED BY <2>1, <2>2
<1>5. QED BY <1>2, <1>3, <1>4 DEF Networks

(* NetworkIsItsOwn: the network counters in an answer are those of the     *)
(* container that was asked about, whatever became of PIDs in between.     *)
THEOREM NetworkIsItsOwnHolds == Spec => []NetworkIsItsOwn
<1>1. Init => StatsTypes /\ Networks
  <2> SUFFICES ASSUME Init PROVE StatsTypes /\ Networks OBVIOUS
  <2>1. PICK n : StatsStart(n) BY StatsInitially
  <2>2. PidsUnique BY <2>1 DEF StatsStart, PidsUnique
  <2>3. \A w \in Workers : pid[w] = Nobody /\ net[w] = Nobody BY <2>1 DEF StatsStart
  <2>4. QED BY <2>2, <2>3, InitTypes DEF Networks, OwnNetwork
<1>2. StatsTypes /\ Networks /\ [Next]_helperVars => (StatsTypes /\ Networks)'
  <2>1. ASSUME Networks, UNCHANGED statsVars PROVE Networks'
    BY <2>1 DEF statsVars, nodeVars, workerVars, Networks, PidsUnique, OwnNetwork, Of
  <2>2. QED
    BY <2>1, StatsSteps, StatsTypesStep, NetworksNode, NetworksRequest DEF StatsNext
<1>3. Networks => NetworkIsItsOwn BY DEF Networks, OwnNetwork, NetworkIsItsOwn
<1>4. QED BY <1>1, <1>2, <1>3, PTL DEF Spec

-----------------------------------------------------------------------------
(* The version.  A request that is about to keep a detected version read   *)
(* an empty one from a configuration that gave none, and no reload came in *)
(* between, or "raced" says so.                                            *)

Versioned ==
    raced \/ /\ version = configured \/ (configured = "" /\ version = node.mode)
             /\ \A w \in Workers : At(w, {"keep"}) => configured = ""

(* GoesOn leads to no such item.                                           *)
LEMMA NoKeep == ASSUME NEW w, GoesOn(w) PROVE ~At(w, {"keep"})'
<1>1. status'[w] = "busy" => Head(rest'[w]) \in PlanItems BY DEF GoesOn
<1>2. status'[w] = "busy" => Head(rest'[w]).call \in PlanCalls BY <1>1 DEF PlanItems
<1>3. QED BY <1>2 DEF At, Busy, PlanCalls

LEMMA VersionedNode == ASSUME StatsTypes, Versioned, StatsNode PROVE Versioned'
<1>1. UNCHANGED <<node, rest, status>> BY NodeStepShape
<1>2. CASE Reload
  <2>1. configured' = version' /\ raced' = \E w \in Workers : Between(w)
    BY <1>2 DEF Reload
  <2>2. \A w \in Workers : At(w, {"keep"})' => Between(w)
    BY <1>1 DEF At, Busy, Between, StatsTypes, RestInv
  <2>3. QED BY <2>1, <2>2 DEF Versioned
<1>3. CASE ~Reload
  <2>1. UNCHANGED <<configured, version, raced>>
    BY <1>3 DEF StatsNode, ContainerStarts, ContainerListed, ContainerEnds,
       ContainerRemoved, CacheAges, NodeStep, confVars
  <2>2. QED BY <1>1, <2>1 DEF Versioned, At, Busy
<1>4. QED BY <1>2, <1>3

LEMMA VersionedRequest ==
    ASSUME StatsTypes, Versioned, NEW w \in Workers, Request(w) \/ RequestStep(w)
    PROVE  Versioned'
<1>1. node' = node BY NodeIsFixed DEF StatsNext
<1>2. /\ UNCHANGED <<configured, raced>>
      /\ version' = version \/ (DetectVersion(w) /\ version' = node.mode)
  <2> USE DEF Quiet, CallFails, confVars
  <2>1. CASE Request(w) BY <2>1 DEF Request
  <2>2. CASE ReadFiles(w) \/ LockBlkio(w) \/ ReadBlkio(w) \/ ReadNetworkStats(w)
    BY <2>2 DEF ReadFiles, LockBlkio, ReadBlkio, ReadNetworkStats
  <2>3. CASE AskRuntime(w) BY <2>3 DEF AskRuntime
  <2>4. CASE GetContainerPid(w) BY <2>4 DEF GetContainerPid
  <2>5. CASE AskKubernetes(w) BY <2>5 DEF AskKubernetes
  <2>6. CASE GetContainerRestartCount(w) \/ ListPods(w)
    BY <2>6 DEF GetContainerRestartCount, ListPods
  <2>7. CASE ReadVersion(w) \/ DetectVersion(w) \/ Refuse(w)
    BY <2>7 DEF ReadVersion, DetectVersion, Refuse
  <2>8. QED BY <2>1, <2>2, <2>3, <2>4, <2>5, <2>6, <2>7 DEF RequestStep
<1>3. /\ OthersStay(w)
      /\ \/ GoesOn(w) \/ \E c \in Sections : IsPutAt(w, c)
         \/ IsPutAt(w, "keep") /\ version = ""
  <2>1. CASE Request(w) BY <2>1, RequestShape DEF GoesOn
  <2>2. CASE RequestStep(w)
    BY <2>2, PlainGoesOn, EntersShape, LeavesShape, VersionShape
       DEF RequestStep, GoesOn, IsPutAt
  <2>3. QED BY <2>1, <2>2
<1>4. \A v \in Workers \ {w} : At(v, {"keep"})' <=> At(v, {"keep"})
  BY <1>3 DEF OthersStay, At, Busy
<1>5. At(w, {"keep"})' => IsPutAt(w, "keep") /\ version = ""
  BY <1>3, NoKeep DEF IsPutAt, At, Sections
<1>6. (~raced /\ version = "") => configured = "" BY DEF Versioned
<1>7. DetectVersion(w) => At(w, {"keep"}) BY DEF DetectVersion
<1>8. QED BY <1>1, <1>2, <1>4, <1>5, <1>6, <1>7 DEF Versioned

(* VersionKept: a detected version does not outlive a reload that gives    *)
(* another, unless the reload fell between a request's reading and its     *)
(* writing, and then only until the next one.                              *)
THEOREM VersionKeptHolds == Spec => []VersionKept
<1>1. Init => StatsTypes /\ Versioned
  <2> SUFFICES ASSUME Init PROVE StatsTypes /\ Versioned OBVIOUS
  <2>1. PICK n : StatsStart(n) BY StatsInitially
  <2>2. version = configured BY <2>1 DEF StatsStart
  <2>3. \A w \in Workers : ~Busy(w) BY <2>1 DEF StatsStart, Busy
  <2>4. QED BY <2>2, <2>3, InitTypes DEF Versioned, At
<1>2. StatsTypes /\ Versioned /\ [Next]_helperVars => (StatsTypes /\ Versioned)'
  <2>1. ASSUME Versioned, UNCHANGED statsVars PROVE Versioned'
    BY <2>1 DEF statsVars, nodeVars, confVars, workerVars, Versioned, At, Busy
  <2>2. QED
    BY <2>1, StatsSteps, StatsTypesStep, VersionedNode, VersionedRequest DEF StatsNext
<1>3. Versioned => VersionKept BY DEF Versioned, VersionKept
<1>4. QED BY <1>1, <1>2, <1>3, PTL DEF Spec
-----------------------------------------------------------------------------
(* The rest of the type invariant: what the node, the caches and the       *)
(* requests may hold beside what StatsTypes says.                          *)

Tallies ==
    /\ restart \in [Workers -> BOOLEAN] /\ upset \in [Workers -> BOOLEAN]
    /\ requests \in [Workers -> 0..MaxRequests]
CachesType ==
    known \in [Caches -> SUBSET Containers] /\ fresh \in [Caches -> BOOLEAN]
Asked == \A w \in Workers : req[w] = NoRequest \/ req[w] \in Requests[w]
StatsRest == NodeTypeOK /\ CachesType /\ Asked /\ Tallies

LEMMA Bounds ==
    MaxFailures \in Nat /\ MaxRequests \in Nat /\ \A n \in Nodes : MaxReloads[n] \in Nat
<1>1. MaxReloads \in [Nodes -> Nat] BY StatsAssumption, Zenon
<1>2. MaxFailures \in Nat /\ MaxRequests \in Nat BY StatsAssumption, Zenon
<1>3. QED BY <1>1, <1>2

LEMMA StatsTypesHold == StatsTypes /\ StatsRest => StatsTypeOK
BY DEF StatsTypes, StatsRest, Tallies, CachesType, Asked, NodeType, RequestType,
   StatsTypeOK, RequestTypeOK, Statuses

LEMMA StatsRestStarts == ASSUME NEW n \in Nodes, StatsStart(n) PROVE StatsRest
<1>1. NodeTypeOK
  <2>1. /\ faults \in 0..MaxFailures /\ reloads \in 0..MaxReloads[node] /\ node \in Nodes
        /\ configured \in Versions /\ version \in Versions
    <3>1. n.version \in Versions BY StatsAssumption, Zenon
    <3>2. 0 \in 0..MaxFailures /\ 0 \in 0..MaxReloads[n] BY Bounds
    <3>3. QED BY <3>1, <3>2 DEF StatsStart
  <2>2. First \in Containers /\ (CHOOSE p \in Pids : TRUE) \in Pids
    BY StatsAssumption, Zenon
  <2>3. /\ state \in [Containers -> {"created", "running", "ended", "removed"}]
        /\ pidOf \in [Containers -> Pids \cup {Nobody}] /\ listed \subseteq Containers
        /\ raced \in BOOLEAN
    BY <2>2 DEF StatsStart
  <2>4. QED BY <2>1, <2>3 DEF NodeTypeOK
<1>2. CachesType BY DEF StatsStart, CachesType
<1>3. Asked BY DEF StatsStart, Asked
<1>4. Tallies
  <2>1. 0 \in 0..MaxRequests BY Bounds
  <2>2. QED BY <2>1 DEF StatsStart, Tallies
<1>5. QED BY <1>1, <1>2, <1>3, <1>4 DEF StatsRest

LEMMA StatsRestNode == ASSUME StatsRest, StatsNode PROVE StatsRest'
<1> USE DEF StatsRest
<1>1. NodeTypeOK'
  <2>1. ASSUME NEW c \in Containers, ContainerStarts(c) \/ ContainerListed(c)
        PROVE  NodeTypeOK'
    BY <2>1 DEF ContainerStarts, ContainerListed, NodeStep, confVars, NodeTypeOK
  <2>2. ASSUME NEW c \in Containers, ContainerEnds(c) \/ ContainerRemoved(c)
        PROVE  NodeTypeOK'
    BY <2>2 DEF ContainerEnds, ContainerRemoved, NodeStep, confVars, NodeTypeOK
  <2>3. CASE Reload
    <3>1. MaxReloads[node] \in Nat BY Bounds DEF NodeTypeOK
    <3>2. reloads' \in 0..MaxReloads[node] BY <2>3, <3>1 DEF Reload, NodeTypeOK
    <3>3. configured' \in Versions /\ version' \in Versions /\ raced' \in BOOLEAN
      BY <2>3 DEF Reload
    <3>4. UNCHANGED nodeVars BY <2>3 DEF Reload
    <3>5. QED BY <3>2, <3>3, <3>4 DEF nodeVars, NodeTypeOK
  <2>4. CASE \E x \in Caches : CacheAges(x)
    BY <2>4 DEF CacheAges, nodeVars, confVars, NodeTypeOK
  <2>5. QED BY <2>1, <2>2, <2>3, <2>4 DEF StatsNode
<1>2. CachesType'
  BY DEF StatsNode, ContainerStarts, ContainerListed, ContainerEnds, ContainerRemoved,
     Reload, CacheAges, NodeStep, cacheVars, CachesType
<1>3. Asked' BY NodeStepShape DEF Asked
<1>4. Tallies'
  <2>1. UNCHANGED <<restart, requests>>
    BY DEF StatsNode, ContainerStarts, ContainerListed, ContainerEnds, ContainerRemoved,
       Reload, CacheAges, NodeStep, workerVars
  <2>2. \A c : [w \in Workers |-> upset[w] \/ (Busy(w) /\ req[w].of = c)]
                 \in [Workers -> BOOLEAN]
    OBVIOUS
  <2>3. upset' = upset \/ \E c : upset' = Upset(c)
    BY DEF StatsNode, ContainerStarts, ContainerListed, ContainerEnds, ContainerRemoved,
       Reload, CacheAges, workerVars
  <2>4. upset' \in [Workers -> BOOLEAN] BY <2>2, <2>3 DEF Upset, Tallies
  <2>5. QED BY <2>1, <2>4 DEF Tallies
<1>5. QED BY <1>1, <1>2, <1>3, <1>4

LEMMA StatsRestRequest ==
    ASSUME StatsTypes, StatsRest, NEW w \in Workers, Request(w) PROVE StatsRest'
<1> USE DEF StatsRest
<1>1. NodeTypeOK' /\ CachesType'
  BY DEF Request, nodeVars, confVars, cacheVars, NodeTypeOK, CachesType
<1>2. PICK r \in Requests[w] :
        /\ req' = [req EXCEPT ![w] = r]
        /\ upset' = [upset EXCEPT ![w] = state[r.of] # "running" \/ r.of \notin listed]
  BY Zenon DEF Request
<1>3. Asked' BY <1>2 DEF Asked, StatsTypes, RequestType
<1>4. Tallies'
  <2>1. upset' \in [Workers -> BOOLEAN] BY <1>2 DEF Tallies
  <2>2. restart' \in [Workers -> BOOLEAN] BY DEF Request, Tallies
  <2>3. requests' \in [Workers -> 0..MaxRequests]
    <3>1. /\ requests[w] \in 0..MaxRequests /\ requests[w] < MaxRequests
          /\ requests' = [requests EXCEPT ![w] = @ + 1]
      BY DEF Request, Tallies
    <3>2. MaxRequests \in Nat BY Bounds
    <3>3. requests[w] + 1 \in 0..MaxRequests BY <3>1, <3>2
    <3>4. QED BY <3>1, <3>3 DEF Tallies
  <2>4. QED BY <2>1, <2>2, <2>3 DEF Tallies
<1>5. QED BY <1>1, <1>3, <1>4

LEMMA AdvanceTallies ==
    ASSUME Tallies, NEW w \in Workers, NEW ok, NEW files, NEW whose, NEW count \in BOOLEAN,
           Advance(w, ok, files, whose, count)
    PROVE  restart' \in [Workers -> BOOLEAN] /\ requests' = requests
<1> DEFINE replaced == ~ok /\ Head(rest[w]).otherwise \notin {"fail", "skip", "done"}
           kept     == ~replaced /\ count
<1>1. restart' = [restart EXCEPT ![w] = kept] /\ requests' = requests BY DEF Advance
<1>2. kept \in BOOLEAN OBVIOUS
<1> HIDE DEF kept
<1>3. QED BY <1>1, <1>2 DEF Tallies

(* A step of a request goes on with a boolean for its restart count, or    *)
(* leaves it; a call that fails is counted.                                *)
LEMMA RequestStepTallies ==
    ASSUME StatsTypes, StatsRest, NEW w \in Workers, RequestStep(w)
    PROVE  Tallies'
<1> USE DEF StatsRest, Quiet, CallFails
<1>1. upset' = upset \/ upset' = [upset EXCEPT ![w] = TRUE]
  BY DEF RequestStep, ReadFiles, LockBlkio, ReadBlkio, ReadNetworkStats, AskRuntime,
     GetContainerPid, AskKubernetes, GetContainerRestartCount, ListPods, ReadVersion,
     DetectVersion, Refuse
<1>2. \/ \E ok, files, whose : \E count \in BOOLEAN : Advance(w, ok, files, whose, count)
      \/ UNCHANGED <<restart, requests>>
  <2>0. restart[w] \in BOOLEAN BY DEF Tallies
  <2>1. CASE \/ ReadFiles(w) \/ ReadBlkio(w) \/ ReadNetworkStats(w) \/ AskRuntime(w)
             \/ GetContainerPid(w)
    <3>1. \E ok, files, whose : Advance(w, ok, files, whose, restart[w])
      BY <2>1 DEF ReadFiles, ReadBlkio, ReadParts, ReadNetworkStats, AskRuntime,
         GetContainerPid, Got
    <3>2. QED BY <2>0, <3>1
  <2>2. CASE AskKubernetes(w)
    <3>1. (\E ok, files : Got(w, ok, files)) \/ Panics(w) BY <2>2 DEF AskKubernetes
    <3>2. QED BY <2>0, <3>1 DEF Got, Panics
  <2>3. CASE GetContainerRestartCount(w)
    BY <2>3 DEF GetContainerRestartCount
  <2>4. CASE ListPods(w)
    <3> DEFINE found == Of(w) \in known'[Cache(w)]
    <3>1. \/ Panics(w) \/ Got(w, FALSE, {})
          \/ Advance(w, found, {}, net[w], found)
      BY <2>4 DEF ListPods
    <3>2. found \in BOOLEAN OBVIOUS
    <3> HIDE DEF found
    <3>3. QED BY <2>0, <3>1, <3>2 DEF Got, Panics
  <2>5. CASE LockBlkio(w) \/ ReadVersion(w) \/ DetectVersion(w) \/ Refuse(w)
    BY <2>5 DEF LockBlkio, ReadVersion, DetectVersion, Refuse
  <2>6. QED BY <2>1, <2>2, <2>3, <2>4, <2>5 DEF RequestStep
<1>3. restart' \in [Workers -> BOOLEAN] /\ requests' = requests
  BY <1>2, AdvanceTallies DEF Tallies
<1>4. QED BY <1>1, <1>3 DEF Tallies

LEMMA StatsRestStep ==
    ASSUME StatsTypes, StatsRest, NEW w \in Workers, RequestStep(w) PROVE StatsRest'
<1> USE DEF StatsRest
<1>1. NodeTypeOK'
  <2>1. /\ UNCHANGED <<node, state, pidOf, listed, reloads, configured, raced>>
        /\ faults' = faults \/ (faults < MaxFailures /\ faults' = faults + 1)
        /\ version' \in {version, node.mode}
    BY DEF RequestStep, ReadFiles, LockBlkio, ReadBlkio, ReadNetworkStats, AskRuntime,
       GetContainerPid, AskKubernetes, GetContainerRestartCount, ListPods, ReadVersion,
       DetectVersion, Refuse, Quiet, CallFails, nodeVars, confVars
  <2>2. faults' \in 0..MaxFailures BY <2>1, Bounds DEF NodeTypeOK
  <2>3. QED BY <2>1, <2>2 DEF NodeTypeOK
<1>2. CachesType'
  <2>1. CASE ListPods(w)
    <3>1. listed \in SUBSET Containers BY DEF NodeTypeOK
    <3>2. Cache(w) \in Caches BY DEF Cache, Caches
    <3>3. QED BY <2>1, <3>1, <3>2 DEF ListPods, CachesType
  <2>2. CASE ~ListPods(w)
    <3>1. UNCHANGED <<known, fresh>>
      BY <2>2 DEF RequestStep, ReadFiles, LockBlkio, ReadBlkio, ReadNetworkStats,
         AskRuntime, GetContainerPid, AskKubernetes, GetContainerRestartCount,
         ReadVersion, DetectVersion, Refuse, cacheVars
    <3>2. QED BY <3>1 DEF CachesType
  <2>3. QED BY <2>1, <2>2
<1>3. Asked' BY RequestStepRest DEF Asked
<1>4. QED BY <1>1, <1>2, <1>3, RequestStepTallies

LEMMA StatsRestKept ==
    StatsTypes /\ StatsRest /\ (StatsNext \/ UNCHANGED statsVars) => StatsRest'
<1>1. ASSUME StatsRest, UNCHANGED statsVars PROVE StatsRest'
  BY <1>1 DEF statsVars, nodeVars, confVars, cacheVars, workerVars, StatsRest, NodeTypeOK,
     CachesType, Asked, Tallies
<1>2. QED BY <1>1, StatsRestNode, StatsRestRequest, StatsRestStep DEF StatsNext

-----------------------------------------------------------------------------
(* Whole answers.  While no call fails for a reason of its own and the     *)
(* container runs and is listed, a request is on a track: a plan, with the *)
(* plan that led to it, all of whose items before the current one have     *)
(* done what they are for.                                                 *)

Track(plan, before) == [plan |-> plan, before |-> before]
Tracks(k) ==
    CASE k # "stats" -> {Track(Plan(k, node.runtime), <<>>)}
      [] k = "stats" /\ node.runtime = "docker" ->
           {Track(DockerStats, <<>>)} \cup
           (IF node.mode = "unified" THEN {Track(DockerApi, <<>>)} ELSE {})
      [] OTHER ->
           LET first == GetContainerStats(node.runtime) IN
           {Track(first, <<>>), Track(<< Call("keep", "fail") >>, first),
            Track(CgroupPlan(node.mode), first)}

(* An item is the planned one, or the section of a lock it has entered.    *)
Stands(item, planned) ==
    \/ item = planned
    \/ planned.call = "restart" /\ item = [planned EXCEPT !.call = "list"]
    \/ planned.call = "blkio" /\ item = [planned EXCEPT !.call = "blkioFiles"]
IsAt(w, plan, i) ==
    /\ Len(rest[w]) = Len(plan) + 1 - i /\ Stands(rest[w][1], plan[i])
    /\ \A j \in 2..Len(rest[w]) : rest[w][j] = plan[i + j - 1]

Done(w, item) ==
    /\ item.call \in {"pid", "pidFile"} => pid[w] = pidOf[Of(w)]
    /\ item.call = "net" => net[w] = Of(w)
    /\ item.call = "restart" => restart[w]
    /\ item.call = "daemonStats" => "daemon" \in read[w]
    /\ item.call \in {"files", "blkio"} =>
         \A k \in DOMAIN item.of :
           Complete(item.of[k]) /\ FilesOf(item.of[k]) \subseteq read[w]

(* A request stands at item i of a track.                                  *)
StandsAt(w, t, i) ==
    /\ req[w].kind \in Kinds /\ IsAt(w, t.plan, i)
    /\ \A j \in 1..(i - 1) : Done(w, t.plan[j])
    /\ \A j \in 1..Len(t.before) : Done(w, t.before[j])
OnTrack(w) ==
    \E t \in Tracks(req[w].kind) : \E i \in 1..Len(t.plan) : StandsAt(w, t, i)

Supported == node.runtime \in {"docker", "containerd", "crio"}
IsWhole(w) ==
    /\ status[w] \in {"200", "503"}
    /\ req[w].kind = "stats" =>
         /\ \/ Wanted \subseteq read[w]
            \/ node.runtime = "docker" /\ node.mode = "unified" /\ "daemon" \in read[w]
         /\ net[w] = Of(w) /\ restart[w]

(* What a request under way can count on while nothing upsets it.          *)
StillThere(w) ==
    state[Of(w)] = "running" /\ Of(w) \in listed /\ req[w].kind \in Kinds

(* A request that has read the version goes on with a plan that reads no   *)
(* version and is not replaced: what version it read stays.                *)
Decided == {item \in Items : item.call \notin {"version", "keep"} /\ item.otherwise = "fail"}
Settled(w) ==
    local[w] # "" => \A j \in 1..Len(rest[w]) : rest[w][j] \in Decided

Whole(w) ==
    ~upset[w] =>
      /\ Busy(w) => StillThere(w)
      /\ Busy(w) /\ Fits(w) /\ Supported => OnTrack(w)
      /\ Ended(w) /\ Fits(w) /\ Supported => IsWhole(w)
WholeInv ==
    /\ DOMAIN read = Workers /\ DOMAIN local = Workers
    /\ \A c \in Containers : state[c] = "running" => pidOf[c] \in Pids
    /\ \A w \in Workers : Settled(w) /\ Whole(w)

(* The calls that fail only for a reason of their own, while the container *)
(* runs and is listed.                                                     *)
SureCalls == {"runtime", "daemonStats", "exec", "pidFile", "pid", "restart", "kube", "find"}

(* The plans of a supported runtime: those that no more than call.         *)
LEMMA OtherPlans ==
    ASSUME NEW k \in Kinds \ {"stats"}, NEW r \in {"docker", "containerd", "crio"}
    PROVE  \A i \in 1..Len(Plan(k, r)) : Plan(k, r)[i].call \in SureCalls
<1> DEFINE Sure == {item \in PlanItems : item.call \in SureCalls}
<1>1. /\ Call("runtime", "fail") \in Sure /\ Call("pidFile", "fail") \in Sure
      /\ Call("restart", "fail") \in Sure /\ Call("find", "fail") \in Sure
      /\ Call("exec", "fail") \in Sure /\ Call("kube", "fail") \in Sure
  BY ItemType DEF PlanCalls, Otherwise, SureCalls, Call
<1> HIDE DEF Sure
<1>2. ExecuteCommandEx \in Seq(Sure) BY <1>1 DEF ExecuteCommandEx
<1>3. Volumes \in Seq(Sure) BY <1>1, <1>2, ConcatProperties DEF Volumes
<1>4. GetContainerInspect(r) \in Seq(Sure)
  BY <1>1 DEF GetContainerInspect, DockerInspection, ContainerdInspection, CrioInspection
<1>5. Netstat(r) \in Seq(Sure) BY <1>1, <1>2 DEF Netstat, ExecuteCommand
<1>6. Logs \in Seq(Sure) /\ All \in Seq(Sure) BY <1>1 DEF Logs, All
<1>7. Plan(k, r) \in Seq(Sure) BY <1>3, <1>4, <1>5, <1>6 DEF Plan, Kinds
<1>8. QED BY <1>7 DEF Sure

LEMMA DockerItems ==
    /\ Len(DockerStats) = 5
    /\ DockerStats[1] = Call("runtime", "dockerInspect")
    /\ DockerStats[2] = Call("pidFile", "dockerInspect")
    /\ DockerStats[3] = Call("restart", "skip")
    /\ DockerStats[4] = Files(<<DockerCpu, DockerMemory, DockerBlkio>>, "dockerApi")
    /\ DockerStats[5] = Call("net", "dockerApi")
<1>1. ASSUME NEW S, NEW a \in S, NEW b \in S, NEW c \in S, NEW d \in S, NEW e \in S
      PROVE  LET s == <<a, b, c>> \o <<d, e>> IN
             Len(s) = 5 /\ s[1] = a /\ s[2] = b /\ s[3] = c /\ s[4] = d /\ s[5] = e
  OBVIOUS
<1>2. \A a, b, c, d, e : LET s == <<a, b, c>> \o <<d, e>> IN
             Len(s) = 5 /\ s[1] = a /\ s[2] = b /\ s[3] = c /\ s[4] = d /\ s[5] = e
  <2> TAKE a, b, c, d, e
  <2> DEFINE S == {a, b, c, d, e}
  <2>1. a \in S /\ b \in S /\ c \in S /\ d \in S /\ e \in S OBVIOUS
  <2> HIDE DEF S
  <2>2. QED BY <2>1, <1>1
<1>3. QED BY <1>2 DEF DockerStats, DockerFiles

(* The files of the control groups a kernel has are all there.             *)
LEMMA V1Files ==
    ASSUME node \in Nodes, node.mode # "unified"
    PROVE  /\ Complete(CgroupV1Cpu) /\ Complete(CgroupV1Memory) /\ Complete(CgroupV1Blkio)
           /\ Wanted \subseteq FilesOf(CgroupV1Cpu) \cup FilesOf(CgroupV1Memory)
                                                   \cup FilesOf(CgroupV1Blkio)
BY KernelAssumption DEF Complete, Alternative, FilesOf, Wanted, Part, CgroupV1Cpu,
   CgroupV1Memory, CgroupV1Blkio

LEMMA V2Files ==
    ASSUME node \in Nodes, node.mode = "unified"
    PROVE  /\ Complete(CgroupV2Cpu) /\ Complete(CgroupV2Memory) /\ Complete(CgroupV2Io)
           /\ Wanted \subseteq FilesOf(CgroupV2Cpu) \cup FilesOf(CgroupV2Memory)
                                                   \cup FilesOf(CgroupV2Io)
           /\ ~Complete(CgroupV1Cpu)
BY KernelAssumption DEF Complete, Alternative, FilesOf, Wanted, Part, CgroupV2Cpu,
   CgroupV2Memory, CgroupV2Io, CgroupV1Cpu

(* What a track is made of.  An item that needs a PID has one that gives   *)
(* it before it, files are all there unless another plan of the tracks     *)
(* replaces this one, and the version is read by the last item.            *)
GivesPid(item) == item.call \in {"pid", "pidFile"}
SoundAt(k, t, i) ==
    LET item  == t.plan[i]
        first == GetContainerStats(node.runtime)
    IN
    \/ item.call \in SureCalls
    \/ /\ item.call = "net"
       /\ \/ \E j \in 1..(i - 1) : GivesPid(t.plan[j])
          \/ \E j \in 1..Len(t.before) : GivesPid(t.before[j])
    \/ /\ item.call \in {"files", "blkio"}
       /\ \/ \A n \in DOMAIN item.of : Complete(item.of[n])
          \/ item.otherwise = "dockerApi" /\ Track(DockerApi, <<>>) \in Tracks(k)
    \/ /\ item.call \in {"version", "keep"} /\ i = Len(t.plan)
       /\ Track(<< Call("keep", "fail") >>, first) \in Tracks(k)
       /\ Track(CgroupPlan(node.mode), first) \in Tracks(k)
       /\ item.call = "version" => t.plan = first
       /\ item.call = "keep" => t.before = first

LEMMA TrackType ==
    ASSUME NEW k \in Kinds, Supported, NEW t \in Tracks(k)
    PROVE  t.plan \in Seq(Items) /\ t.before \in Seq(Items)
<1>1. \A s : s \in Seq(PlanItems) => s \in Seq(Items) BY PlanItemsSeq
<1>2. /\ Plan(k, node.runtime) \in Seq(Items)
      /\ GetContainerStats(node.runtime) \in Seq(Items)
  BY <1>1, PlanType DEF PlanNames, Kinds, Plan
<1>3. DockerStats \in Seq(Items)
  BY <1>1, PlanType DEF PlanNames, Plan, GetContainerStats
<1>4. DockerApi \in Seq(Items) BY <1>1, PlanType DEF PlanNames, Plan
<1>5. CgroupPlan(node.mode) \in Seq(Items) /\ << Call("keep", "fail") >> \in Seq(Items)
  BY <1>1, CgroupPlanType, ItemType DEF Otherwise
<1>6. <<>> \in Seq(Items) OBVIOUS
<1>7. PICK p \in Seq(Items), b \in Seq(Items) : t = Track(p, b)
  BY <1>2, <1>3, <1>4, <1>5, <1>6 DEF Tracks
<1>8. QED BY <1>7 DEF Track

LEMMA TrackIsSound ==
    ASSUME node \in Nodes, Supported, NEW k \in Kinds, NEW t \in Tracks(k),
           NEW i \in 1..Len(t.plan)
    PROVE  SoundAt(k, t, i)
<1>1. CASE k # "stats"
  <2>1. t.plan = Plan(k, node.runtime) BY <1>1 DEF Tracks, Track
  <2>2. t.plan[i].call \in SureCalls BY <1>1, <2>1, OtherPlans DEF Supported
  <2>3. QED BY <2>2 DEF SoundAt
<1>2. CASE k = "stats" /\ node.runtime = "docker"
  <2>1. CASE t = Track(DockerStats, <<>>)
    <3>1. t.plan = DockerStats /\ i \in 1..5 BY <2>1, DockerItems DEF Track
    <3>2. CASE i \in 1..3
      BY <3>1, <3>2, DockerItems DEF SoundAt, SureCalls, Call
    <3>3. CASE i = 4
      <4>1. t.plan[i].call = "files" /\ t.plan[i].otherwise = "dockerApi"
            /\ t.plan[i].of = <<CgroupV1Cpu, CgroupV1Memory, CgroupV1Blkio>>
        BY <3>1, <3>3, DockerItems DEF Files, DockerCpu, DockerMemory, DockerBlkio
      <4>2. CASE node.mode = "unified"
        <5>1. Track(DockerApi, <<>>) \in Tracks(k) BY <1>2, <4>2 DEF Tracks
        <5>2. QED BY <4>1, <5>1 DEF SoundAt
      <4>3. CASE node.mode # "unified"
        <5>1. \A n \in DOMAIN t.plan[i].of : Complete(t.plan[i].of[n])
          BY <4>1, <4>3, V1Files
        <5>2. QED BY <4>1, <5>1 DEF SoundAt
      <4>4. QED BY <4>2, <4>3
    <3>4. CASE i = 5
      <4>1. t.plan[i].call = "net" /\ GivesPid(t.plan[2])
        BY <3>1, <3>4, DockerItems DEF GivesPid, Call
      <4>2. QED BY <3>4, <4>1 DEF SoundAt
    <3>5. QED BY <3>1, <3>2, <3>3, <3>4
  <2>2. CASE t = Track(DockerApi, <<>>)
    <3>1. t.plan = DockerApi /\ i \in 1..4 BY <2>2 DEF Track, DockerApi
    <3>2. CASE i # 3
      <4>1. t.plan[i].call \in SureCalls BY <3>1, <3>2 DEF DockerApi, SureCalls, Call
      <4>2. QED BY <4>1 DEF SoundAt
    <3>3. CASE i = 3
      <4>1. t.plan[i].call = "net" /\ GivesPid(t.plan[2])
        BY <3>1, <3>3 DEF DockerApi, GivesPid, Call
      <4>2. QED BY <3>3, <4>1 DEF SoundAt
    <3>4. QED BY <3>2, <3>3
  <2>3. QED BY <1>2, <2>1, <2>2 DEF Tracks
<1>3. CASE k = "stats" /\ node.runtime \in {"containerd", "crio"}
  <2> DEFINE first == GetContainerStats(node.runtime)
             kept  == << Call("keep", "fail") >>
  <2>1. Tracks(k) = {Track(first, <<>>), Track(kept, first),
                     Track(CgroupPlan(node.mode), first)}
    BY <1>3 DEF Tracks
  <2>2. first = ContainerdStats \/ first = CrioStats BY <1>3 DEF GetContainerStats
  <2>3. /\ Len(first) = 4 /\ first[4].call = "version"
        /\ \A j \in 1..3 : first[j].call \in SureCalls
        /\ GivesPid(first[3])
    BY <2>2 DEF ContainerdStats, CrioStats, Call, SureCalls, GivesPid
  <2> HIDE DEF first
  <2>4. CASE t = Track(first, <<>>)
    <3>1. t.plan = first /\ i \in 1..4 BY <2>3, <2>4 DEF Track
    <3>2. CASE i = 4 BY <2>1, <2>3, <3>1, <3>2 DEF SoundAt, first
    <3>3. CASE i # 4 BY <2>3, <3>1, <3>3 DEF SoundAt
    <3>4. QED BY <3>2, <3>3
  <2>5. CASE t = Track(kept, first)
    <3>1. t.plan = kept /\ i = 1 /\ t.before = first BY <2>5 DEF Track
    <3>2. t.plan[i].call = "keep" /\ i = Len(t.plan) BY <3>1 DEF Call
    <3>3. QED BY <2>1, <3>1, <3>2 DEF SoundAt, first
  <2>6. CASE t = Track(CgroupPlan(node.mode), first)
    <3>1. t.plan = CgroupPlan(node.mode) /\ t.before = first BY <2>6 DEF Track
    <3>2. CASE t.plan[i].call = "net"
      <4>1. GivesPid(t.before[3]) BY <2>3, <3>1 DEF GivesPid
      <4>2. Len(t.before) = 4 BY <2>3, <3>1
      <4>3. 3 \in 1..Len(t.before) BY <4>2
      <4>4. QED BY <3>2, <4>1, <4>3 DEF SoundAt
    <3>3. CASE t.plan[i].call # "net"
      <4>1. /\ t.plan[i].call \in {"files", "blkio"}
            /\ \A n \in DOMAIN t.plan[i].of : Complete(t.plan[i].of[n])
        <5>1. CASE node.mode = "unified"
          <6>1. t.plan = GetContainerStatsCgroupV2 BY <3>1, <5>1 DEF CgroupPlan
          <6>2. i = 1 /\ t.plan[i].call = "files"
                /\ t.plan[i].of = <<CgroupV2Cpu, CgroupV2Memory, CgroupV2Io>>
            BY <3>3, <6>1 DEF GetContainerStatsCgroupV2, Files, Call
          <6>3. QED BY <5>1, <6>2, V2Files
        <5>2. CASE node.mode # "unified"
          <6>1. t.plan = GetContainerStatsCgroupV1
            BY <3>1, <5>2, KernelAssumption DEF CgroupPlan
          <6>2. \/ /\ t.plan[i].call = "files"
                   /\ t.plan[i].of = <<CgroupV1Cpu, CgroupV1Memory>>
                \/ t.plan[i].call = "blkio" /\ t.plan[i].of = <<CgroupV1Blkio>>
            BY <3>3, <6>1 DEF GetContainerStatsCgroupV1, Files, Blkio, Call
          <6>3. QED BY <5>2, <6>2, V1Files
        <5>3. QED BY <5>1, <5>2
      <4>2. QED BY <4>1 DEF SoundAt
    <3>4. QED BY <3>2, <3>3
  <2>7. QED BY <2>1, <2>4, <2>5, <2>6
<1>4. QED BY <1>1, <1>2, <1>3 DEF Supported

LEMMA FirstTrack ==
    ASSUME NEW k \in Kinds, Supported
    PROVE  /\ Track(Plan(k, node.runtime), <<>>) \in Tracks(k)
           /\ k = "stats" => Plan(k, node.runtime) # <<>>
<1>1. CASE k # "stats" BY <1>1 DEF Tracks
<1>2. CASE k = "stats" /\ node.runtime = "docker"
  <2>1. Plan(k, node.runtime) = DockerStats BY <1>2 DEF Plan, GetContainerStats
  <2>2. QED BY <1>2, <2>1, DockerItems DEF Tracks
<1>3. CASE k = "stats" /\ node.runtime \in {"containerd", "crio"}
  <2>1. Plan(k, node.runtime) = GetContainerStats(node.runtime) BY <1>3 DEF Plan
  <2>2. GetContainerStats(node.runtime) # <<>>
    BY <1>3 DEF GetContainerStats, ContainerdStats, CrioStats
  <2>3. QED BY <1>3, <2>1, <2>2 DEF Tracks
<1>4. QED BY <1>1, <1>2, <1>3 DEF Supported

(* The end of a track: all that was planned is done, the version known.    *)
AtEnd(w) ==
    \E t \in Tracks(req[w].kind) :
      /\ Len(t.plan) >= 1 /\ t.plan[Len(t.plan)].call \notin {"version", "keep"}
      /\ \A j \in 1..Len(t.plan) : Done(w, t.plan[j])
      /\ \A j \in 1..Len(t.before) : Done(w, t.before[j])

LEMMA EndIsWhole ==
    ASSUME node \in Nodes, Supported, NEW w, AtEnd(w), req[w].kind = "stats"
    PROVE  /\ \/ Wanted \subseteq read[w]
              \/ node.runtime = "docker" /\ node.mode = "unified" /\ "daemon" \in read[w]
           /\ net[w] = Of(w) /\ restart[w]
<1>1. PICK t \in Tracks("stats") :
        /\ Len(t.plan) >= 1 /\ t.plan[Len(t.plan)].call \notin {"version", "keep"}
        /\ \A j \in 1..Len(t.plan) : Done(w, t.plan[j])
        /\ \A j \in 1..Len(t.before) : Done(w, t.before[j])
  BY DEF AtEnd
<1>2. CASE t = Track(DockerStats, <<>>)
  <2>1. t.plan = DockerStats BY <1>2 DEF Track
  <2>2. Done(w, DockerStats[3]) /\ Done(w, DockerStats[4]) /\ Done(w, DockerStats[5])
    BY <1>1, <2>1, DockerItems
  <2>3. restart[w] /\ net[w] = Of(w) BY <2>2, DockerItems DEF Done, Call
  <2>4. \A n \in 1..3 : LET part == <<DockerCpu, DockerMemory, DockerBlkio>>[n] IN
          Complete(part) /\ FilesOf(part) \subseteq read[w]
    BY <2>2, DockerItems DEF Done, Files
  <2>5. /\ Complete(CgroupV1Cpu) /\ FilesOf(CgroupV1Cpu) \subseteq read[w]
        /\ FilesOf(CgroupV1Memory) \subseteq read[w]
        /\ FilesOf(CgroupV1Blkio) \subseteq read[w]
    <3>1. /\ <<DockerCpu, DockerMemory, DockerBlkio>>[1] = CgroupV1Cpu
          /\ <<DockerCpu, DockerMemory, DockerBlkio>>[2] = CgroupV1Memory
          /\ <<DockerCpu, DockerMemory, DockerBlkio>>[3] = CgroupV1Blkio
      BY DEF DockerCpu, DockerMemory, DockerBlkio
    <3>2. 1 \in 1..3 /\ 2 \in 1..3 /\ 3 \in 1..3 OBVIOUS
    <3>3. QED BY <2>4, <3>1, <3>2
  <2>6. node.mode # "unified" BY <2>5, V2Files
  <2>7. Wanted \subseteq read[w] BY <2>5, <2>6, V1Files
  <2>8. QED BY <2>3, <2>7
<1>3. CASE t = Track(DockerApi, <<>>) /\ node.runtime = "docker" /\ node.mode = "unified"
  <2>1. t.plan = DockerApi BY <1>3 DEF Track
  <2>2. Done(w, DockerApi[1]) /\ Done(w, DockerApi[3]) /\ Done(w, DockerApi[4])
    BY <1>1, <2>1 DEF DockerApi
  <2>3. QED BY <1>3, <2>2 DEF DockerApi, Done, Call
<1>4. CASE /\ t = Track(CgroupPlan(node.mode), GetContainerStats(node.runtime))
           /\ node.runtime \in {"containerd", "crio"}
  <2>1. t.plan = CgroupPlan(node.mode) /\ t.before = GetContainerStats(node.runtime)
    BY <1>4 DEF Track
  <2>2. restart[w]
    <3>1. CASE node.runtime = "containerd"
      <4>1. t.before = ContainerdStats BY <2>1, <3>1 DEF GetContainerStats
      <4>2. Done(w, ContainerdStats[2]) BY <1>1, <4>1 DEF ContainerdStats
      <4>3. QED BY <4>2 DEF ContainerdStats, Done, Call
    <3>2. CASE node.runtime = "crio"
      <4>1. t.before = CrioStats BY <2>1, <3>2 DEF GetContainerStats
      <4>2. Done(w, CrioStats[1]) BY <1>1, <4>1 DEF CrioStats
      <4>3. QED BY <4>2 DEF CrioStats, Done, Call
    <3>3. QED BY <1>4, <3>1, <3>2
  <2>3. CASE node.mode = "unified"
    <3>1. t.plan = GetContainerStatsCgroupV2 BY <2>1, <2>3 DEF CgroupPlan
    <3>2. /\ Done(w, Files(<<CgroupV2Cpu, CgroupV2Memory, CgroupV2Io>>, "fail"))
          /\ Done(w, Call("net", "fail"))
      BY <1>1, <3>1 DEF GetContainerStatsCgroupV2
    <3>3. /\ FilesOf(CgroupV2Cpu) \subseteq read[w] /\ FilesOf(CgroupV2Memory) \subseteq read[w]
          /\ FilesOf(CgroupV2Io) \subseteq read[w]
      BY <3>2 DEF Done, Files
    <3>4. net[w] = Of(w) BY <3>2 DEF Done, Call
    <3>5. QED BY <2>2, <2>3, <3>3, <3>4, V2Files
  <2>4. CASE node.mode # "unified"
    <3>1. t.plan = GetContainerStatsCgroupV1 BY <2>1, <2>4, KernelAssumption DEF CgroupPlan
    <3>2. /\ Done(w, Files(<<CgroupV1Cpu, CgroupV1Memory>>, "fail"))
          /\ Done(w, Blkio(CgroupV1Blkio, "fail")) /\ Done(w, Call("net", "fail"))
      BY <1>1, <3>1 DEF GetContainerStatsCgroupV1
    <3>3. FilesOf(CgroupV1Cpu) \subseteq read[w] /\ FilesOf(CgroupV1Memory) \subseteq read[w]
      BY <3>2 DEF Done, Files
    <3>4. FilesOf(CgroupV1Blkio) \subseteq read[w] BY <3>2 DEF Done, Blkio
    <3>5. net[w] = Of(w) BY <3>2 DEF Done, Call
    <3>6. QED BY <2>2, <2>4, <3>3, <3>4, <3>5, V1Files
  <2>5. QED BY <2>3, <2>4
<1>5. CASE node.runtime \in {"containerd", "crio"} /\ t.plan = GetContainerStats(node.runtime)
  <2>1. t.plan = ContainerdStats \/ t.plan = CrioStats BY <1>5 DEF GetContainerStats
  <2>2. Len(t.plan) = 4
    <3>1. Len(ContainerdStats) = 4 /\ Len(CrioStats) = 4 BY DEF ContainerdStats, CrioStats
    <3>2. QED BY <2>1, <3>1
  <2>3. t.plan[4].call = "version" BY <2>1 DEF ContainerdStats, CrioStats, Call
  <2>4. QED BY <1>1, <2>2, <2>3
<1>6. CASE t.plan = << Call("keep", "fail") >> BY <1>1, <1>6 DEF Call
<1>7. QED
  <2>1. CASE node.runtime = "docker" BY <1>2, <1>3, <2>1 DEF Tracks
  <2>2. CASE node.runtime \in {"containerd", "crio"}
    BY <1>4, <1>5, <1>6, <2>2 DEF Tracks, Track
  <2>3. QED BY <2>1, <2>2 DEF Supported

LEMMA EndIsWholeNext ==
    ASSUME NEW w PROVE (node \in Nodes /\ Supported /\ AtEnd(w)
                          /\ status[w] \in {"200", "503"} => IsWhole(w))'
<1>1. node \in Nodes /\ Supported /\ AtEnd(w) /\ status[w] \in {"200", "503"} => IsWhole(w)
  BY EndIsWhole DEF IsWhole
<1>2. QED BY <1>1, PTL

-----------------------------------------------------------------------------
(* The steps of a request on a track.                                      *)

(* What is done stays done, whatever a step adds.                          *)
LEMMA DoneKept ==
    ASSUME NEW w, UNCHANGED <<node, pidOf, req>>, read[w] \subseteq read'[w],
           pid'[w] \in {pid[w], pidOf[Of(w)]}, net'[w] \in {net[w], Of(w)},
           restart[w] => restart'[w]
    PROVE  \A item : Done(w, item) => Done(w, item)'
BY DEF Done, Of, Complete, Alternative, FilesOf

(* An item that a step has done leads to the next one, or to the end.      *)
LEMMA MovesOn ==
    ASSUME StatsTypes, NodeTypeOK, Supported, NEW w \in Workers,
           NEW t \in Tracks(req[w].kind), NEW i \in 1..Len(t.plan), StandsAt(w, t, i),
           t.plan[i].call \notin {"version", "keep"},
           rest' = [rest EXCEPT ![w] = Tail(rest[w])],
           status' = [status EXCEPT ![w] = IF Tail(rest[w]) = <<>> THEN "200" ELSE "busy"],
           UNCHANGED <<node, req>>, \A item : Done(w, item) => Done(w, item)',
           Done(w, t.plan[i])'
    PROVE  IF Busy(w)' THEN OnTrack(w)' ELSE IsWhole(w)'
<1>1. t.plan \in Seq(Items) /\ t.before \in Seq(Items) BY TrackType DEF StandsAt
<1>2. PICK n \in Nat : Len(t.plan) = n /\ i \in Nat /\ 1 <= i /\ i <= n BY <1>1
<1>3. rest[w] \in Seq(Items) BY DEF StatsTypes, RequestType
<1>4. Len(rest[w]) = Len(t.plan) + 1 - i
      /\ \A j \in 2..Len(rest[w]) : rest[w][j] = t.plan[i + j - 1]
  BY DEF StandsAt, IsAt
<1>5. rest[w] # <<>> BY <1>2, <1>3, <1>4
<1> DEFINE left == Tail(rest[w])
<1>6. /\ left \in Seq(Items) /\ Len(left) = Len(t.plan) - i
      /\ \A j \in 1..Len(left) : left[j] = t.plan[i + j]
  <2>1. left \in Seq(Items) /\ Len(left) = Len(rest[w]) - 1 BY <1>3, <1>5
  <2>2. ASSUME NEW j \in 1..Len(left) PROVE left[j] = t.plan[i + j]
    <3>1. left[j] = rest[w][j + 1] /\ j + 1 \in 2..Len(rest[w]) BY <1>3, <1>5, <2>1
    <3>2. QED BY <1>2, <1>4, <3>1
  <2>3. Len(left) = n - i BY <1>2, <1>4, <2>1
  <2>4. QED BY <1>2, <2>1, <2>2, <2>3
<1>7. rest'[w] = left /\ status'[w] = IF left = <<>> THEN "200" ELSE "busy"
  BY DEF StatsTypes, RequestType
<1>8. Tracks(req[w].kind)' = Tracks(req[w].kind) BY DEF Tracks
<1>9. \A j \in 1..i : Done(w, t.plan[j])'
  <2>1. \A j \in 1..(i - 1) : Done(w, t.plan[j]) BY DEF StandsAt
  <2>2. QED BY <1>2, <2>1
<1>10. \A j \in 1..Len(t.before) : Done(w, t.before[j])' BY DEF StandsAt
<1> HIDE DEF left
<1>11. CASE i = Len(t.plan)
  <2>1. left = <<>> BY <1>2, <1>6, <1>11
  <2>2. status'[w] = "200" BY <1>7, <2>1
  <2>3. AtEnd(w)' BY <1>2, <1>8, <1>9, <1>10, <1>11 DEF AtEnd
  <2>4. (node \in Nodes /\ Supported)' BY DEF NodeTypeOK, Supported
  <2>5. IsWhole(w)' BY <2>2, <2>3, <2>4, EndIsWholeNext
  <2>6. QED BY <2>2, <2>5 DEF Busy
<1>12. CASE i # Len(t.plan)
  <2>1. i + 1 \in 1..Len(t.plan) /\ left # <<>> /\ 1 \in 1..Len(left)
    BY <1>2, <1>6, <1>12
  <2>2. Stands(left[1], t.plan[i + 1]) BY <1>6, <2>1 DEF Stands
  <2>3. Len(left) = Len(t.plan) + 1 - (i + 1)
    <3>1. Len(left) = n - i /\ n - i = n + 1 - (i + 1) BY <1>2, <1>6
    <3>2. QED BY <1>2, <3>1
  <2>4. \A j \in 2..Len(left) : left[j] = t.plan[(i + 1) + j - 1]
    <3> TAKE j \in 2..Len(left)
    <3>1. j \in 1..Len(left) /\ (i + 1) + j - 1 = i + j BY <1>2, <1>6
    <3>2. QED BY <1>6, <3>1
  <2>5. IsAt(w, t.plan, i + 1)' BY <1>7, <2>2, <2>3, <2>4 DEF IsAt, Stands
  <2>6. \A j \in 1..((i + 1) - 1) : Done(w, t.plan[j])' BY <1>2, <1>9
  <2>7. StandsAt(w, t, i + 1)' BY <1>10, <2>5, <2>6 DEF StandsAt
  <2>8. OnTrack(w)' BY <1>8, <2>1, <2>7 DEF OnTrack
  <2>9. Busy(w)' BY <1>7, <2>1 DEF Busy
  <2>10. QED BY <2>8, <2>9
<1>13. QED BY <1>11, <1>12

(* The first item of a track.                                              *)
LEMMA Begins ==
    ASSUME NEW w, req'[w].kind \in Kinds, NEW t \in Tracks(req[w].kind)',
           t.plan \in Seq(Items), t.plan # <<>>, rest'[w] = t.plan,
           \A j \in 1..Len(t.before) : Done(w, t.before[j])'
    PROVE  OnTrack(w)'
<1>1. 1 \in 1..Len(t.plan) /\ Len(t.plan) \in Nat OBVIOUS
<1>2. Stands(rest'[w][1], t.plan[1]) BY DEF Stands
<1>3. \A j \in 2..Len(rest'[w]) : rest'[w][j] = t.plan[1 + j - 1] BY <1>1
<1>4. IsAt(w, t.plan, 1)' BY <1>1, <1>2, <1>3 DEF IsAt, Stands
<1>5. StandsAt(w, t, 1)' BY <1>4 DEF StandsAt
<1>6. QED BY <1>1, <1>5 DEF OnTrack

(* The section of a lock: the item is the planned one still.               *)
LEMMA EntersSection ==
    ASSUME StatsTypes, Supported, NEW w \in Workers, NEW t \in Tracks(req[w].kind),
           NEW i \in 1..Len(t.plan), StandsAt(w, t, i), NEW c,
           \/ Head(rest[w]).call = "restart" /\ c = "list"
           \/ Head(rest[w]).call = "blkio" /\ c = "blkioFiles",
           rest' = [rest EXCEPT ![w][1].call = c],
           UNCHANGED <<node, pidOf, req, read, pid, net, restart>>
    PROVE  OnTrack(w)'
<1>1. t.plan \in Seq(Items) BY TrackType DEF StandsAt
<1>2. Len(t.plan) \in Nat /\ i \in Nat /\ i <= Len(t.plan) BY <1>1
<1>3. rest[w] \in Seq(Items) /\ Len(rest[w]) = Len(t.plan) + 1 - i
  BY DEF StatsTypes, RequestType, StandsAt, IsAt
<1>4. 1 \in DOMAIN rest[w] /\ Head(rest[w]) = rest[w][1] BY <1>2, <1>3
<1>5. /\ Len(rest'[w]) = Len(rest[w]) /\ rest'[w][1] = [rest[w][1] EXCEPT !.call = c]
      /\ \A j \in 2..Len(rest[w]) : rest'[w][j] = rest[w][j]
  <2> DEFINE item == [rest[w][1] EXCEPT !.call = c]
  <2>1. rest'[w] = [rest[w] EXCEPT ![1] = item] BY DEF StatsTypes, RequestType
  <2>2. item \in Items
    <3>1. rest[w][1] \in Items /\ c \in Sections BY <1>3, <1>4 DEF Sections
    <3>2. QED BY <3>1 DEF Items
  <2> HIDE DEF item
  <2>3. /\ Len(rest'[w]) = Len(rest[w]) /\ rest'[w][1] = item
        /\ \A j \in 2..Len(rest[w]) : rest'[w][j] = rest[w][j]
    BY <1>3, <1>4, <2>1, <2>2
  <2>4. QED BY <2>3 DEF item
<1>6. rest[w][1] = t.plan[i]
  <2>1. t.plan[i] \in Items BY <1>1
  <2>2. Stands(rest[w][1], t.plan[i]) BY DEF StandsAt, IsAt
  <2>3. QED BY <1>4, <2>1, <2>2 DEF Stands, Items
<1>7. IsAt(w, t.plan, i)' BY <1>4, <1>5, <1>6 DEF StandsAt, IsAt, Stands
<1>8. \A item : Done(w, item) => Done(w, item)'
  BY DEF Done, Of, Complete, Alternative, FilesOf
<1>9. StandsAt(w, t, i)' BY <1>7, <1>8 DEF StandsAt
<1>10. Tracks(req[w].kind)' = Tracks(req[w].kind) BY DEF Tracks
<1>11. QED BY <1>9, <1>10 DEF OnTrack

LEMMA HeadStands ==
    ASSUME StatsTypes, Supported, NEW w \in Workers, NEW t \in Tracks(req[w].kind),
           NEW i \in 1..Len(t.plan), StandsAt(w, t, i)
    PROVE  /\ rest[w] # <<>> /\ Head(rest[w]) \in Items
           /\ LET item == Head(rest[w])  planned == t.plan[i] IN
              /\ item.of = planned.of /\ item.otherwise = planned.otherwise
              /\ \/ item.call = planned.call
                 \/ planned.call = "restart" /\ item.call = "list"
                 \/ planned.call = "blkio" /\ item.call = "blkioFiles"
<1>1. t.plan \in Seq(Items) BY TrackType DEF StandsAt
<1>2. PICK n \in Nat : Len(t.plan) = n /\ i \in Nat /\ 1 <= i /\ i <= n BY <1>1
<1>3. rest[w] \in Seq(Items) /\ Len(rest[w]) = n + 1 - i
  BY <1>2 DEF StatsTypes, RequestType, StandsAt, IsAt
<1>4. rest[w] # <<>> /\ Head(rest[w]) \in Items /\ Head(rest[w]) = rest[w][1] BY <1>2, <1>3
<1>5. t.plan[i] \in Items BY <1>1
<1>6. Stands(Head(rest[w]), t.plan[i]) BY <1>4 DEF StandsAt, IsAt
<1>7. QED BY <1>4, <1>5, <1>6 DEF Stands, Items

LEMMA AdvanceMovesOn ==
    ASSUME StatsTypes, StatsRest, Supported, DOMAIN read = Workers, NEW w \in Workers,
           NEW t \in Tracks(req[w].kind), NEW i \in 1..Len(t.plan), StandsAt(w, t, i),
           t.plan[i].call \notin {"version", "keep"},
           NEW files, NEW whose \in {net[w], Of(w)}, NEW count \in BOOLEAN, restart[w] => count,
           Advance(w, TRUE, files, whose, count),
           UNCHANGED <<node, pidOf>>, pid'[w] \in {pid[w], pidOf[Of(w)]},
           (files \subseteq read'[w] /\ net'[w] = whose /\ (count => restart'[w]))
             => Done(w, t.plan[i])'
    PROVE  IF Busy(w)' THEN OnTrack(w)' ELSE IsWhole(w)'
<1>1. /\ rest' = [rest EXCEPT ![w] = Tail(rest[w])]
      /\ status' = [status EXCEPT ![w] = IF Tail(rest[w]) = <<>> THEN "200" ELSE "busy"]
      /\ read' = [read EXCEPT ![w] = @ \cup files]
      /\ net' = [net EXCEPT ![w] = whose] /\ restart' = [restart EXCEPT ![w] = count]
      /\ req' = req
  <2> DEFINE kept == TRUE /\ count
  <2>1. kept = count OBVIOUS
  <2>2. restart' = [restart EXCEPT ![w] = count] BY <2>1 DEF Advance
  <2>3. QED BY <2>2 DEF Advance
<1>2. read'[w] = read[w] \cup files /\ net'[w] = whose /\ restart'[w] = count
  BY <1>1 DEF StatsTypes, RequestType, StatsRest, Tallies
<1>3. Done(w, t.plan[i])' BY <1>2
<1>4. \A item : Done(w, item) => Done(w, item)' BY <1>1, <1>2, DoneKept
<1>5. QED BY <1>1, <1>3, <1>4, MovesOn DEF StatsRest

(* The daemon's statistics stand for files that are not there.             *)
LEMMA DaemonInstead ==
    ASSUME StatsTypes, Supported, NEW w \in Workers, req[w].kind \in Kinds,
           Track(DockerApi, <<>>) \in Tracks(req[w].kind),
           Head(rest[w]).otherwise = "dockerApi", NEW files, NEW whose, NEW count,
           Advance(w, FALSE, files, whose, count), node' = node
    PROVE  Busy(w)' /\ OnTrack(w)'
<1>1. DockerApi \in Seq(Items) /\ DockerApi # <<>>
  BY PlanType, PlanItemsSeq DEF PlanNames, Plan, DockerApi
<1>2. /\ rest' = [rest EXCEPT ![w] = Plan("dockerApi", node.runtime)]
      /\ status' = [status EXCEPT ![w] = IF Plan("dockerApi", node.runtime) = <<>>
                                           THEN "200" ELSE "busy"]
      /\ req' = req
  BY DEF Advance
<1>3. Plan("dockerApi", node.runtime) = DockerApi BY DEF Plan
<1>4. rest'[w] = DockerApi /\ status'[w] = "busy"
  BY <1>1, <1>2, <1>3 DEF StatsTypes, RequestType
<1> DEFINE t == Track(DockerApi, <<>>)
<1>5. t.plan = DockerApi /\ t.before = <<>> BY DEF Track
<1>6. Tracks(req[w].kind)' = Tracks(req[w].kind) BY <1>2 DEF Tracks
<1>7. t \in Tracks(req[w].kind)' BY <1>6
<1> HIDE DEF t
<1>8. req'[w].kind \in Kinds /\ \A j \in 1..Len(t.before) : Done(w, t.before[j])'
  BY <1>2, <1>5
<1>9. OnTrack(w)' BY <1>1, <1>4, <1>5, <1>7, <1>8, Begins
<1>10. QED BY <1>4, <1>9 DEF Busy

LEMMA FilesStep ==
    ASSUME StatsTypes, StatsRest, Supported, DOMAIN read = Workers, NEW w \in Workers,
           StillThere(w), NEW t \in Tracks(req[w].kind), NEW i \in 1..Len(t.plan),
           StandsAt(w, t, i), ReadFiles(w) \/ ReadBlkio(w)
    PROVE  IF Busy(w)' THEN OnTrack(w)' ELSE IsWhole(w)'
<1>1. /\ ReadParts(w) /\ UNCHANGED <<node, pidOf, pid>>
      /\ Head(rest[w]).call \in {"files", "blkioFiles"}
  BY DEF ReadFiles, ReadBlkio, At, Quiet, nodeVars
<1>2. SoundAt(req[w].kind, t, i) BY TrackIsSound DEF StatsRest, NodeTypeOK, StillThere
<1>3. /\ t.plan[i].call \in {"files", "blkio"}
      /\ t.plan[i].of = Head(rest[w]).of /\ t.plan[i].otherwise = Head(rest[w]).otherwise
      /\ \/ \A n \in DOMAIN t.plan[i].of : Complete(t.plan[i].of[n])
         \/ /\ Head(rest[w]).otherwise = "dockerApi"
            /\ Track(DockerApi, <<>>) \in Tracks(req[w].kind)
  BY <1>1, <1>2, HeadStands DEF SoundAt, SureCalls
<1> DEFINE parts == t.plan[i].of
           ok    == \A n \in DOMAIN parts : Complete(parts[n])
           files == UNION {FilesOf(parts[n]) : n \in DOMAIN parts}
<1>4. Got(w, ok, IF ok THEN files ELSE {}) BY <1>1, <1>3 DEF ReadParts, StillThere
<1>5. CASE ok
  <2>1. Advance(w, TRUE, files, net[w], restart[w]) BY <1>4, <1>5 DEF Got
  <2>2. ASSUME files \subseteq read'[w] PROVE Done(w, t.plan[i])'
    <3>1. \A n \in DOMAIN parts : Complete(parts[n]) /\ FilesOf(parts[n]) \subseteq read'[w]
      BY <1>5, <2>2
    <3>2. \A n \in DOMAIN parts : Complete(parts[n])' /\ (FilesOf(parts[n]) \subseteq read[w])'
      BY <1>1, <3>1 DEF Complete, FilesOf, Alternative
    <3>3. QED BY <1>3, <3>2 DEF Done
  <2> HIDE DEF files
  <2>3. restart[w] \in BOOLEAN BY DEF StatsRest, Tallies
  <2>4. QED BY <1>1, <1>3, <2>1, <2>2, <2>3, AdvanceMovesOn
<1>6. CASE ~ok
  <2>1. Advance(w, FALSE, {}, net[w], restart[w]) BY <1>4, <1>6 DEF Got
  <2>2. QED BY <1>1, <1>3, <1>6, <2>1, DaemonInstead DEF StillThere
<1>7. QED BY <1>5, <1>6

LEMMA NetStep ==
    ASSUME StatsTypes, StatsRest, PidsUnique, Supported, DOMAIN read = Workers,
           \A c \in Containers : state[c] = "running" => pidOf[c] \in Pids, NEW w \in Workers,
           StillThere(w), NEW t \in Tracks(req[w].kind), NEW i \in 1..Len(t.plan),
           StandsAt(w, t, i), ReadNetworkStats(w)
    PROVE  IF Busy(w)' THEN OnTrack(w)' ELSE IsWhole(w)'
<1>1. UNCHANGED <<node, pidOf, pid>> /\ Head(rest[w]).call = "net"
  BY DEF ReadNetworkStats, At, Quiet, nodeVars
<1>2. SoundAt(req[w].kind, t, i) BY TrackIsSound DEF StatsRest, NodeTypeOK, StillThere
<1>3. /\ t.plan[i].call = "net"
      /\ \/ \E j \in 1..(i - 1) : GivesPid(t.plan[j])
         \/ \E j \in 1..Len(t.before) : GivesPid(t.before[j])
  BY <1>1, <1>2, HeadStands DEF SoundAt, SureCalls
<1>4. pid[w] = pidOf[Of(w)] BY <1>3 DEF StandsAt, GivesPid, Done
<1>5. Of(w) \in Containers BY DEF StatsTypes, RequestType, Of
<1>6. pid[w] # Nobody BY <1>4, <1>5, StatsAssumption DEF StillThere
<1>7. Holder(pid[w]) = {Of(w)} BY <1>4, <1>5 DEF Holder, PidsUnique, StillThere
<1>8. Advance(w, TRUE, {}, Of(w), restart[w]) BY <1>6, <1>7 DEF ReadNetworkStats
<1>9. net'[w] = Of(w) => Done(w, t.plan[i])'
  <2>1. req' = req BY <1>8 DEF Advance
  <2>2. QED BY <1>3, <2>1 DEF Done, Of
<1>10. restart[w] \in BOOLEAN BY DEF StatsRest, Tallies
<1>11. QED BY <1>1, <1>3, <1>8, <1>9, <1>10, AdvanceMovesOn

(* The calls: one that does not fail for a reason of its own succeeds.     *)
LEMMA CallStep ==
    ASSUME StatsTypes, StatsRest, Supported, DOMAIN read = Workers, NEW w \in Workers,
           StillThere(w), NEW t \in Tracks(req[w].kind), NEW i \in 1..Len(t.plan),
           StandsAt(w, t, i), ~upset'[w],
           AskRuntime(w) \/ GetContainerPid(w) \/ AskKubernetes(w)
    PROVE  IF Busy(w)' THEN OnTrack(w)' ELSE IsWhole(w)'
<1>1. ~CallFails(w)
  <2>1. upset \in [Workers -> BOOLEAN] BY DEF StatsRest, Tallies
  <2>2. QED BY <2>1 DEF CallFails
<1>2. restart[w] \in BOOLEAN BY DEF StatsRest, Tallies
<1>3. Of(w) \in Containers BY DEF StatsTypes, RequestType, Of
<1>4. SoundAt(req[w].kind, t, i) BY TrackIsSound DEF StatsRest, NodeTypeOK, StillThere
<1>5. Head(rest[w]).call \in SureCalls => t.plan[i].call = Head(rest[w]).call
  BY HeadStands DEF SureCalls
<1>6. CASE AskRuntime(w)
  <2> DEFINE gave == IF At(w, {"daemonStats"}) THEN {"daemon"} ELSE {}
  <2>1. Head(rest[w]).call \in {"runtime", "daemonStats", "exec", "pidFile"} /\ Busy(w)
    BY <1>6 DEF AskRuntime, At
  <2>2. Got(w, TRUE, gave) /\ UNCHANGED <<node, pidOf>>
    BY <1>1, <1>6 DEF AskRuntime, StillThere, Quiet, nodeVars
  <2>3. IF Head(rest[w]).call = "pidFile" THEN pid'[w] = pidOf[Of(w)] ELSE pid' = pid
    BY <1>1, <1>6, <2>1 DEF AskRuntime, RuntimePid, StillThere, At, StatsTypes, RequestType
  <2>4. Advance(w, TRUE, gave, net[w], restart[w]) /\ req' = req BY <2>2 DEF Got, Advance
  <2>5. t.plan[i].call = Head(rest[w]).call BY <1>5, <2>1 DEF SureCalls
  <2>6. ASSUME gave \subseteq read'[w] PROVE Done(w, t.plan[i])'
    BY <2>1, <2>2, <2>3, <2>4, <2>5, <2>6 DEF Done, Of, At
  <2> HIDE DEF gave
  <2>7. t.plan[i].call \notin {"version", "keep"} BY <2>1, <2>5
  <2>8. pid'[w] \in {pid[w], pidOf[Of(w)]} BY <2>3
  <2>9. QED BY <1>2, <2>2, <2>4, <2>6, <2>7, <2>8, AdvanceMovesOn
<1>7. CASE GetContainerPid(w)
  <2>1. Head(rest[w]).call = "pid" /\ Got(w, TRUE, {}) /\ UNCHANGED <<node, pidOf>>
    BY <1>1, <1>7 DEF GetContainerPid, At, StillThere, Quiet, nodeVars
  <2>2. pid'[w] = pidOf[Of(w)]
    BY <1>1, <1>7 DEF GetContainerPid, RuntimePid, StillThere, StatsTypes, RequestType
  <2>3. Advance(w, TRUE, {}, net[w], restart[w]) /\ req' = req BY <2>1 DEF Got, Advance
  <2>4. t.plan[i].call = "pid" BY <1>5, <2>1 DEF SureCalls
  <2>5. Done(w, t.plan[i])' BY <2>1, <2>2, <2>3, <2>4 DEF Done, Of
  <2>6. QED BY <1>2, <2>1, <2>2, <2>3, <2>4, <2>5, AdvanceMovesOn
<1>8. CASE AskKubernetes(w)
  <2> DEFINE ok == At(w, {"kube"}) \/ Of(w) \in listed
  <2>1. /\ Head(rest[w]).call \in {"kube", "find"} /\ Got(w, ok, {})
        /\ UNCHANGED <<node, pidOf, pid>>
    BY <1>1, <1>8 DEF AskKubernetes, At, Quiet, nodeVars
  <2>2. ok = TRUE BY DEF StillThere
  <2>3. Advance(w, TRUE, {}, net[w], restart[w]) BY <2>1, <2>2 DEF Got
  <2> HIDE DEF ok
  <2>4. t.plan[i].call \in {"kube", "find"} BY <1>5, <2>1 DEF SureCalls
  <2>5. Done(w, t.plan[i])' BY <2>4 DEF Done
  <2>6. QED BY <1>2, <2>1, <2>3, <2>4, <2>5, AdvanceMovesOn
<1>9. QED BY <1>6, <1>7, <1>8

LEMMA RestartStep ==
    ASSUME StatsTypes, StatsRest, Supported, DOMAIN read = Workers, NEW w \in Workers,
           StillThere(w), NEW t \in Tracks(req[w].kind), NEW i \in 1..Len(t.plan),
           StandsAt(w, t, i), ~upset'[w],
           GetContainerRestartCount(w) \/ ListPods(w) \/ LockBlkio(w)
    PROVE  IF Busy(w)' THEN OnTrack(w)' ELSE IsWhole(w)'
<1>1. ~CallFails(w)
  <2>1. upset \in [Workers -> BOOLEAN] BY DEF StatsRest, Tallies
  <2>2. QED BY <2>1 DEF CallFails
<1>2. Busy(w) /\ UNCHANGED <<node, pidOf, pid>>
  BY <1>1 DEF GetContainerRestartCount, ListPods, LockBlkio, At, Quiet, nodeVars
<1>3. ASSUME Head(rest[w]).call \in {"restart", "list"},
             Advance(w, TRUE, {}, net[w], TRUE)
      PROVE  IF Busy(w)' THEN OnTrack(w)' ELSE IsWhole(w)'
  <2>1. SoundAt(req[w].kind, t, i) BY TrackIsSound DEF StatsRest, NodeTypeOK, StillThere
  <2>2. t.plan[i].call = "restart" BY <1>3, <2>1, HeadStands DEF SoundAt, SureCalls
  <2>3. restart'[w] => Done(w, t.plan[i])' BY <2>2 DEF Done
  <2>4. QED BY <1>2, <1>3, <2>2, <2>3, AdvanceMovesOn
<1>4. ASSUME NEW c, \/ Head(rest[w]).call = "restart" /\ c = "list"
                    \/ Head(rest[w]).call = "blkio" /\ c = "blkioFiles",
             rest' = [rest EXCEPT ![w][1].call = c],
             UNCHANGED <<req, status, read, net, restart>>
      PROVE  IF Busy(w)' THEN OnTrack(w)' ELSE IsWhole(w)'
  BY <1>2, <1>4, EntersSection DEF Busy
<1>5. CASE GetContainerRestartCount(w)
  <2>1. Head(rest[w]).call = "restart" BY <1>5 DEF GetContainerRestartCount, At
  <2>2. \/ Advance(w, TRUE, {}, net[w], TRUE)
        \/ /\ rest' = [rest EXCEPT ![w][1].call = "list"]
           /\ UNCHANGED <<req, status, read, net, restart>>
    BY <1>5 DEF GetContainerRestartCount
  <2>3. QED BY <1>3, <1>4, <2>1, <2>2
<1>6. CASE LockBlkio(w)
  <2>1. Head(rest[w]).call = "blkio" BY <1>6 DEF LockBlkio, At
  <2>2. /\ rest' = [rest EXCEPT ![w][1].call = "blkioFiles"]
        /\ UNCHANGED <<req, status, read, net, restart>>
    BY <1>6 DEF LockBlkio
  <2>3. QED BY <1>4, <2>1, <2>2
<1>7. CASE ListPods(w)
  <2> DEFINE found == Of(w) \in known'[Cache(w)]
  <2>1. /\ Head(rest[w]).call = "list" /\ Advance(w, found, {}, net[w], found)
        /\ known' = [known EXCEPT ![Cache(w)] = @ \cup listed]
    BY <1>1, <1>7 DEF ListPods, At
  <2>2. found = TRUE
    <3>1. Cache(w) \in Caches BY DEF Cache, Caches
    <3>2. QED BY <2>1, <3>1 DEF StatsRest, CachesType, StillThere
  <2> HIDE DEF found
  <2>3. Advance(w, TRUE, {}, net[w], TRUE) BY <2>1, <2>2
  <2>4. QED BY <1>3, <2>1, <2>3
<1>8. QED BY <1>5, <1>6, <1>7

(* The version: one that fits leads to the plan that the detected one      *)
(* leads to.                                                               *)
LEMMA VersionStep ==
    ASSUME StatsTypes, StatsRest, Supported, DOMAIN local = Workers, NEW w \in Workers,
           StillThere(w), NEW t \in Tracks(req[w].kind), NEW i \in 1..Len(t.plan),
           StandsAt(w, t, i), Fits(w)', ReadVersion(w) \/ DetectVersion(w)
    PROVE  Busy(w)' /\ OnTrack(w)'
<1>0. PICK first : first = GetContainerStats(node.runtime) OBVIOUS
<1> DEFINE keep == << Call("keep", "fail") >>
<1>1. /\ Busy(w) /\ UNCHANGED <<node, pidOf, req, read, pid, net, restart, status>>
      /\ Head(rest[w]).call \in {"version", "keep"}
  BY DEF ReadVersion, DetectVersion, At, nodeVars
<1>2. node \in Nodes /\ req[w].kind \in Kinds
  BY DEF StatsRest, NodeTypeOK, StillThere
<1>3. SoundAt(req[w].kind, t, i) BY <1>2, TrackIsSound
<1>4. /\ t.plan[i].call = Head(rest[w]).call /\ i = Len(t.plan)
      /\ Track(keep, first) \in Tracks(req[w].kind)
      /\ Track(CgroupPlan(node.mode), first) \in Tracks(req[w].kind)
      /\ t.plan[i].call = "version" => t.plan = first
      /\ t.plan[i].call = "keep" => t.before = first
  BY <1>0, <1>1, <1>3, HeadStands DEF SoundAt, SureCalls
<1>5. \A j \in 1..Len(first) : Done(w, first[j])
  <2>1. CASE t.before = first BY <2>1 DEF StandsAt
  <2>2. CASE t.plan = first /\ t.plan[i].call = "version"
    <3>1. Done(w, first[i]) BY <2>2 DEF Done
    <3>2. first \in Seq(Items) BY <2>2, <1>2, TrackType
    <3>3. \A j \in 1..Len(first) : j = i \/ j \in 1..(i - 1) BY <1>4, <2>2, <3>2
    <3>4. QED BY <2>2, <3>1, <3>3 DEF StandsAt
  <2>3. QED BY <1>1, <1>4, <2>1, <2>2
<1>6. \A j \in 1..Len(first) : Done(w, first[j])'
  BY <1>1, <1>5 DEF Done, Of, Complete, Alternative, FilesOf
<1>7. rest'[w] \in {keep, CgroupPlan(node.mode)}
  <2>1. CASE DetectVersion(w)
    BY <2>1 DEF DetectVersion, StatsTypes, RequestType
  <2>2. CASE ReadVersion(w) /\ version = ""
    BY <2>2 DEF ReadVersion, StatsTypes, RequestType
  <2>3. CASE ReadVersion(w) /\ version # ""
    <3>1. rest'[w] = CgroupPlan(version) /\ local'[w] = version
      BY <2>3 DEF ReadVersion, StatsTypes, RequestType
    <3>2. SameFiles(version) = SameFiles(node.mode) BY <1>1, <2>3, <3>1 DEF Fits, SameFiles
    <3>3. CgroupPlan(version) = CgroupPlan(node.mode)
      BY <1>2, <3>2, KernelAssumption DEF SameFiles, CgroupPlan
    <3>4. QED BY <3>1, <3>3
  <2>4. QED BY <2>1, <2>2, <2>3
<1>8. keep \in Seq(Items) /\ keep # <<>> BY ItemType DEF Otherwise
<1>9. CgroupPlan(node.mode) \in Seq(Items) /\ CgroupPlan(node.mode) # <<>>
  BY CgroupPlanType, PlanItemsSeq
<1> HIDE DEF keep
<1>10. Track(rest'[w], first) \in Tracks(req[w].kind) BY <1>4, <1>7
<1>11. Tracks(req[w].kind)' = Tracks(req[w].kind) BY <1>1 DEF Tracks
<1>12. OnTrack(w)'
  <2>0. PICK u : u = Track(rest'[w], first) OBVIOUS
  <2>1. u.plan = rest'[w] /\ u.before = first BY <2>0 DEF Track
  <2>2. u \in Tracks(req[w].kind)' BY <1>10, <1>11, <2>0
  <2>3. req'[w].kind \in Kinds BY <1>1, <1>2
  <2>4. u.plan \in Seq(Items) /\ u.plan # <<>> BY <1>7, <1>8, <1>9, <2>1
  <2>5. \A j \in 1..Len(u.before) : Done(w, u.before[j])' BY <1>6, <2>1
  <2>6. rest'[w] = u.plan BY <2>1
  <2>7. QED BY <2>2, <2>3, <2>4, <2>5, <2>6, Begins
<1>13. QED BY <1>1, <1>12 DEF Busy

LEMMA CgroupPlanIsDecided ==
    ASSUME NEW v PROVE \A j \in 1..Len(CgroupPlan(v)) : CgroupPlan(v)[j] \in Decided
<1>1. \/ CgroupPlan(v) = GetContainerStatsCgroupV1
      \/ CgroupPlan(v) = GetContainerStatsCgroupV2
      \/ CgroupPlan(v) = << Call("unknownMode", "fail") >>
  BY DEF CgroupPlan
<1>2. /\ Files(<<CgroupV1Cpu, CgroupV1Memory>>, "fail") \in Decided
      /\ Files(<<CgroupV2Cpu, CgroupV2Memory, CgroupV2Io>>, "fail") \in Decided
      /\ Blkio(CgroupV1Blkio, "fail") \in Decided
      /\ Call("net", "fail") \in Decided /\ Call("unknownMode", "fail") \in Decided
  BY ItemType DEF Decided, Files, Blkio, Call, Parts, Otherwise, PlanCalls
<1>3. QED BY <1>1, <1>2 DEF GetContainerStatsCgroupV1, GetContainerStatsCgroupV2

LEMMA AdvanceSettles ==
    ASSUME StatsTypes, NEW w \in Workers, Busy(w), Settled(w), NEW ok \in BOOLEAN, NEW files,
           NEW whose, NEW count, Advance(w, ok, files, whose, count)
    PROVE  Settled(w)' /\ local' = local
<1>1. local' = local BY DEF Advance
<1>2. SUFFICES ASSUME local[w] # "" PROVE \A j \in 1..Len(rest'[w]) : rest'[w][j] \in Decided
  BY <1>1 DEF Settled
<1>3. rest[w] \in Seq(Items) /\ rest[w] # <<>> BY DEF StatsTypes, RequestType, RestInv
<1>4. Head(rest[w]).otherwise = "fail"
  <2>1. Head(rest[w]) = rest[w][1] /\ 1 \in 1..Len(rest[w]) BY <1>3
  <2>2. QED BY <1>2, <2>1 DEF Settled, Decided
<1>5. rest'[w] = Tail(rest[w]) \/ rest'[w] = <<>>
  <2>1. rest' = [rest EXCEPT ![w] = IF ok THEN Tail(rest[w]) ELSE <<>>]
    BY <1>4 DEF Advance
  <2>2. QED BY <2>1 DEF StatsTypes, RequestType
<1>6. \A j \in 1..Len(Tail(rest[w])) : Tail(rest[w])[j] \in Decided
  <2> TAKE j \in 1..Len(Tail(rest[w]))
  <2>1. j + 1 \in 1..Len(rest[w]) /\ Tail(rest[w])[j] = rest[w][j + 1] BY <1>3
  <2>2. QED BY <1>2, <2>1 DEF Settled
<1>7. CASE rest'[w] = <<>>
  <2>1. Len(rest'[w]) = 0 BY <1>7
  <2>2. QED BY <2>1
<1>8. QED BY <1>5, <1>6, <1>7

(* A step of a request leaves the version it read alone, or reads it.      *)
LEMMA SettledStep ==
    ASSUME StatsTypes, DOMAIN local = Workers, NEW w \in Workers, Settled(w), RequestStep(w)
    PROVE  /\ Settled(w)' /\ DOMAIN local' = Workers
           /\ \A v \in Workers \ {w} : local'[v] = local[v]
           /\ local'[w] = local[w]
                \/ (local[w] = "" /\ (ReadVersion(w) \/ DetectVersion(w)))
<1>0. Busy(w) /\ rest[w] \in Seq(Items) /\ rest[w] # <<>>
  BY DEF RequestStep, ReadFiles, LockBlkio, ReadBlkio, ReadNetworkStats, AskRuntime,
     GetContainerPid, AskKubernetes, GetContainerRestartCount, ListPods, ReadVersion,
     DetectVersion, Refuse, At, StatsTypes, RequestType, RestInv
<1>1. ASSUME NEW ok \in BOOLEAN, NEW files, NEW whose, NEW count,
             Advance(w, ok, files, whose, count)
      PROVE  Settled(w)' /\ local' = local
  BY <1>0, <1>1, AdvanceSettles
<1>2. ASSUME rest'[w] = <<>>, local' = local PROVE Settled(w)'
  <2>1. Len(rest'[w]) = 0 BY <1>2
  <2>2. 1..Len(rest'[w]) = {} BY <2>1
  <2>3. QED BY <2>2 DEF Settled
<1>3. ASSUME NEW c \in Sections, rest' = [rest EXCEPT ![w][1].call = c], local' = local
      PROVE  Settled(w)'
  <2> DEFINE item == [rest[w][1] EXCEPT !.call = c]
  <2>1. rest'[w] = [rest[w] EXCEPT ![1] = item] BY <1>3 DEF StatsTypes, RequestType
  <2>2. item \in Items /\ (rest[w][1] \in Decided => item \in Decided)
    <3>1. rest[w][1] \in Items BY <1>0
    <3>2. QED BY <3>1 DEF Items, Decided, Sections
  <2> HIDE DEF item
  <2>3. /\ Len(rest'[w]) = Len(rest[w]) /\ rest'[w][1] = item /\ 1 \in 1..Len(rest[w])
        /\ \A j \in 2..Len(rest[w]) : rest'[w][j] = rest[w][j]
    BY <1>0, <2>1, <2>2
  <2>4. \A j \in 1..Len(rest[w]) : j = 1 \/ j \in 2..Len(rest[w]) BY <1>0
  <2>5. QED BY <1>3, <2>2, <2>3, <2>4 DEF Settled
<1>4. CASE LockBlkio(w) BY <1>3, <1>4 DEF LockBlkio, Sections
<1>5. CASE GetContainerRestartCount(w)
  <2>1. \/ Advance(w, TRUE, {}, net[w], TRUE)
        \/ rest' = [rest EXCEPT ![w][1].call = "list"] /\ local' = local
    BY <1>5 DEF GetContainerRestartCount
  <2>2. QED BY <1>1, <1>3, <2>1 DEF Sections
<1>6. CASE \/ ReadFiles(w) \/ ReadBlkio(w) \/ ReadNetworkStats(w) \/ AskRuntime(w)
           \/ GetContainerPid(w) \/ AskKubernetes(w) \/ ListPods(w)
  <2>1. \/ Panics(w)
        \/ \E ok \in BOOLEAN : \E files, whose, count : Advance(w, ok, files, whose, count)
    <3>1. CASE ReadFiles(w) \/ ReadBlkio(w)
      <4>1. \E ok \in BOOLEAN : \E files : Got(w, ok, files)
        BY <3>1, Zenon DEF ReadFiles, ReadBlkio, ReadParts
      <4>2. QED BY <4>1 DEF Got
    <3>2. CASE ReadNetworkStats(w) BY <3>2 DEF ReadNetworkStats, Got
    <3>3. CASE AskRuntime(w)
      <4>1. \E ok \in BOOLEAN : \E files : Got(w, ok, files) BY <3>3 DEF AskRuntime
      <4>2. QED BY <4>1 DEF Got
    <3>4. CASE GetContainerPid(w) BY <3>4 DEF GetContainerPid, Got
    <3>5. CASE AskKubernetes(w)
      <4>1. \/ Got(w, FALSE, {}) \/ Panics(w)
            \/ Got(w, At(w, {"kube"}) \/ Of(w) \in listed, {})
        BY <3>5 DEF AskKubernetes
      <4>2. (At(w, {"kube"}) \/ Of(w) \in listed) \in BOOLEAN BY DEF At
      <4>3. QED BY <4>1, <4>2, Zenon DEF Got
    <3>6. CASE ListPods(w)
      <4> DEFINE found == Of(w) \in known'[Cache(w)]
      <4>1. Panics(w) \/ Got(w, FALSE, {}) \/ Advance(w, found, {}, net[w], found)
        BY <3>6 DEF ListPods
      <4>2. found \in BOOLEAN OBVIOUS
      <4> HIDE DEF found
      <4>3. QED BY <4>1, <4>2 DEF Got
    <3>7. QED BY <1>6, <3>1, <3>2, <3>3, <3>4, <3>5, <3>6
  <2>2. CASE Panics(w) BY <1>2, <2>2 DEF Panics, StatsTypes, RequestType
  <2>3. QED BY <1>1, <2>1, <2>2
<1>7. CASE ReadVersion(w) \/ DetectVersion(w)
  <2>1. PICK v : local' = [local EXCEPT ![w] = v]
    BY <1>7 DEF ReadVersion, DetectVersion
  <2>2. local[w] = ""
    <3>1. Head(rest[w]) = rest[w][1] /\ 1 \in 1..Len(rest[w]) BY <1>0
    <3>2. rest[w][1].call \in {"version", "keep"} BY <1>7, <3>1 DEF ReadVersion, DetectVersion, At
    <3>3. QED BY <3>1, <3>2 DEF Settled, Decided
  <2>3. CASE ReadVersion(w) /\ version = ""
    <3>1. local'[w] = "" BY <2>3 DEF ReadVersion
    <3>2. QED BY <1>7, <2>1, <2>2, <3>1 DEF Settled
  <2>4. CASE DetectVersion(w) \/ (ReadVersion(w) /\ version # "")
    <3>1. \E u : rest'[w] = CgroupPlan(u)
      BY <2>4 DEF DetectVersion, ReadVersion, StatsTypes, RequestType
    <3>2. QED BY <1>7, <2>1, <2>2, <3>1, CgroupPlanIsDecided DEF Settled
  <2>5. QED BY <1>7, <2>1, <2>2, <2>3, <2>4
<1>8. CASE Refuse(w) BY <1>2, <1>8 DEF Refuse, StatsTypes, RequestType
<1>9. QED BY <1>4, <1>5, <1>6, <1>7, <1>8 DEF RequestStep

LEMMA UpsetStays ==
    ASSUME StatsRest, NEW w \in Workers, RequestStep(w)
    PROVE  /\ \A v \in Workers \ {w} : upset'[v] = upset[v]
           /\ ~upset'[w] => ~upset[w]
           /\ UNCHANGED <<node, state, pidOf, listed>>
<1>1. upset' = upset \/ upset' = [upset EXCEPT ![w] = TRUE]
  BY DEF RequestStep, ReadFiles, LockBlkio, ReadBlkio, ReadNetworkStats, AskRuntime,
     GetContainerPid, AskKubernetes, GetContainerRestartCount, ListPods, ReadVersion,
     DetectVersion, Refuse, Quiet, CallFails
<1>2. UNCHANGED <<node, state, pidOf, listed>>
  BY DEF RequestStep, ReadFiles, LockBlkio, ReadBlkio, ReadNetworkStats, AskRuntime,
     GetContainerPid, AskKubernetes, GetContainerRestartCount, ListPods, ReadVersion,
     DetectVersion, Refuse, Quiet, CallFails, nodeVars
<1>3. QED BY <1>1, <1>2 DEF StatsRest, Tallies

(* A step of a request keeps it on its track, or ends it with an answer    *)
(* that is whole.                                                          *)
LEMMA WholeStep ==
    ASSUME StatsTypes, StatsRest, Networks, WholeInv, NEW w \in Workers, RequestStep(w)
    PROVE  Whole(w)'
<1>1. SUFFICES ASSUME ~upset'[w] PROVE /\ Busy(w)' => StillThere(w)'
                                       /\ Busy(w)' /\ Fits(w)' /\ Supported' => OnTrack(w)'
                                       /\ Ended(w)' /\ Fits(w)' /\ Supported' => IsWhole(w)'
  BY DEF Whole
<1>2. ~upset[w] /\ UNCHANGED <<node, state, pidOf, listed>> BY <1>1, UpsetStays
<1>3. Busy(w)
  BY DEF RequestStep, ReadFiles, LockBlkio, ReadBlkio, ReadNetworkStats, AskRuntime,
     GetContainerPid, AskKubernetes, GetContainerRestartCount, ListPods, ReadVersion,
     DetectVersion, Refuse, At
<1>4. StillThere(w) BY <1>2, <1>3 DEF WholeInv, Whole
<1>5. StillThere(w)'
  <2>1. req' = req BY RequestStepRest
  <2>2. QED BY <1>2, <1>4, <2>1 DEF StillThere, Of
<1>6. ASSUME Fits(w)', Supported' PROVE IF Busy(w)' THEN OnTrack(w)' ELSE IsWhole(w)'
  <2>1. Supported BY <1>2, <1>6 DEF Supported
  <2>2. Fits(w)
    <3>1. local'[w] = local[w] \/ local[w] = "" BY SettledStep DEF WholeInv
    <3>2. QED BY <1>2, <1>6, <3>1 DEF Fits
  <2>3. OnTrack(w) BY <1>2, <1>3, <2>1, <2>2 DEF WholeInv, Whole
  <2>13. PICK t \in Tracks(req[w].kind) : \E i \in 1..Len(t.plan) : StandsAt(w, t, i)
    BY <2>3, Zenon DEF OnTrack
  <2>4. PICK i \in 1..Len(t.plan) : StandsAt(w, t, i) BY <2>13, Zenon
  <2>5. DOMAIN read = Workers /\ DOMAIN local = Workers /\ PidsUnique
        /\ \A c \in Containers : state[c] = "running" => pidOf[c] \in Pids
    BY DEF WholeInv, Networks
  <2>6. CASE ReadFiles(w) \/ ReadBlkio(w) BY <1>4, <2>1, <2>4, <2>5, <2>6, FilesStep
  <2>7. CASE ReadNetworkStats(w) BY <1>4, <2>1, <2>4, <2>5, <2>7, NetStep
  <2>8. CASE AskRuntime(w) \/ GetContainerPid(w) \/ AskKubernetes(w)
    BY <1>1, <1>4, <2>1, <2>4, <2>5, <2>8, CallStep
  <2>9. CASE GetContainerRestartCount(w) \/ ListPods(w) \/ LockBlkio(w)
    BY <1>1, <1>4, <2>1, <2>4, <2>5, <2>9, RestartStep
  <2>10. CASE ReadVersion(w) \/ DetectVersion(w)
    BY <1>4, <1>6, <2>1, <2>4, <2>5, <2>10, VersionStep
  <2>11. ~Refuse(w)
    <3>1. SoundAt(req[w].kind, t, i)
      BY <1>4, <2>1, <2>4, TrackIsSound DEF StatsRest, NodeTypeOK, StillThere
    <3>2. Head(rest[w]).call \notin {"unsupported", "unknownMode"}
      BY <2>1, <2>4, <3>1, HeadStands DEF SoundAt, SureCalls
    <3>3. QED BY <3>2 DEF Refuse, At
  <2>12. QED BY <2>6, <2>7, <2>8, <2>9, <2>10, <2>11 DEF RequestStep
<1>7. QED BY <1>5, <1>6 DEF Ended

(* A step that leaves a request and its container alone.                   *)
LEMMA WholeKept ==
    ASSUME NEW w, Settled(w), Whole(w), node' = node,
           UNCHANGED <<req[w], rest[w], status[w], read[w], pid[w], net[w], restart[w], local[w]>>,
           ~upset'[w] => ~upset[w],
           ~upset'[w] /\ Busy(w) /\ StillThere(w) => StillThere(w)' /\ pidOf'[Of(w)] = pidOf[Of(w)]
    PROVE  Settled(w)' /\ Whole(w)'
<1>1. Settled(w)' BY DEF Settled
<1>2. SUFFICES ASSUME ~upset'[w], ~upset[w] PROVE Whole(w)' BY <1>1 DEF Whole
<1>3. Busy(w)' = Busy(w) /\ Fits(w)' = Fits(w) /\ Supported' = Supported /\ Of(w)' = Of(w)
      /\ Ended(w)' = Ended(w)
  BY DEF Busy, Fits, Supported, Of, Ended, SameFiles
<1>4. Ended(w) /\ Fits(w) /\ Supported => IsWhole(w)' BY <1>2 DEF Whole, IsWhole, Wanted, Of
<1>5. ASSUME Busy(w), Fits(w), Supported PROVE OnTrack(w)'
  <2>1. OnTrack(w) /\ pidOf'[Of(w)] = pidOf[Of(w)] BY <1>2, <1>5 DEF Whole
  <2>13. PICK t \in Tracks(req[w].kind) : \E i \in 1..Len(t.plan) : StandsAt(w, t, i)
    BY <2>1, Zenon DEF OnTrack
  <2>2. PICK i \in 1..Len(t.plan) : StandsAt(w, t, i) BY <2>13, Zenon
  <2>3. \A item : Done(w, item) => Done(w, item)'
    BY <2>1 DEF Done, Of, Complete, Alternative, FilesOf
  <2>4. IsAt(w, t.plan, i)' BY <2>2 DEF StandsAt, IsAt, Stands
  <2>5. StandsAt(w, t, i)' BY <2>2, <2>3, <2>4 DEF StandsAt
  <2>6. Tracks(req[w].kind)' = Tracks(req[w].kind) BY DEF Tracks
  <2>7. QED BY <2>2, <2>5, <2>6 DEF OnTrack
<1>6. QED BY <1>2, <1>3, <1>4, <1>5 DEF Whole

(* What a step of the node leaves to the requests: who notices is upset.   *)
Unnoticed(w) ==
    /\ ~upset'[w] => ~upset[w]
    /\ (~upset'[w] /\ Busy(w) /\ StillThere(w)) =>
         (StillThere(w)' /\ pidOf'[Of(w)] = pidOf[Of(w)])

LEMMA NodeUnnoticed ==
    ASSUME StatsTypes, StatsRest, NEW w \in Workers, StatsNode PROVE Unnoticed(w)
<1>1. req' = req BY NodeStepShape
<1>2. Of(w) \in Containers /\ Of(w)' = Of(w) BY <1>1 DEF StatsTypes, RequestType, Of
<1> USE DEF StatsTypes, NodeType
<1>3. ASSUME NEW c \in Containers, ContainerStarts(c) PROVE Unnoticed(w)
  <2>1. state[c] = "created" /\ UNCHANGED <<listed, upset>>
    BY <1>3 DEF ContainerStarts
  <2>2. \A d \in Containers \ {c} : state'[d] = state[d] /\ pidOf'[d] = pidOf[d]
    BY <1>3 DEF ContainerStarts
  <2>3. QED BY <1>1, <1>2, <2>1, <2>2 DEF Unnoticed, StillThere
<1>4. ASSUME NEW c \in Containers, ContainerListed(c) PROVE Unnoticed(w)
  BY <1>1, <1>2, <1>4 DEF ContainerListed, Unnoticed, StillThere
<1>5. ASSUME NEW c \in Containers, ContainerEnds(c) PROVE Unnoticed(w)
  <2>1. upset' = Upset(c) /\ UNCHANGED <<pidOf, listed>> BY <1>5 DEF ContainerEnds
  <2>2. upset'[w] = (upset[w] \/ (Busy(w) /\ Of(w) = c)) BY <2>1 DEF Upset, Of
  <2>3. \A d \in Containers \ {c} : state'[d] = state[d] BY <1>5 DEF ContainerEnds
  <2>4. QED BY <1>1, <1>2, <2>1, <2>2, <2>3 DEF Unnoticed, StillThere
<1>6. ASSUME NEW c \in Containers, ContainerRemoved(c) PROVE Unnoticed(w)
  <2>1. /\ state[c] = "ended" /\ listed' = listed \ {c} /\ UNCHANGED <<pidOf, upset>>
        /\ \A d \in Containers \ {c} : state'[d] = state[d]
    BY <1>6 DEF ContainerRemoved
  <2>2. QED BY <1>1, <1>2, <2>1 DEF Unnoticed, StillThere
<1>7. CASE Reload \/ \E x \in Caches : CacheAges(x)
  BY <1>1, <1>2, <1>7 DEF Reload, CacheAges, nodeVars, workerVars, Unnoticed, StillThere
<1>8. QED BY <1>3, <1>4, <1>5, <1>6, <1>7 DEF StatsNode

LEMMA NodePids ==
    ASSUME StatsTypes, WholeInv, StatsNode
    PROVE  \A c \in Containers : state'[c] = "running" => pidOf'[c] \in Pids
<1> USE DEF StatsTypes, NodeType, WholeInv
<1>1. ASSUME NEW d \in Containers, ContainerStarts(d)
      PROVE  \A c \in Containers : state'[c] = "running" => pidOf'[c] \in Pids
  <2>1. PICK p \in Pids : pidOf' = [pidOf EXCEPT ![d] = p] BY <1>1 DEF ContainerStarts
  <2>2. QED BY <1>1, <2>1 DEF ContainerStarts
<1>2. ASSUME NEW d \in Containers,
             ContainerListed(d) \/ ContainerEnds(d) \/ ContainerRemoved(d)
      PROVE  \A c \in Containers : state'[c] = "running" => pidOf'[c] \in Pids
  BY <1>2 DEF ContainerListed, ContainerEnds, ContainerRemoved
<1>3. CASE Reload \/ \E x \in Caches : CacheAges(x)
  BY <1>3 DEF Reload, CacheAges, nodeVars
<1>4. QED BY <1>1, <1>2, <1>3 DEF StatsNode

LEMMA WholeNode == ASSUME StatsTypes, StatsRest, WholeInv, StatsNode PROVE WholeInv'
<1>1. UNCHANGED <<node, req, rest, status, read, pid, net, restart, local>>
  BY DEF StatsNode, ContainerStarts, ContainerListed, ContainerEnds, ContainerRemoved,
     Reload, CacheAges, NodeStep, nodeVars, confVars, cacheVars, workerVars
<1>2. \A w \in Workers : Settled(w)' /\ Whole(w)'
  BY <1>1, NodeUnnoticed, WholeKept DEF WholeInv, Unnoticed
<1>3. QED BY <1>1, <1>2, NodePids DEF WholeInv

(* A request starts at the first item of its plan, or is answered at once. *)
LEMMA WholeBegins ==
    ASSUME StatsTypes, StatsRest, WholeInv, NEW w \in Workers, Request(w)
    PROVE  Settled(w)' /\ Whole(w)'
<1>1. PICK r \in Requests[w] :
        LET plan == Plan(r.kind, node.runtime) IN
        /\ req' = [req EXCEPT ![w] = r] /\ rest' = [rest EXCEPT ![w] = plan]
        /\ \/ status' = [status EXCEPT ![w] = IF plan = <<>> THEN "200" ELSE "busy"]
           \/ r.kind = "volume" /\ status' = [status EXCEPT ![w] = "503"]
        /\ upset' = [upset EXCEPT ![w] = state[r.of] # "running" \/ r.of \notin listed]
  BY Zenon DEF Request
<1>2. r \in [kind : Kinds, of : Containers] BY StatsAssumption, Zenon DEF Kinds
<1>3. PICK plan : plan = Plan(r.kind, node.runtime) OBVIOUS
<1>4. /\ req'[w] = r /\ rest'[w] = plan
      /\ \/ status'[w] = IF plan = <<>> THEN "200" ELSE "busy"
         \/ r.kind = "volume" /\ status'[w] = "503"
      /\ upset'[w] = (state[r.of] # "running" \/ r.of \notin listed)
  BY <1>1, <1>3 DEF StatsTypes, RequestType, StatsRest, Tallies
<1>5. UNCHANGED <<node, state, listed>> /\ local'[w] = ""
  BY DEF Request, nodeVars, WholeInv
<1>6. plan \in Seq(Items) BY <1>2, <1>3, PlanType, PlanItemsSeq DEF PlanNames, Kinds
<1>7. Settled(w)' BY <1>5 DEF Settled
<1>8. SUFFICES ASSUME ~upset'[w] PROVE Whole(w)' BY <1>7 DEF Whole
<1>9. StillThere(w)' BY <1>2, <1>4, <1>5, <1>8 DEF StillThere, Of
<1>10. ASSUME Busy(w)', Supported' PROVE OnTrack(w)'
  <2>1. plan # <<>> BY <1>4, <1>10 DEF Busy
  <2>2. Supported BY <1>5, <1>10 DEF Supported
  <2>3. PICK t : t = Track(plan, <<>>) OBVIOUS
  <2>4. t.plan = plan /\ t.before = <<>> BY <2>3 DEF Track
  <2>5. t \in Tracks(r.kind) BY <1>2, <1>3, <2>2, <2>3, FirstTrack
  <2>6. t \in Tracks(req[w].kind)' BY <1>4, <1>5, <2>5 DEF Tracks
  <2>7. \A j \in 1..Len(t.before) : Done(w, t.before[j])'
    <3>1. 1..Len(t.before) = {} BY <2>4
    <3>2. QED BY <3>1
  <2>8. QED BY <1>2, <1>4, <1>6, <2>1, <2>4, <2>6, <2>7, Begins
<1>11. ASSUME Ended(w)', Supported' PROVE IsWhole(w)'
  <2>1. Supported BY <1>5, <1>11 DEF Supported
  <2>2. status'[w] \in {"200", "503"} BY <1>4, <1>11 DEF Ended, Busy
  <2>3. r.kind # "stats"
    <3>1. r.kind = "volume" \/ plan = <<>> BY <1>4, <1>11 DEF Ended, Busy
    <3>2. QED BY <1>2, <1>3, <2>1, <3>1, FirstTrack
  <2>4. QED BY <1>4, <2>2, <2>3 DEF IsWhole
<1>12. QED BY <1>9, <1>10, <1>11 DEF Whole

(* The steps of a request leave every other request where it is.           *)
LEMMA OtherRequests ==
    ASSUME StatsTypes, StatsRest, WholeInv, NEW w \in Workers, Request(w) \/ RequestStep(w)
    PROVE  /\ DOMAIN read' = Workers /\ DOMAIN local' = Workers
           /\ UNCHANGED <<node, state, pidOf, listed>>
           /\ \A v \in Workers \ {w} :
                UNCHANGED <<req[v], rest[v], status[v], read[v], pid[v], net[v], restart[v],
                            local[v], upset[v]>>
<1>1. CASE Request(w)
  <2>1. UNCHANGED <<node, state, pidOf, listed>> BY <1>1 DEF Request, nodeVars
  <2>2. /\ \E r : req' = [req EXCEPT ![w] = r]
        /\ \E r : rest' = [rest EXCEPT ![w] = r]
        /\ \E r : status' = [status EXCEPT ![w] = r]
        /\ \E r : upset' = [upset EXCEPT ![w] = r]
    BY <1>1, Zenon DEF Request
  <2>3. /\ read' = [read EXCEPT ![w] = {}] /\ local' = [local EXCEPT ![w] = ""]
        /\ pid' = [pid EXCEPT ![w] = Nobody] /\ net' = [net EXCEPT ![w] = Nobody]
        /\ restart' = [restart EXCEPT ![w] = FALSE]
    BY <1>1 DEF Request
  <2>4. QED
    BY <2>1, <2>2, <2>3 DEF StatsTypes, RequestType, StatsRest, Tallies, WholeInv
<1>2. CASE RequestStep(w)
  <2>1. \A v \in Workers \ {w} : UNCHANGED <<req[v], rest[v], status[v], pid[v], net[v]>>
    BY <1>2, RequestStepRest, RequestStepStores DEF GoesOn, IsPutAt, OthersStay, Stores
  <2>2. \A v \in Workers \ {w} : upset'[v] = upset[v] BY <1>2, UpsetStays
  <2>3. DOMAIN local' = Workers /\ \A v \in Workers \ {w} : local'[v] = local[v]
    BY <1>2, SettledStep DEF WholeInv
  <2>4. /\ \E r : read' = [read EXCEPT ![w] = r] \/ read' = read
        /\ \E r : restart' = [restart EXCEPT ![w] = r] \/ restart' = restart
    <3>1. \/ UNCHANGED <<read, restart>>
          \/ \E ok, files, whose, count : Advance(w, ok, files, whose, count)
      BY <1>2, Zenon
         DEF RequestStep, ReadFiles, LockBlkio, ReadBlkio, ReadParts, ReadNetworkStats,
         AskRuntime, GetContainerPid, AskKubernetes, GetContainerRestartCount, ListPods,
         ReadVersion, DetectVersion, Refuse, Got, Panics
    <3>2. QED BY <3>1 DEF Advance
  <2>5. DOMAIN read' = Workers
        /\ \A v \in Workers \ {w} : UNCHANGED <<read[v], restart[v]>>
    BY <2>4 DEF WholeInv, StatsRest, Tallies
  <2>6. UNCHANGED <<node, state, pidOf, listed>> BY <1>2, UpsetStays
  <2>7. QED BY <2>1, <2>2, <2>3, <2>5, <2>6
<1>3. QED BY <1>1, <1>2

LEMMA WholeRequest ==
    ASSUME StatsTypes, StatsRest, Networks, WholeInv, NEW w \in Workers,
           Request(w) \/ RequestStep(w)
    PROVE  WholeInv'
<1>1. Settled(w)' /\ Whole(w)'
  <2>1. CASE Request(w) BY <2>1, WholeBegins
  <2>2. CASE RequestStep(w)
    BY <2>2, WholeStep, SettledStep DEF WholeInv
  <2>3. QED BY <2>1, <2>2
<1>2. \A v \in Workers \ {w} : Settled(v)' /\ Whole(v)'
  <2> TAKE v \in Workers \ {w}
  <2>1. UNCHANGED <<node, state, pidOf, listed, req[v], rest[v], status[v], read[v], pid[v],
                    net[v], restart[v], local[v], upset[v]>>
    BY OtherRequests
  <2>2. StillThere(v) => StillThere(v)' BY <2>1 DEF StillThere, Of
  <2>3. QED BY <2>1, <2>2, WholeKept DEF WholeInv
<1>3. \A c \in Containers : state'[c] = "running" => pidOf'[c] \in Pids
  BY OtherRequests DEF WholeInv
<1>4. QED BY <1>1, <1>2, <1>3, OtherRequests DEF WholeInv

LEMMA WholeStarts == ASSUME NEW n, StatsStart(n) PROVE WholeInv
<1>1. DOMAIN read = Workers /\ DOMAIN local = Workers BY DEF StatsStart
<1>2. \A c \in Containers : state[c] = "running" => pidOf[c] \in Pids
  BY StatsAssumption DEF StatsStart
<1>3. \A w \in Workers : local[w] = "" /\ req[w] = NoRequest /\ status[w] = "200"
  BY DEF StatsStart
<1>4. \A w \in Workers : Settled(w) /\ Whole(w)
  BY <1>3 DEF Settled, Whole, Busy, Ended
<1>5. QED BY <1>1, <1>2, <1>4 DEF WholeInv

(* AnswerIsWhole: the answer about a container that runs and is listed     *)
(* throughout, while no call fails for a reason of its own, holds all that *)
(* the kernel has, its network counters and its restart count.             *)
THEOREM AnswerIsWholeHolds == Spec => []AnswerIsWhole
<1> DEFINE Inv == StatsTypes /\ StatsRest /\ Networks /\ WholeInv
<1>1. Init => Inv
  <2> SUFFICES ASSUME Init PROVE Inv OBVIOUS
  <2>1. PICK n \in Nodes : StatsStart(n)
    <3>1. SomeNode \in Nodes BY StatsAssumption, Zenon DEF SomeNode
    <3>2. QED BY <3>1 DEF Init, StatsInit, IdleStats
  <2>2. PidsUnique BY <2>1 DEF StatsStart, PidsUnique
  <2>3. \A w \in Workers : pid[w] = Nobody /\ net[w] = Nobody BY <2>1 DEF StatsStart
  <2>4. Networks BY <2>2, <2>3 DEF Networks, OwnNetwork
  <2>5. QED BY <2>1, <2>4, StatsStartTypes, StatsRestStarts, WholeStarts
<1>2. Inv /\ [Next]_helperVars => Inv'
  <2>1. ASSUME Networks, UNCHANGED statsVars PROVE Networks'
    BY <2>1 DEF statsVars, nodeVars, workerVars, Networks, PidsUnique, OwnNetwork, Of
  <2>2. ASSUME WholeInv, UNCHANGED statsVars PROVE WholeInv'
    <3>1. \A w \in Workers : Settled(w)' /\ Whole(w)'
      BY <2>2, WholeKept DEF statsVars, nodeVars, workerVars, WholeInv, StillThere, Of
    <3>2. QED BY <2>2, <3>1 DEF statsVars, nodeVars, workerVars, WholeInv
  <2>3. QED
    BY <2>1, <2>2, StatsSteps, StatsTypesStep, StatsRestKept, NetworksNode, NetworksRequest,
       WholeNode, WholeRequest DEF StatsNext
<1>3. Inv => AnswerIsWhole
  BY DEF WholeInv, Whole, AnswerIsWhole, Supported, IsWhole
<1>4. QED BY <1>1, <1>2, <1>3, PTL DEF Spec
=============================================================================
