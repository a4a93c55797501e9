---------------------------- MODULE MCNodeHelper ----------------------------
(* Small instances: five kinds of nodes, three processes that a count may  *)
(* meet under two PIDs, and a mount that hides another.                    *)
EXTENDS NodeHelper

CONSTANTS w1, w2, c1, c2, s1, s2, s3, a1, a2

V1 == {"cpu.stat", "cpuacct.stat", "memory.max_usage_in_bytes", "memory.usage_in_bytes",
       "memory.failcnt", "memory.stat", "blkio.throttle.recursive", "blkio.throttle"}
V2 == {"cpu.stat", "memory.current", "memory.peak", "memory.events", "memory.stat", "io.stat"}
Node(r, m, f, v) == [runtime |-> r, mode |-> m, files |-> f, version |-> v]
MCNodes == {Node("docker", "legacy", V1, ""),
            Node("docker", "unified", V2 \cup {"pressure"}, ""),
            Node("containerd", "hybrid", V1 \cup {"blkio.recursive"}, "legacy"),
            Node("crio", "unified", V2, ""), Node("podman", "unified", V2, "")}
MCReloads  == [n \in MCNodes |-> CASE n.runtime = "containerd" -> 1 [] n.runtime = "crio" -> 2 [] OTHER -> 0]
MCRequests == (w1 :> [kind : {"stats"}, of : {c1}]) @@
              (w2 :> [kind : {"stats"}, of : {c2}] \cup
                     [kind : {"inspect", "volume", "netstat", "log", "all"}, of : {c1}])

Process(n, cmd, namespace, k) ==
    [pid |-> n, name |-> "java", cmd |-> cmd, ns |-> namespace, kernel |-> k]
MCSteady  == Process(1, "a", 0, FALSE)
MCCounted == {Process(3, "b", 0, FALSE), Process(4, "", 0, TRUE), Process(1, "c", 1, FALSE)}
MCProcs   == {MCSteady, Process(3, "", 0, FALSE)} \cup MCCounted
MCAtStart == [perf |-> {Process(3, "", 0, FALSE)}, count |-> MCCounted]
MCServes  == (s1 :> {"perf"}) @@ (s2 :> {"perf"}) @@ (s3 :> {"count"})
MCScans   == (s1 :> 2) @@ (s2 :> 1) @@ (s3 :> 1)

Mounted(i, p, d, place, n, s, k) ==
    [id |-> i, parent |-> p, device |-> d, point |-> place, nfs |-> n, sized |-> s, disk |-> k]
MCData  == Mounted(3, 1, "8:1", "/data", FALSE, TRUE, TRUE)
MCFirst == << Mounted(1, 0, "8:0", "/", FALSE, TRUE, TRUE),
              Mounted(2, 1, "8:0", "/", FALSE, TRUE, TRUE), MCData >>
MCLater == {Mounted(4, 1, "0:9", "/nfs", TRUE, TRUE, FALSE),
            Mounted(5, 1, "0:4", "/proc", FALSE, FALSE, FALSE)}
MCAsked == (a1 :> 2) @@ (a2 :> 1)
=============================================================================
