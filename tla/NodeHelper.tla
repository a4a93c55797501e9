----------------------------- MODULE NodeHelper -----------------------------
(***************************************************************************)
(* The node helper's HTTP server: the requests about containers, about the *)
(* processes and their number, and about the disks (the routes of          *)
(* cadvisor/run.go).  They share no state but the configuration, so that  *)
(* requests of one family run side by side in each behaviour and the other *)
(* families' are left at their start.                                      *)
(***************************************************************************)
EXTENDS ContainerStats, ProcessRates, DiskRates

CONSTANT AtStart  \* AtStart[f]: the processes that run from the start for family f

(* Finitely many processes run, no two of a procfs with one PID; and one   *)
(* change is left to the requests for rates.                               *)
ASSUME HelperAssumption ==
    /\ MaxChanges > 0
    /\ \A f \in {"perf", "count"} :
         /\ AtStart[f] \subseteq Procs /\ IsFiniteSet(AtStart[f])
         /\ \A p, q \in AtStart[f] \cup {Steady} :
               (p.pid = q.pid /\ p.ns = q.ns) => p = q

VARIABLE family
helperVars == <<family, statsVars, procVars, diskVars>>

Families == {"container", "perf", "count", "disk"}
SomeNode == CHOOSE n \in Nodes : TRUE
IdleStats == StatsStart(SomeNode)
IdleProc  == ProcStart(MaxScans, {}, MaxChanges)
IdleDisk  == DiskStart(MaxAsked, FALSE, FALSE)
AtFirst(kindServed) == [s \in Scanners |-> IF kindServed \in Serves[s] THEN 0 ELSE MaxScans[s]]

Init ==
    \/ family = "container" /\ StatsInit /\ IdleProc /\ IdleDisk
    \/ family = "perf"  /\ IdleStats /\ IdleDisk
                        /\ ProcStart(AtFirst("perf"), AtStart["perf"], MaxChanges - 1)
    \/ family = "count" /\ IdleStats /\ IdleDisk
                        /\ ProcStart(AtFirst("count"), AtStart["count"], 0)
    \/ family = "disk"  /\ IdleStats /\ IdleProc
                        /\ \E nfs, on \in BOOLEAN :
                              DiskStart([a \in Askers |-> 0], nfs, on)

Next ==
    \/ family = "container" /\ StatsNext /\ UNCHANGED <<family, procVars, diskVars>>
    \/ family = "perf"  /\ ProcNext /\ UNCHANGED <<family, statsVars, diskVars>>
    \/ family = "count" /\ ProcNext /\ UNCHANGED <<family, clock, statsVars, diskVars>>
    \/ family = "disk" /\ DiskNext /\ UNCHANGED <<family, statsVars, procVars>>

Spec == Init /\ [][Next]_helperVars

TypeOK == family \in Families /\ StatsTypeOK /\ ProcTypeOK /\ DiskTypeOK
=============================================================================
