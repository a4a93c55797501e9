---------------------------- MODULE ProcessRates ----------------------------
(***************************************************************************)
(* The node helper's requests about the node's processes: their CPU rates  *)
(* (ProcessLinux.go, RateCounterCache.go, process_status.go), which compare*)
(* a measurement with the one saved by an earlier request, and their       *)
(* number by name (processcount/count.go), which must be that of one       *)
(* procfs.  Requests run side by side, and load, measure and save without  *)
(* a lock around the three; processes come and go during a scan, a PID     *)
(* goes to another process, and the procfs under the host's prefix may be  *)
(* replaced.                                                               *)
(*                                                                         *)
(* Time is the total CPU time in /proc/stat.  A sample is when it was      *)
(* taken and which processes it holds: of each, what status said it is     *)
(* (named), whose stat and cmdline were read (proc), and whether they were *)
(* read at all (whole).  Memory, input and output and ports, of which no   *)
(* decision depends, are left out.                                         *)
(***************************************************************************)
EXTENDS Naturals, FiniteSets

CONSTANTS Scanners,   \* the goroutines that serve these requests
          Serves,     \* Serves[s]: the requests of s, of "perf" and "count"
          Procs,      \* [pid, name, cmd, ns, kernel]: every process there may be
          Targets,    \* the names that are asked for
          Steady,     \* a process that never ends
          MaxClock,   \* bound: the ticks that pass
          MaxScans,   \* bound: MaxScans[s], the requests of a scanner
          MaxChanges, \* bound: the processes that start or end
          MaxBroken   \* bound: the readings that fail

ASSUME ProcessAssumption ==
    /\ Steady \in Procs /\ Steady.name \in Targets /\ Steady.ns = 0 /\ ~Steady.kernel
    /\ \A p \in Procs : p.pid \in Nat \ {0, 2} /\ p.ns \in {0, 1} /\ p.kernel \in BOOLEAN
    /\ MaxClock \in Nat /\ MaxScans \in [Scanners -> Nat] /\ MaxChanges \in Nat
    /\ MaxBroken \in Nat

VARIABLES clock, alive, gone,
          root, ns,   \* the inode of the procfs' root, and which one it is
          changes,    \* the processes that started or ended
          broken,     \* the readings that failed
          cache,      \* cacheMap["/tmp/whatap_agent_wps"]
          spc,        \* where a scanner is
          kind,       \* what it serves
          scans,
          old, new,   \* the samples it compares
          second,     \* it measures for the second time
          todo, cur,  \* the PIDs it has yet to read, the process it reads
          seen,       \* the processes it counted
          firstRoot,
          outcome,    \* how its request ended
          covered,    \* the ticks an answer accounts for, of Steady
          excused,    \* NoTickLost does not ask for what follows
          during, ever, swapped \* of a count: alive throughout, at any time,
                                \*  and whether the procfs was replaced
worldVars == <<clock, alive, gone, root, ns, changes, broken>>
scanVars  == <<spc, kind, scans, old, new, second, todo, cur, seen, firstRoot, outcome>>
noteVars  == <<covered, excused, during, ever, swapped>>
procVars  == <<worldVars, cache, scanVars, noteVars>>

NoSample == [at |-> MaxClock + 1, of |-> {}]
Visible  == {p \in alive : p.ns = ns}
InPid(n) == {p \in Visible : p.pid = n}
MinPid(S) == CHOOSE n \in S : \A m \in S : n <= m
Counted(S) == {p \in S : p.name \in Targets /\ ~p.kernel}

ProcTypeOK ==
    /\ clock \in 0..MaxClock /\ alive \subseteq Procs /\ gone \subseteq Procs
    /\ root \in Nat /\ ns \in {0, 1}
    /\ changes \in 0..MaxChanges /\ broken \in 0..MaxBroken
    /\ cache.at \in 0..(MaxClock + 1) /\ covered \subseteq 0..MaxClock
    /\ \A s \in Scanners :
         /\ spc[s] \in {"idle", "total", "scan", "stat", "save",
                        "countDir", "count", "rootAgain"}
         /\ old[s].at \in 0..(MaxClock + 1) /\ new[s].at \in 0..(MaxClock + 1)
         /\ \A e \in new[s].of : e.named \in Procs /\ e.proc \in Procs /\ e.whole \in BOOLEAN
         /\ outcome[s] \in {"none", "200", "500", "503", "aborted"}

(* Scanner s has served n[s] requests, the processes of there run, and     *)
(* some of the changes are used up.                                        *)
ProcStart(n, there, some) ==
    /\ clock = 0 /\ alive = there \cup {Steady} /\ gone = {} /\ changes = some
    /\ root = 0 /\ ns = 0 /\ broken = 0
    /\ cache = NoSample
    /\ spc = [s \in Scanners |-> "idle"] /\ kind = [s \in Scanners |-> "perf"]
    /\ scans = n /\ old = [s \in Scanners |-> NoSample]
    /\ new = [s \in Scanners |-> NoSample] /\ second = [s \in Scanners |-> FALSE]
    /\ todo = [s \in Scanners |-> {}] /\ cur = [s \in Scanners |-> Steady]
    /\ seen = [s \in Scanners |-> {}] /\ firstRoot = [s \in Scanners |-> 0]
    /\ outcome = [s \in Scanners |-> "none"]
    /\ covered = {} /\ excused = FALSE
    /\ during = [s \in Scanners |-> {}] /\ ever = [s \in Scanners |-> {}]
    /\ swapped = [s \in Scanners |-> FALSE]

-----------------------------------------------------------------------------
(* The node.  A count under way notes who was there.                       *)

Counts(s) == spc[s] \in {"countDir", "count", "rootAgain"}
Noted ==
    /\ during' = [s \in Scanners |-> IF Counts(s) THEN during[s] \cap Visible' ELSE during[s]]
    /\ ever' = [s \in Scanners |-> IF Counts(s) THEN ever[s] \cup Visible' ELSE ever[s]]

Ticks == /\ clock < MaxClock /\ clock' = clock + 1
         /\ UNCHANGED <<alive, gone, root, ns, changes, broken, cache, scanVars, noteVars>>

ProcessStarts(p) ==
    /\ changes < MaxChanges /\ changes' = changes + 1
    /\ p \notin alive \cup gone
    /\ \A q \in alive : q.pid # p.pid \/ q.ns # p.ns
    /\ alive' = alive \cup {p}
    /\ UNCHANGED <<clock, gone, root, ns, broken, cache, scanVars, covered, excused, swapped>>
    /\ Noted

ProcessEnds(p) ==
    /\ changes < MaxChanges /\ changes' = changes + 1
    /\ p \in alive /\ p # Steady
    /\ alive' = alive \ {p} /\ gone' = gone \cup {p}
    /\ UNCHANGED <<clock, root, ns, broken, cache, scanVars, covered, excused, swapped>>
    /\ Noted

(* Another procfs is mounted there, with processes of its own: during a    *)
(* count, the only time at which the code would notice.                    *)
ProcReplaced ==
    /\ \E s \in Scanners : Counts(s)
    /\ root = 0 /\ root' = root + 1 /\ ns' = 1 - ns
    /\ swapped' = [s \in Scanners |-> swapped[s] \/ Counts(s)] /\ excused' = TRUE
    /\ UNCHANGED <<clock, alive, gone, changes, broken, cache, scanVars, covered>>
    /\ Noted

-----------------------------------------------------------------------------
(* GetProcessPerfList.                                                     *)

Go(s, place) == spc' = [spc EXCEPT ![s] = place]
Breaks == broken < MaxBroken /\ broken' = broken + 1
Calm   == UNCHANGED <<clock, alive, gone, root, ns, changes>>
End(s, how) == Go(s, "idle") /\ outcome' = [outcome EXCEPT ![s] = how]

Starts(s, k) ==
    /\ spc[s] = "idle" /\ scans[s] < MaxScans[s] /\ k \in Serves[s]
    /\ scans' = [scans EXCEPT ![s] = @ + 1] /\ kind' = [kind EXCEPT ![s] = k]
    /\ outcome' = [outcome EXCEPT ![s] = "none"]
    /\ seen' = [seen EXCEPT ![s] = {}] /\ second' = [second EXCEPT ![s] = FALSE]

(* load: the sample of whichever request saved last.                       *)
Load(s) ==
    /\ Starts(s, "perf") /\ Go(s, "total")
    /\ old' = [old EXCEPT ![s] = cache] /\ new' = [new EXCEPT ![s] = NoSample]
    /\ UNCHANGED <<worldVars, cache, todo, cur, firstRoot, noteVars>>

(* /proc/uptime, the total of /proc/stat, and the directory, which may be  *)
(* read a little later: the scan below finds out who is gone.  Without the *)
(* uptime the measurement is nil, and saving it panics; without the others *)
(* it is empty, and saved.                                                 *)
ReadTotal_SavesAtOnce(s) ==
    /\ spc[s] = "total" /\ Go(s, "scan")
    /\ new' = [new EXCEPT ![s] = [at |-> clock, of |-> {}]]
    /\ cache' = [at |-> clock, of |-> {}]
    /\ todo' = [todo EXCEPT ![s] = {p.pid : p \in Visible}]
    /\ UNCHANGED <<worldVars, kind, scans, old, second, cur, seen, firstRoot>>
    /\ UNCHANGED <<outcome, noteVars>>

ReadTotal(s) ==
    /\ spc[s] = "total" /\ UNCHANGED cache /\ Calm
    /\ UNCHANGED <<kind, scans, old, second, cur, seen, firstRoot>>
    /\ UNCHANGED <<covered, during, ever, swapped>>
    /\ \/ /\ new' = [new EXCEPT ![s] = [at |-> clock, of |-> {}]] /\ Go(s, "scan")
          /\ todo' = [todo EXCEPT ![s] = {p.pid : p \in Visible}]
          /\ UNCHANGED <<broken, outcome, excused>>
       \/ /\ Breaks /\ excused' = TRUE /\ UNCHANGED todo
          /\ \/ End(s, "aborted") /\ UNCHANGED new
             \/ /\ new' = [new EXCEPT ![s] = [at |-> clock, of |-> {}]]
                /\ Go(s, "save") /\ UNCHANGED outcome

(* status: a process that is gone, not asked for, or a kernel thread is    *)
(* passed over.                                                            *)
ReadProcessStatus(s) ==
    /\ spc[s] = "scan" /\ todo[s] # {}
    /\ LET n == MinPid(todo[s])
           found == Counted(InPid(n))
       IN  IF found = {}
             THEN todo' = [todo EXCEPT ![s] = @ \ {n}] /\ UNCHANGED <<spc, cur>>
             ELSE /\ cur' = [cur EXCEPT ![s] = CHOOSE p \in found : TRUE]
                  /\ Go(s, "stat") /\ UNCHANGED todo
    /\ UNCHANGED <<worldVars, cache, kind, scans, old, new, second, seen>>
    /\ UNCHANGED <<firstRoot, outcome, noteVars>>

(* stat and cmdline: of whoever has the PID by now, or of nobody; the      *)
(* process is entered in any case, without CPU time, commands and age.     *)
ReadStat(s) ==
    /\ spc[s] = "stat"
    /\ LET now == InPid(cur[s].pid)
           e == [named |-> cur[s], whole |-> now # {},
                 proc |-> IF now = {} THEN cur[s] ELSE CHOOSE p \in now : TRUE]
       IN  new' = [new EXCEPT ![s].of = @ \cup {e}]
    /\ todo' = [todo EXCEPT ![s] = @ \ {cur[s].pid}] /\ Go(s, "scan")
    /\ cur' = [cur EXCEPT ![s] = Steady]
    /\ UNCHANGED <<worldVars, cache, kind, scans, old, second, seen>>
    /\ UNCHANGED <<firstRoot, outcome, noteVars>>

(* getProcessPerfList: two entries of a PID are taken for one process when *)
(* their times of creation or both their commands are the same.  (No two   *)
(* processes have a PID within the second; what was not read is 0 and "".  *)
(* The time is a difference of readings and may be a second off for the    *)
(* same process: its commands then decide, which do not change here.)      *)
Created(e)  == IF e.whole THEN <<e.proc>> ELSE <<>>
Command(e)  == IF e.whole THEN e.proc.cmd ELSE ""
SameProcess(e, f) ==
    /\ e.named.pid = f.named.pid
    /\ \/ Created(e) = Created(f)
       \/ e.named.name = f.named.name /\ Command(e) = Command(f)
Compared(before, after) ==
    {f \in after.of : \E e \in before.of : SameProcess(e, f)}

(* A difference of the totals that is zero makes a rate that JSON cannot   *)
(* express: 500.                                                           *)
Answer(s, before, after) ==
    LET rates == Compared(before, after)
        ok    == rates = {} \/ after.at # before.at
    IN  /\ End(s, IF ok THEN "200" ELSE "500")
        /\ covered' = IF ok /\ \E f \in rates : f.proc = Steady
                        THEN covered \cup before.at..(after.at - 1) ELSE covered

(* save, and compare.  With nothing to compare the request waits a second  *)
(* and measures again, against its own first sample, which is not replaced.*)
(* (The first requests, side by side, each save a first sample.)           *)
SaveAndCompare(s) ==
    /\ spc[s] = "save" \/ (spc[s] = "scan" /\ todo[s] = {})
    /\ cache' = IF second[s] THEN cache ELSE new[s]
    /\ excused' = (excused \/ (~second[s] /\ old[s] = NoSample /\ cache # NoSample))
    /\ new' = [new EXCEPT ![s] = NoSample]
    /\ IF second[s] \/ Compared(old[s], new[s]) # {}
         THEN /\ Answer(s, old[s], new[s]) /\ UNCHANGED second
              /\ old' = [old EXCEPT ![s] = NoSample]
         ELSE /\ Go(s, "total") /\ old' = [old EXCEPT ![s] = new[s]]
              /\ second' = [second EXCEPT ![s] = TRUE] /\ UNCHANGED <<outcome, covered>>
    /\ UNCHANGED <<worldVars, kind, scans, todo, cur, seen, firstRoot>>
    /\ UNCHANGED <<during, ever, swapped>>

-----------------------------------------------------------------------------
(* Collect: the root, the directory, every status, and the root again.     *)

CountStarts(s) ==
    /\ Starts(s, "count") /\ Go(s, "countDir")
    /\ firstRoot' = [firstRoot EXCEPT ![s] = root]
    /\ during' = [during EXCEPT ![s] = Visible] /\ ever' = [ever EXCEPT ![s] = Visible]
    /\ swapped' = [swapped EXCEPT ![s] = FALSE]
    /\ UNCHANGED <<worldVars, cache, old, new, todo, cur, covered, excused>>

CountDir(s) ==
    /\ spc[s] = "countDir" /\ todo' = [todo EXCEPT ![s] = {p.pid : p \in Visible}]
    /\ Go(s, "count")
    /\ UNCHANGED <<worldVars, cache, kind, scans, old, new, second, cur, seen>>
    /\ UNCHANGED <<firstRoot, outcome, noteVars>>

(* A status that is gone is passed over; any other failure ends the count. *)
CountStatus(s) ==
    /\ spc[s] = "count" /\ UNCHANGED <<cache, noteVars>> /\ Calm
    /\ UNCHANGED <<kind, scans, old, new, second, cur, firstRoot>>
    /\ \/ /\ todo[s] # {} /\ todo' = [todo EXCEPT ![s] = @ \ {MinPid(todo[s])}]
          /\ seen' = [seen EXCEPT ![s] = @ \cup Counted(InPid(MinPid(todo[s])))]
          /\ UNCHANGED <<broken, spc, outcome>>
       \/ /\ todo[s] # {} /\ Breaks /\ End(s, "503") /\ UNCHANGED <<todo, seen>>
       \/ /\ todo[s] = {} /\ Go(s, "rootAgain") /\ UNCHANGED <<broken, todo, seen, outcome>>

RootAgain_Any(s) ==
    /\ spc[s] = "rootAgain" /\ End(s, "200")
    /\ UNCHANGED <<worldVars, cache, kind, scans, old, new, second, todo, cur, seen>>
    /\ UNCHANGED <<firstRoot, noteVars>>

RootAgain(s) ==
    /\ spc[s] = "rootAgain" /\ End(s, IF root = firstRoot[s] THEN "200" ELSE "503")
    /\ UNCHANGED <<worldVars, cache, kind, scans, old, new, second, todo, cur, seen>>
    /\ UNCHANGED <<firstRoot, noteVars>>

ProcNext ==
    \/ Ticks \/ ProcReplaced \/ \E p \in Procs : ProcessStarts(p) \/ ProcessEnds(p)
    \/ \E s \in Scanners :
         \/ Load(s) \/ ReadTotal(s) \/ ReadProcessStatus(s)
         \/ ReadStat(s) \/ SaveAndCompare(s)
         \/ CountStarts(s) \/ CountDir(s) \/ CountStatus(s) \/ RootAgain(s)

-----------------------------------------------------------------------------

(* The CPU time a process used since it was first answered for is in some  *)
(* answer, up to the sample that is saved: whatever requests loaded,       *)
(* measured and saved side by side, the intervals they answer for leave no *)
(* tick out (they may overlap), unless a measurement failed, the procfs was*)
(* replaced, or the node's first requests overlapped: the later of them    *)
(* then replaces a sample it did not answer for.                           *)
NoTickLost ==
    excused \/ \A t \in 0..MaxClock :
                (t < cache.at /\ cache # NoSample /\ \E u \in covered : u < t)
                    => t \in covered

(* A number that is answered is not more than the processes of that name   *)
(* that were there at some time of the scan, not less than those that were *)
(* there throughout, and all of one procfs, though processes end, start    *)
(* and take over PIDs during the scan and the procfs is replaced.          *)
CountsBracketed ==
    \A s \in Scanners :
      (kind[s] = "count" /\ outcome[s] = "200") =>
        LET among(S) == Cardinality(Counted(S)) IN
        /\ ~swapped[s]
        /\ among(seen[s]) <= among(ever[s]) /\ among(during[s]) <= among(seen[s])
        /\ seen[s] \subseteq ever[s]
=============================================================================
