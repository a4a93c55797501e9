------------------------------ MODULE DiskRates ------------------------------
(***************************************************************************)
(* The node helper's requests about the node's disks (getDiskUsage in      *)
(* handler.go, DiskLinux.go).  A request goes through the mounts, of the   *)
(* node's init process or of a cache that the first request fills while it *)
(* reads, and then through the disks' counters, which it compares with the *)
(* ones another request saved.  Neither the cache nor the three steps of   *)
(* loading, computing and saving hold a lock.                              *)
(*                                                                         *)
(* Sizes and rates are left out (the ones that are no numbers become 0): an*)
(* answer is which mounts it is about.  /proc/1/mountinfo is read in one   *)
(* go when it is opened.  The cache is a slice: append reads it, and the   *)
(* assignment stores what append made of it.                               *)
(***************************************************************************)
EXTENDS Naturals, Sequences, FiniteSets, SequencesExt

CONSTANTS Askers,          \* the goroutines that serve these requests
          FirstMounts,     \* the mounts in the order of the file: [id, parent,
                           \*  device, point, nfs, sized, disk |-> in diskstats]
          LaterMounts,     \* that may be mounted later
          SteadyMount,     \* one that is there throughout
          MaxAsked,        \* bound: MaxAsked[a], the requests of an asker
          MaxDiskEvents    \* bound: the mounts that come and go, the calls that
                           \*  fail and the reloads, all together

ASSUME DiskAssumption ==
    /\ FirstMounts \in Seq(Range(FirstMounts))
    /\ \E i \in DOMAIN FirstMounts : \A j \in DOMAIN FirstMounts :
          FirstMounts[j] = SteadyMount <=> j = i
    /\ SteadyMount.sized /\ ~SteadyMount.nfs
    /\ \A p \in Range(FirstMounts) \cup LaterMounts :    \* no mount hides it
          ~(p.id = SteadyMount.parent /\ p.point = SteadyMount.point)
    /\ MaxAsked \in [Askers -> Nat] /\ MaxDiskEvents \in Nat

VARIABLES mounts,
          events,         \* how many of these there were
          nfsEnabled,     \* conf.CollectNfsDiskEnabled
          useCached,      \* conf.UseCachedMountPointEnabled
          initialMountPointsCache,
          diskCache,      \* cacheMap[".../proc/diskstats"]: the devices in it
          dpc, asked,
          fromCache,      \* the request goes through the cache
          todoMounts,     \* the lines it has yet to go through
          base,           \* the slice its append started from
          deviceFilter,   \* the mounts it has entered there
          diskPerfList,   \* the mounts it will answer for
          diskIoMap2,     \* the devices in the sample it compares with
          answer,         \* the mounts in its answer, with the places they had
                          \*  in the list, or how it failed
          file,           \* the lines the cache is to hold
          disturbed       \* the properties do not ask for what follows
diskVars == <<mounts, events, nfsEnabled, useCached,
              initialMountPointsCache, diskCache, dpc, asked, fromCache, todoMounts,
              base, deviceFilter, diskPerfList, diskIoMap2, answer, file, disturbed>>
nodeVars2 == <<mounts, nfsEnabled, useCached>>

NotSaved == {"not saved"}
Failed   == << [id |-> 0] >>
AllMounts == Range(FirstMounts) \cup LaterMounts
Devices   == {m.device : m \in AllMounts}

DiskTypeOK ==
    /\ Range(mounts) \subseteq AllMounts /\ events \in 0..MaxDiskEvents
    /\ {nfsEnabled, useCached, disturbed} \subseteq BOOLEAN
    /\ Range(initialMountPointsCache) \cup Range(file) \subseteq AllMounts
    /\ diskCache \subseteq Devices \/ diskCache = NotSaved
    /\ \A a \in Askers :
         /\ dpc[a] \in {"idle", "lines", "append", "stats"} /\ asked[a] \in 0..MaxAsked[a]
         /\ fromCache[a] \in BOOLEAN /\ Range(todoMounts[a]) \subseteq AllMounts
         /\ Range(base[a]) \cup deviceFilter[a] \subseteq AllMounts
         /\ Range(diskPerfList[a]) \subseteq AllMounts
         /\ diskIoMap2[a] \subseteq Devices \/ diskIoMap2[a] = NotSaved
         /\ answer[a] = Failed \/ Range(answer[a]) \subseteq AllMounts

DiskStart(n, nfs, cached) ==
    /\ mounts = FirstMounts /\ events = 0
    /\ nfsEnabled = nfs /\ useCached = cached
    /\ initialMountPointsCache = <<>> /\ diskCache = NotSaved
    /\ dpc = [a \in Askers |-> "idle"] /\ asked = n
    /\ fromCache = [a \in Askers |-> FALSE] /\ todoMounts = [a \in Askers |-> <<>>]
    /\ base = [a \in Askers |-> <<>>] /\ deviceFilter = [a \in Askers |-> {}]
    /\ diskPerfList = [a \in Askers |-> <<>>]
    /\ diskIoMap2 = [a \in Askers |-> NotSaved] /\ answer = [a \in Askers |-> <<>>]
    /\ file = <<>> /\ disturbed = FALSE

Reading(a) == dpc[a] \in {"lines", "append"} /\ ~fromCache[a]

-----------------------------------------------------------------------------
(* The node.                                                               *)

Event == events < MaxDiskEvents /\ events' = events + 1
WorldStep == UNCHANGED <<initialMountPointsCache, diskCache, dpc, asked, fromCache,
                         todoMounts, base, deviceFilter, diskPerfList,
                         diskIoMap2, answer, file>>

Mount(m) ==
    /\ Event
    /\ m \in LaterMounts \ Range(mounts) /\ mounts' = Append(mounts, m)
    /\ WorldStep /\ UNCHANGED <<nfsEnabled, useCached, disturbed>>

Unmount(m) ==
    /\ Event
    /\ m # SteadyMount
    /\ \E i \in DOMAIN mounts : mounts[i] = m /\ mounts' = RemoveAt(mounts, i)
    /\ WorldStep /\ UNCHANGED <<nfsEnabled, useCached, disturbed>>

(* Both settings are read at every line: one that changes while a request  *)
(* reads the file leaves a part of it in the cache, for good.              *)
DiskReload ==
    /\ Event
    /\ nfsEnabled' \in BOOLEAN /\ useCached' \in BOOLEAN
    /\ disturbed' = (disturbed \/ \E a \in Askers : Reading(a))
    /\ WorldStep /\ UNCHANGED mounts

-----------------------------------------------------------------------------
(* populateFileValues and the callback of getDiskUsage.                    *)

Place(a, place) == dpc' = [dpc EXCEPT ![a] = place]
Answers(a, with) == Place(a, "idle") /\ answer' = [answer EXCEPT ![a] = with]

(* The cache when it is on and not empty, which it is from the first line  *)
(* on that somebody else enters; else the file.                            *)
Ask(a) ==
    /\ dpc[a] = "idle" /\ asked[a] < MaxAsked[a] /\ asked' = [asked EXCEPT ![a] = @ + 1]
    /\ \/ /\ LET cached == useCached /\ initialMountPointsCache # <<>> IN
             /\ fromCache' = [fromCache EXCEPT ![a] = cached]
             /\ todoMounts' = [todoMounts EXCEPT
                                 ![a] = IF cached THEN initialMountPointsCache ELSE mounts]
             /\ file' = IF useCached /\ ~cached THEN mounts ELSE file
             /\ disturbed' = (disturbed \/ (useCached /\ \E b \in Askers : Reading(b)))
          /\ Place(a, "lines") /\ answer' = [answer EXCEPT ![a] = <<>>]
          /\ UNCHANGED events
       \/ /\ Event /\ Answers(a, Failed)
          /\ UNCHANGED <<fromCache, todoMounts, file, disturbed>>
    /\ UNCHANGED <<nodeVars2, initialMountPointsCache, diskCache, base, deviceFilter>>
    /\ diskPerfList' = [diskPerfList EXCEPT ![a] = <<>>] /\ UNCHANGED diskIoMap2

(* A mount over its parent's mount point is one the parent hides.          *)
Hidden(a, m) == \E p \in deviceFilter[a] : p.id = m.parent /\ p.point = m.point
Filtered(m)  == m.nfs /\ ~nfsEnabled

(* One line: entered in the filter, and answered for if statfs tells its   *)
(* size.  A line of the file goes to the cache whatever the callback did.  *)
Line_CachesAnswered(a) ==
    /\ dpc[a] = "lines" /\ todoMounts[a] # <<>>
    /\ LET m == Head(todoMounts[a])
           kept == ~Filtered(m) /\ ~Hidden(a, m) /\ m.sized
       IN  /\ deviceFilter' = [deviceFilter EXCEPT
                                 ![a] = IF Filtered(m) THEN @ ELSE @ \cup {m}]
           /\ diskPerfList' = [diskPerfList EXCEPT ![a] = IF kept THEN Append(@, m) ELSE @]
           /\ UNCHANGED <<events, disturbed>>
           /\ IF useCached /\ ~fromCache[a] /\ kept
                THEN /\ base' = [base EXCEPT ![a] = initialMountPointsCache]
                     /\ Place(a, "append") /\ UNCHANGED todoMounts
                ELSE /\ todoMounts' = [todoMounts EXCEPT ![a] = Tail(@)]
                     /\ UNCHANGED <<base, dpc>>
    /\ UNCHANGED <<nodeVars2, initialMountPointsCache, diskCache, asked, fromCache>>
    /\ UNCHANGED <<diskIoMap2, answer, file>>

Line(a) ==
    /\ dpc[a] = "lines" /\ todoMounts[a] # <<>>
    /\ LET m == Head(todoMounts[a])
           asks == ~Filtered(m) /\ ~Hidden(a, m)
       IN  /\ deviceFilter' = [deviceFilter EXCEPT
                                 ![a] = IF Filtered(m) THEN @ ELSE @ \cup {m}]
           /\ \/ /\ diskPerfList' = [diskPerfList EXCEPT
                                       ![a] = IF asks /\ m.sized THEN Append(@, m) ELSE @]
                 /\ UNCHANGED <<events, disturbed>>
              \/ asks /\ Event /\ disturbed' = TRUE /\ UNCHANGED diskPerfList
    /\ IF useCached /\ ~fromCache[a]
         THEN /\ base' = [base EXCEPT ![a] = initialMountPointsCache]
              /\ Place(a, "append") /\ UNCHANGED todoMounts
         ELSE /\ todoMounts' = [todoMounts EXCEPT ![a] = Tail(@)]
              /\ UNCHANGED <<base, dpc>>
    /\ UNCHANGED <<nodeVars2, initialMountPointsCache, diskCache, asked, fromCache>>
    /\ UNCHANGED <<diskIoMap2, answer, file>>

EnterInCache(a) ==
    /\ dpc[a] = "append" /\ Place(a, "lines")
    /\ initialMountPointsCache' = Append(base[a], Head(todoMounts[a]))
    /\ todoMounts' = [todoMounts EXCEPT ![a] = Tail(@)]
    /\ base' = [base EXCEPT ![a] = <<>>]
    /\ UNCHANGED <<nodeVars2, events, diskCache, asked, fromCache, deviceFilter>>
    /\ UNCHANGED <<diskPerfList, diskIoMap2, answer, file, disturbed>>

-----------------------------------------------------------------------------
(* ParseNativeDiskIO.                                                      *)

(* Opens the counters, or fails, and loads the last sample.                *)
LoadSample_SavesAtOnce(a) ==
    /\ dpc[a] = "lines" /\ todoMounts[a] = <<>> /\ Place(a, "stats")
    /\ diskIoMap2' = [diskIoMap2 EXCEPT ![a] = diskCache] /\ diskCache' = {}
    /\ UNCHANGED <<nodeVars2, events, initialMountPointsCache, asked>>
    /\ UNCHANGED <<fromCache, todoMounts, base, deviceFilter, diskPerfList, answer>>
    /\ UNCHANGED <<file, disturbed>>

LoadSample(a) ==
    /\ dpc[a] = "lines" /\ todoMounts[a] = <<>>
    /\ \/ /\ diskIoMap2' = [diskIoMap2 EXCEPT ![a] = diskCache]
          /\ Place(a, "stats") /\ UNCHANGED <<events, answer>>
       \/ Event /\ Answers(a, Failed) /\ UNCHANGED diskIoMap2
    /\ fromCache' = [fromCache EXCEPT ![a] = FALSE]
    /\ deviceFilter' = [deviceFilter EXCEPT ![a] = {}]
    /\ UNCHANGED <<nodeVars2, initialMountPointsCache, diskCache, asked>>
    /\ UNCHANGED <<todoMounts, base, diskPerfList, file, disturbed>>

(* Saves the counters of the disks it goes through, and of no other.  A    *)
(* mount of a disk is answered for if the sample before had that disk, a   *)
(* mount of no disk in any case.                                           *)
SaveSample(a) ==
    /\ dpc[a] = "stats"
    /\ diskCache' = {m.device : m \in {n \in Range(diskPerfList[a]) : n.disk}}
    /\ LET Told(m) == ~m.disk \/ m.device \in diskIoMap2[a] IN
       Answers(a, RestrictValues(diskPerfList[a], Told))
    /\ diskPerfList' = [diskPerfList EXCEPT ![a] = <<>>]
    /\ UNCHANGED <<nodeVars2, events, initialMountPointsCache, asked>>
    /\ UNCHANGED <<fromCache, todoMounts, base, deviceFilter>>
    /\ UNCHANGED <<diskIoMap2, file, disturbed>>

DiskNext ==
    \/ (\E m \in AllMounts : Mount(m) \/ Unmount(m)) \/ DiskReload
    \/ \E a \in Askers : \/ Ask(a) \/ Line(a) \/ EnterInCache(a)
                         \/ LoadSample(a) \/ SaveSample(a)

-----------------------------------------------------------------------------

(* A mount that stays is in every answer, and once, but in those of the    *)
(* first requests, which find no sample: other requests that load, compute *)
(* and save in between, mounts that come and go and the cache do not lose  *)
(* or double it.  (Excepted from then on: statfs failed, so that this and  *)
(* the next answer lack a mount; a request was asked, or the cache's       *)
(* setting changed, while one read the file and the cache was on.)         *)
DiskIsAnswered ==
    disturbed \/ \A a \in Askers :
        (dpc[a] = "idle" /\ asked[a] > 0 /\ answer[a] # Failed /\ diskIoMap2[a] # NotSaved) =>
            Cardinality({i \in DOMAIN answer[a] : answer[a][i] = SteadyMount}) = 1

(* The cache of mounts is the file that was read, line by line and in its  *)
(* order, so that a mount that is filtered today is there when the filter  *)
(* changes, and a hidden one finds the parent that hides it.               *)
CacheIsTheFile ==
    \/ disturbed \/ initialMountPointsCache = <<>> \/ initialMountPointsCache = file
    \/ \E a \in Askers : Reading(a)
=============================================================================
