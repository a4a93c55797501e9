----------------------------- MODULE Rates_proofs -----------------------------
(***************************************************************************)
(* Theorems about the requests for disks and for the node's processes, as  *)
(* NodeHelper serves them.                                                 *)
(*                                                                         *)
(* Disks, for any number of requests, mounts and events: the cache of      *)
(* mounts is the file that was read (CacheIsTheFile), and a mount that     *)
(* stays is in every answer, once (DiskIsAnswered).  While a request reads *)
(* the file and the cache is on, it is the only one that does, and what    *)
(* the cache has, followed by what it has yet to read, is the file; when   *)
(* nobody reads, the cache is empty or the whole file.                     *)
(*                                                                         *)
(* Processes, for any number of scanners, processes, PIDs, changes and     *)
(* failing readings: a count is bracketed by the processes that were there *)
(* (CountsBracketed), and the intervals that the answers account for leave *)
(* no tick out (NoTickLost).                                               *)
(*                                                                         *)
(* And the types of the whole server (TypeCorrect).                        *)
(***************************************************************************)
EXTENDS ContainerStats_proofs, SequenceTheorems, FiniteSetTheorems

-----------------------------------------------------------------------------
(* Sequences.                                                              *)

LEMMA EntersNext ==
    ASSUME NEW S, NEW c \in Seq(S), NEW t \in Seq(S), t # <<>>
    PROVE  Append(c, Head(t)) \o Tail(t) = c \o t
OBVIOUS

LEMMA RemoveAtType ==
    ASSUME NEW S, NEW s \in Seq(S), NEW i \in DOMAIN s PROVE RemoveAt(s, i) \in Seq(S)
<1>1. i \in 1..Len(s) OBVIOUS
<1>2. SubSeq(s, 1, i - 1) \in Seq(S) /\ SubSeq(s, i + 1, Len(s)) \in Seq(S)
  BY <1>1, SubSeqProperties
<1>3. QED BY <1>2, ConcatProperties DEF RemoveAt

-----------------------------------------------------------------------------
(* Types.                                                                  *)

MountTypes ==
    /\ mounts \in Seq(AllMounts) /\ initialMountPointsCache \in Seq(AllMounts)
    /\ file \in Seq(AllMounts) /\ useCached \in BOOLEAN /\ disturbed \in BOOLEAN
AskerTypes ==
    /\ dpc \in [Askers -> {"idle", "lines", "append", "stats"}]
    /\ fromCache \in [Askers -> BOOLEAN]
    /\ todoMounts \in [Askers -> Seq(AllMounts)] /\ base \in [Askers -> Seq(AllMounts)]
    /\ \A a \in Askers : dpc[a] = "append" => todoMounts[a] # <<>>
DiskTypes == MountTypes /\ AskerTypes

LEMMA DiskStartTypes ==
    ASSUME NEW n, NEW nfs \in BOOLEAN, NEW cached \in BOOLEAN, DiskStart(n, nfs, cached)
    PROVE  DiskTypes
<1>1. FirstMounts \in Seq(AllMounts)
  <2>1. FirstMounts \in Seq(Range(FirstMounts)) BY DiskAssumption
  <2>2. Range(FirstMounts) \subseteq AllMounts BY DEF AllMounts
  <2> DEFINE R == Range(FirstMounts)
  <2>3. FirstMounts \in Seq(R) /\ R \subseteq AllMounts BY <2>1, <2>2
  <2> HIDE DEF R
  <2>4. QED BY <2>3
<1>2. <<>> \in Seq(AllMounts) OBVIOUS
<1>3. MountTypes BY <1>1, <1>2 DEF DiskStart, MountTypes
<1>4. AskerTypes BY <1>2 DEF DiskStart, AskerTypes
<1>5. QED BY <1>3, <1>4 DEF DiskTypes

LEMMA DiskTypesStep == DiskTypes /\ (DiskNext \/ UNCHANGED diskVars) => DiskTypes'
<1> SUFFICES ASSUME DiskTypes, DiskNext \/ UNCHANGED diskVars PROVE DiskTypes'
    OBVIOUS
<1> USE DEF DiskTypes
<1>1. CASE UNCHANGED diskVars BY <1>1 DEF diskVars, MountTypes, AskerTypes
<1>2. ASSUME NEW m \in AllMounts, Mount(m) PROVE DiskTypes'
  BY <1>2 DEF Mount, WorldStep, MountTypes, AskerTypes
<1>3. ASSUME NEW m \in AllMounts, Unmount(m) PROVE DiskTypes'
  <2>1. mounts' \in Seq(AllMounts) BY <1>3, RemoveAtType DEF Unmount, MountTypes
  <2>2. QED BY <1>3, <2>1 DEF Unmount, WorldStep, MountTypes, AskerTypes
<1>4. CASE DiskReload
  <2>1. (disturbed \/ \E a \in Askers : Reading(a)) \in BOOLEAN BY DEF MountTypes
  <2>2. QED BY <1>4, <2>1 DEF DiskReload, WorldStep, MountTypes, AskerTypes
<1>5. ASSUME NEW a \in Askers, Ask(a) PROVE DiskTypes'
  <2>1. CASE UNCHANGED <<fromCache, todoMounts, file, disturbed>> /\ Place(a, "idle")
    BY <1>5, <2>1 DEF Ask, Place, nodeVars2, MountTypes, AskerTypes
  <2>2. CASE ~(UNCHANGED <<fromCache, todoMounts, file, disturbed>> /\ Place(a, "idle"))
    <3> DEFINE cached == useCached /\ initialMountPointsCache # <<>>
               lines  == IF cached THEN initialMountPointsCache ELSE mounts
    <3>1. /\ fromCache' = [fromCache EXCEPT ![a] = cached]
          /\ todoMounts' = [todoMounts EXCEPT ![a] = lines]
          /\ file' = IF useCached /\ ~cached THEN mounts ELSE file
          /\ disturbed' = (disturbed \/ (useCached /\ \E b \in Askers : Reading(b)))
          /\ dpc' = [dpc EXCEPT ![a] = "lines"]
          /\ UNCHANGED <<mounts, useCached, initialMountPointsCache, base>>
      BY <1>5, <2>2 DEF Ask, Place, Answers, nodeVars2
    <3>2. cached \in BOOLEAN /\ lines \in Seq(AllMounts) BY DEF MountTypes
    <3>3. disturbed' \in BOOLEAN BY <3>1 DEF MountTypes
    <3> HIDE DEF cached, lines
    <3>4. QED BY <3>1, <3>2, <3>3 DEF MountTypes, AskerTypes
  <2>3. QED BY <2>1, <2>2
<1>6. ASSUME NEW a \in Askers, Line(a) PROVE DiskTypes'
  <2>1. /\ UNCHANGED <<mounts, useCached, initialMountPointsCache, fromCache, file>>
        /\ disturbed' \in BOOLEAN /\ todoMounts[a] # <<>>
    BY <1>6 DEF Line, nodeVars2, MountTypes
  <2>2. \/ /\ base' = [base EXCEPT ![a] = initialMountPointsCache]
           /\ dpc' = [dpc EXCEPT ![a] = "append"] /\ UNCHANGED todoMounts
        \/ /\ todoMounts' = [todoMounts EXCEPT ![a] = Tail(@)]
           /\ UNCHANGED <<base, dpc>> /\ dpc[a] = "lines"
    BY <1>6 DEF Line, Place
  <2>3. Tail(todoMounts[a]) \in Seq(AllMounts) BY <2>1 DEF AskerTypes
  <2>4. QED BY <2>1, <2>2, <2>3 DEF MountTypes, AskerTypes
<1>7. ASSUME NEW a \in Askers, EnterInCache(a) PROVE DiskTypes'
  <2>1. /\ dpc[a] = "append" /\ dpc' = [dpc EXCEPT ![a] = "lines"]
        /\ initialMountPointsCache' = Append(base[a], Head(todoMounts[a]))
        /\ todoMounts' = [todoMounts EXCEPT ![a] = Tail(@)]
        /\ base' = [base EXCEPT ![a] = <<>>]
        /\ UNCHANGED <<mounts, useCached, fromCache, file, disturbed>>
    BY <1>7 DEF EnterInCache, Place, nodeVars2
  <2>2. todoMounts[a] # <<>> /\ base[a] \in Seq(AllMounts)
        /\ todoMounts[a] \in Seq(AllMounts)
    BY <2>1 DEF AskerTypes
  <2>3. /\ Tail(todoMounts[a]) \in Seq(AllMounts) /\ <<>> \in Seq(AllMounts)
        /\ Append(base[a], Head(todoMounts[a])) \in Seq(AllMounts)
    BY <2>2
  <2>4. QED BY <2>1, <2>3 DEF MountTypes, AskerTypes
<1>8. ASSUME NEW a \in Askers, LoadSample(a) \/ SaveSample(a) PROVE DiskTypes'
  <2>1. /\ UNCHANGED <<mounts, useCached, initialMountPointsCache, file, disturbed>>
        /\ UNCHANGED <<todoMounts, base>>
        /\ fromCache' = fromCache \/ fromCache' = [fromCache EXCEPT ![a] = FALSE]
        /\ \E place \in {"stats", "idle"} : dpc' = [dpc EXCEPT ![a] = place]
    BY <1>8 DEF LoadSample, SaveSample, Place, Answers, nodeVars2
  <2>2. QED BY <2>1 DEF MountTypes, AskerTypes
<1>9. QED BY <1>1, <1>2, <1>3, <1>4, <1>5, <1>6, <1>7, <1>8 DEF DiskNext

-----------------------------------------------------------------------------
(* The cache and the file, as long as nothing disturbed them.              *)

Follows(a) ==    \* what a is about to store is the cache and its next line
    dpc[a] = "append" => useCached /\ ~fromCache[a] /\ base[a] = initialMountPointsCache
OneReader == useCached => \A a, b \in Askers : Reading(a) /\ Reading(b) => a = b
RestIsRead == useCached =>
    \A a \in Askers : Reading(a) => initialMountPointsCache \o todoMounts[a] = file
AllOrNothing ==
    \/ initialMountPointsCache = <<>> \/ initialMountPointsCache = file
    \/ useCached /\ \E a \in Askers : Reading(a)
CacheInv ==
    disturbed \/ /\ \A a \in Askers : Follows(a)
                 /\ OneReader /\ RestIsRead /\ AllOrNothing

LEMMA CacheNode ==
    ASSUME DiskTypes, CacheInv,
           DiskReload \/ (\E m \in AllMounts : Mount(m) \/ Unmount(m)) \/ UNCHANGED diskVars
    PROVE  CacheInv'
<1> USE DEF CacheInv, Follows, OneReader, RestIsRead, AllOrNothing, Reading
<1>1. CASE DiskReload
  <2>1. UNCHANGED <<initialMountPointsCache, dpc, fromCache, todoMounts, base, file>>
        /\ disturbed' = (disturbed \/ \E a \in Askers : Reading(a))
    BY <1>1 DEF DiskReload, WorldStep
  <2>2. CASE disturbed' BY <2>2
  <2>3. CASE ~disturbed'
    <3>1. ~disturbed /\ \A a \in Askers : ~Reading(a) BY <2>1, <2>3
    <3>2. \A a \in Askers : dpc[a] # "append" BY <3>1
    <3>3. QED BY <2>1, <3>1, <3>2
  <2>4. QED BY <2>2, <2>3
<1>2. CASE \E m \in AllMounts : Mount(m) \/ Unmount(m)
  <2>1. UNCHANGED <<useCached, initialMountPointsCache, dpc, fromCache, todoMounts,
                    base, file, disturbed>>
    BY <1>2 DEF Mount, Unmount, WorldStep
  <2>2. QED BY <2>1
<1>3. CASE UNCHANGED diskVars BY <1>3 DEF diskVars
<1>4. QED BY <1>1, <1>2, <1>3

LEMMA CacheAsk ==
    ASSUME DiskTypes, CacheInv, NEW a \in Askers, Ask(a), ~disturbed' PROVE CacheInv'
<1> USE DEF DiskTypes, MountTypes, AskerTypes
<1> DEFINE cached == useCached /\ initialMountPointsCache # <<>>
<1>1. /\ UNCHANGED <<useCached, initialMountPointsCache, base>> /\ dpc[a] = "idle"
      /\ \/ /\ fromCache' = [fromCache EXCEPT ![a] = cached]
            /\ todoMounts' = [todoMounts EXCEPT
                                ![a] = IF cached THEN initialMountPointsCache ELSE mounts]
            /\ file' = IF useCached /\ ~cached THEN mounts ELSE file
            /\ disturbed' = (disturbed \/ (useCached /\ \E b \in Askers : Reading(b)))
            /\ dpc' = [dpc EXCEPT ![a] = "lines"]
         \/ /\ dpc' = [dpc EXCEPT ![a] = "idle"]
            /\ UNCHANGED <<fromCache, todoMounts, file, disturbed>>
  BY DEF Ask, Place, Answers, nodeVars2
<1>2. ~disturbed BY <1>1
<1>3. CASE dpc' = [dpc EXCEPT ![a] = "idle"]
  <2>1. dpc' = dpc BY <1>1, <1>3
  <2>2. UNCHANGED <<fromCache, todoMounts, file>> BY <1>1, <1>3
  <2>3. QED
    BY <1>1, <1>2, <2>1, <2>2 DEF CacheInv, Follows, OneReader, RestIsRead, AllOrNothing, Reading
<1>4. CASE dpc' = [dpc EXCEPT ![a] = "lines"]
  <2>1. /\ fromCache' = [fromCache EXCEPT ![a] = cached]
        /\ todoMounts' = [todoMounts EXCEPT
                            ![a] = IF cached THEN initialMountPointsCache ELSE mounts]
        /\ file' = IF useCached /\ ~cached THEN mounts ELSE file
        /\ useCached => \A b \in Askers : ~Reading(b)
    BY <1>1, <1>4
  <2>2. \A b \in Askers \ {a} :
           UNCHANGED <<dpc[b], fromCache[b], todoMounts[b]>> /\ (Reading(b)' <=> Reading(b))
    BY <1>4, <2>1 DEF Reading
  <2>3. \A b \in Askers : Follows(b)'
    BY <1>1, <1>2, <1>4, <2>2 DEF CacheInv, Follows
  <2>4. OneReader' BY <1>1, <2>1, <2>2 DEF OneReader
  <2>5. RestIsRead'
    <3>1. (useCached /\ Reading(a)') => ~cached BY <1>4, <2>1 DEF Reading
    <3>2. (useCached /\ ~cached) =>
             initialMountPointsCache = <<>> /\ todoMounts'[a] = mounts /\ file' = mounts
      BY <2>1
    <3>3. <<>> \o mounts = mounts OBVIOUS
    <3>4. QED BY <1>1, <2>1, <2>2, <3>1, <3>2, <3>3 DEF RestIsRead
  <2>6. AllOrNothing'
    BY <1>1, <1>2, <2>1 DEF CacheInv, AllOrNothing
  <2>7. QED BY <2>3, <2>4, <2>5, <2>6 DEF CacheInv
<1>5. QED BY <1>1, <1>3, <1>4

LEMMA CacheLine ==
    ASSUME DiskTypes, CacheInv, NEW a \in Askers, Line(a), ~disturbed' PROVE CacheInv'
<1> USE DEF DiskTypes, MountTypes, AskerTypes
<1>1. /\ UNCHANGED <<useCached, initialMountPointsCache, fromCache, file>>
      /\ dpc[a] = "lines" /\ ~disturbed
  BY DEF Line, nodeVars2
<1>2. CASE useCached /\ ~fromCache[a]
  <2>1. /\ base' = [base EXCEPT ![a] = initialMountPointsCache]
        /\ dpc' = [dpc EXCEPT ![a] = "append"] /\ UNCHANGED todoMounts
    BY <1>2 DEF Line, Place
  <2>2. \A b \in Askers : Reading(b)' <=> Reading(b) BY <1>1, <2>1 DEF Reading
  <2>3. \A b \in Askers : Follows(b)' BY <1>1, <1>2, <2>1 DEF CacheInv, Follows
  <2>4. QED
    BY <1>1, <2>1, <2>2, <2>3 DEF CacheInv, OneReader, RestIsRead, AllOrNothing
<1>3. CASE ~(useCached /\ ~fromCache[a])
  <2>1. UNCHANGED <<base, dpc>> /\ todoMounts' = [todoMounts EXCEPT ![a] = Tail(@)]
    BY <1>3 DEF Line
  <2>2. \A b \in Askers : Reading(b)' <=> Reading(b) BY <1>1, <2>1 DEF Reading
  <2>3. \A b \in Askers : useCached /\ Reading(b) => todoMounts'[b] = todoMounts[b]
    BY <1>3, <2>1 DEF Reading
  <2>4. QED
    BY <1>1, <2>1, <2>2, <2>3
       DEF CacheInv, Follows, OneReader, RestIsRead, AllOrNothing
<1>4. QED BY <1>2, <1>3

LEMMA CacheEnters ==
    ASSUME DiskTypes, CacheInv, NEW a \in Askers, EnterInCache(a), ~disturbed' PROVE CacheInv'
<1> USE DEF DiskTypes, MountTypes, AskerTypes
<1>1. /\ dpc[a] = "append" /\ dpc' = [dpc EXCEPT ![a] = "lines"]
      /\ initialMountPointsCache' = Append(base[a], Head(todoMounts[a]))
      /\ todoMounts' = [todoMounts EXCEPT ![a] = Tail(@)]
      /\ UNCHANGED <<useCached, fromCache, file, disturbed>>
      /\ base' = [base EXCEPT ![a] = <<>>]
  BY DEF EnterInCache, Place, nodeVars2
<1>2. /\ useCached /\ Reading(a) /\ base[a] = initialMountPointsCache
      /\ \A b \in Askers : Reading(b) => b = a
      /\ initialMountPointsCache \o todoMounts[a] = file
  BY <1>1 DEF CacheInv, Follows, OneReader, RestIsRead, Reading
<1>3. \A b \in Askers : Reading(b)' <=> Reading(b) BY <1>1 DEF Reading
<1>4. \A b \in Askers : dpc'[b] # "append"
  BY <1>1, <1>2 DEF Reading, CacheInv, Follows
<1>5. initialMountPointsCache' \o todoMounts'[a] = file'
  BY <1>1, <1>2, EntersNext
<1>6. QED
  BY <1>1, <1>2, <1>3, <1>4, <1>5
     DEF CacheInv, Follows, OneReader, RestIsRead, AllOrNothing

LEMMA CacheSample ==
    ASSUME DiskTypes, CacheInv, NEW a \in Askers, LoadSample(a) \/ SaveSample(a), ~disturbed'
    PROVE  CacheInv'
<1> USE DEF DiskTypes, MountTypes, AskerTypes
<1>1. /\ UNCHANGED <<useCached, initialMountPointsCache, file, disturbed>>
      /\ UNCHANGED <<todoMounts, base>>
      /\ fromCache' = fromCache \/ fromCache' = [fromCache EXCEPT ![a] = FALSE]
      /\ \E place \in {"stats", "idle"} : dpc' = [dpc EXCEPT ![a] = place]
      /\ (dpc[a] = "lines" /\ todoMounts[a] = <<>>) \/ dpc[a] = "stats"
  BY DEF LoadSample, SaveSample, Place, Answers, nodeVars2
<1>2. ~Reading(a)' /\ \A b \in Askers \ {a} : Reading(b)' <=> Reading(b)
  BY <1>1 DEF Reading
<1>3. \A b \in Askers : Follows(b)' BY <1>1 DEF CacheInv, Follows
<1>4. useCached /\ Reading(a) => initialMountPointsCache = file
  <2>1. initialMountPointsCache \o <<>> = initialMountPointsCache OBVIOUS
  <2>2. QED BY <1>1, <2>1 DEF CacheInv, RestIsRead, Reading
<1>5. OneReader' /\ RestIsRead'
  BY <1>1, <1>2 DEF CacheInv, OneReader, RestIsRead
<1>6. AllOrNothing' BY <1>1, <1>2, <1>4 DEF CacheInv, AllOrNothing
<1>7. QED BY <1>3, <1>5, <1>6 DEF CacheInv

-----------------------------------------------------------------------------

LEMMA InitCache == Init => DiskTypes /\ CacheInv
<1> SUFFICES ASSUME Init PROVE DiskTypes /\ CacheInv OBVIOUS
<1>1. PICK n : \E nfs, cached \in BOOLEAN : DiskStart(n, nfs, cached)
  BY DEF Init, IdleDisk
<1>2. DiskTypes BY <1>1, DiskStartTypes
<1>3. initialMountPointsCache = <<>> /\ \A a \in Askers : dpc[a] = "idle"
  BY <1>1 DEF DiskStart
<1>4. QED
  BY <1>2, <1>3 DEF CacheInv, Follows, OneReader, RestIsRead, AllOrNothing, Reading

LEMMA CacheStep == (DiskTypes /\ CacheInv) /\ [Next]_helperVars => (DiskTypes /\ CacheInv)'
<1>1. [Next]_helperVars => DiskNext \/ UNCHANGED diskVars BY DEF Next, helperVars
<1>2. disturbed' => CacheInv' BY DEF CacheInv
<1>3. QED
  BY <1>1, <1>2, DiskTypesStep, CacheNode, CacheAsk, CacheLine, CacheEnters, CacheSample
     DEF DiskNext

(* CacheIsTheFile: when nobody reads, the cache of mounts is the file that *)
(* was read, line by line and in its order, or empty; requests that fail,  *)
(* mounts that come and go and changes of the settings between two         *)
(* readings leave no part of a file in it.                                 *)
THEOREM CacheIsTheFileHolds == Spec => []CacheIsTheFile
<1>1. CacheInv => CacheIsTheFile BY DEF CacheInv, AllOrNothing, CacheIsTheFile
<1>2. QED BY <1>1, InitCache, CacheStep, PTL DEF Spec

-----------------------------------------------------------------------------
(* A mount is once in a sequence, or once in two that follow each other.   *)

Once(s) == \E i \in DOMAIN s : \A j \in DOMAIN s : s[j] = SteadyMount <=> j = i
None(s) == \A i \in DOMAIN s : s[i] # SteadyMount
OnceInAll(s, t) == (Once(s) /\ None(t)) \/ (None(s) /\ Once(t))

LEMMA OnceAppended ==
    ASSUME NEW S, NEW s \in Seq(S), NEW m \in S
    PROVE  /\ m # SteadyMount => (Once(Append(s, m)) <=> Once(s))
           /\ m # SteadyMount => (None(Append(s, m)) <=> None(s))
           /\ m = SteadyMount /\ None(s) => Once(Append(s, m))
<1> DEFINE t == Append(s, m)
<1>1. /\ Len(s) \in Nat /\ DOMAIN s = 1..Len(s) /\ DOMAIN t = 1..(Len(s) + 1)
      /\ t[Len(s) + 1] = m /\ \A i \in 1..Len(s) : t[i] = s[i]
  OBVIOUS
<1> HIDE DEF t
<1>2. \A i \in DOMAIN t : i \in DOMAIN s \/ i = Len(s) + 1 BY <1>1
<1>3. \A i \in DOMAIN s : i \in DOMAIN t /\ i # Len(s) + 1 BY <1>1
<1>4. Len(s) + 1 \in DOMAIN t BY <1>1
<1>5. QED BY <1>1, <1>2, <1>3, <1>4 DEF Once, None, t

LEMMA OnceLeft ==
    ASSUME NEW S, NEW s \in Seq(S), s # <<>>
    PROVE  /\ Head(s) # SteadyMount => (Once(s) <=> Once(Tail(s)))
           /\ None(s) <=> (Head(s) # SteadyMount /\ None(Tail(s)))
           /\ Head(s) = SteadyMount /\ Once(s) => None(Tail(s))
<1> DEFINE t == Tail(s)
<1>1. /\ Len(s) \in Nat \ {0} /\ DOMAIN s = 1..Len(s) /\ DOMAIN t = 1..(Len(s) - 1)
      /\ Head(s) = s[1] /\ \A i \in 1..(Len(s) - 1) : t[i] = s[i + 1]
  OBVIOUS
<1> HIDE DEF t
<1>2. \A i \in DOMAIN t : i + 1 \in DOMAIN s /\ i + 1 # 1 /\ t[i] = s[i + 1] BY <1>1
<1>3. \A i \in DOMAIN s : i = 1 \/ (i - 1 \in DOMAIN t /\ t[i - 1] = s[i]) BY <1>1
<1>4. 1 \in DOMAIN s /\ Head(s) = s[1] BY <1>1
<1>5. Head(s) # SteadyMount /\ Once(s) => Once(t)
  <2> SUFFICES ASSUME Head(s) # SteadyMount, Once(s) PROVE Once(t) OBVIOUS
  <2>1. PICK i \in DOMAIN s : \A j \in DOMAIN s : s[j] = SteadyMount <=> j = i
    BY DEF Once
  <2>2. i - 1 \in DOMAIN t BY <1>3, <1>4, <2>1
  <2>3. \A j \in DOMAIN t : t[j] = SteadyMount <=> j = i - 1 BY <1>1, <1>2, <2>1
  <2>4. QED BY <2>2, <2>3 DEF Once
<1>6. Head(s) # SteadyMount /\ Once(t) => Once(s)
  <2> SUFFICES ASSUME Head(s) # SteadyMount, Once(t) PROVE Once(s) OBVIOUS
  <2>1. PICK i \in DOMAIN t : \A j \in DOMAIN t : t[j] = SteadyMount <=> j = i
    BY DEF Once
  <2>2. \A j \in DOMAIN s : s[j] = SteadyMount <=> j = i + 1 BY <1>1, <1>3, <1>4, <2>1
  <2>3. QED BY <1>2, <2>1, <2>2 DEF Once
<1>7. None(s) <=> (Head(s) # SteadyMount /\ None(t)) BY <1>2, <1>3, <1>4 DEF None
<1>8. Head(s) = SteadyMount /\ Once(s) => None(t) BY <1>2, <1>4 DEF Once, None
<1>9. QED BY <1>5, <1>6, <1>7, <1>8 DEF t

LEMMA OnceRemoved ==
    ASSUME NEW S, NEW s \in Seq(S), NEW k \in DOMAIN s, s[k] # SteadyMount, Once(s)
    PROVE  Once(RemoveAt(s, k))
<1> DEFINE t == RemoveAt(s, k)
<1>1. /\ Len(s) \in Nat /\ k \in 1..Len(s) /\ DOMAIN s = 1..Len(s) OBVIOUS
<1>2. /\ DOMAIN t = 1..(Len(s) - 1)
      /\ \A i \in 1..(Len(s) - 1) : t[i] = IF i < k THEN s[i] ELSE s[i + 1]
  <2> DEFINE a == SubSeq(s, 1, k - 1)
             b == SubSeq(s, k + 1, Len(s))
  <2>1. a \in Seq(S) /\ Len(a) = k - 1 /\ \A i \in 1..(k - 1) : a[i] = s[i]
    BY <1>1, SubSeqProperties
  <2>2. b \in Seq(S) /\ Len(b) = Len(s) - k /\ \A i \in 1..(Len(s) - k) : b[i] = s[k + i]
    BY <1>1, SubSeqProperties
  <2> HIDE DEF a, b
  <2>3. /\ Len(a \o b) = Len(s) - 1 /\ a \o b \in Seq(S)
        /\ \A i \in 1..(Len(s) - 1) : (a \o b)[i] = IF i < k THEN s[i] ELSE s[i + 1]
    <3>1. Len(a) + Len(b) = Len(s) - 1 BY <1>1, <2>1, <2>2
    <3>2. /\ a \o b \in Seq(S) /\ Len(a \o b) = Len(a) + Len(b)
          /\ \A i \in 1..(Len(a) + Len(b)) :
               (a \o b)[i] = IF i <= Len(a) THEN a[i] ELSE b[i - Len(a)]
      BY <2>1, <2>2, ConcatProperties
    <3>3. ASSUME NEW i \in 1..(Len(s) - 1)
          PROVE  (a \o b)[i] = IF i < k THEN s[i] ELSE s[i + 1]
      <4>1. CASE i < k BY <1>1, <2>1, <3>1, <3>2, <4>1
      <4>2. CASE ~(i < k)
        <5>1. i - (k - 1) \in 1..(Len(s) - k) /\ k + (i - (k - 1)) = i + 1
          BY <1>1, <4>2
        <5>2. (a \o b)[i] = b[i - (k - 1)] BY <1>1, <2>1, <3>1, <3>2, <4>2
        <5>3. QED BY <2>2, <4>2, <5>1, <5>2
      <4>3. QED BY <4>1, <4>2
    <3>4. QED BY <3>1, <3>2, <3>3
  <2>4. t = a \o b BY DEF RemoveAt, a, b
  <2>5. DOMAIN t = 1..(Len(s) - 1) BY <2>3, <2>4
  <2>6. QED BY <2>3, <2>4, <2>5
<1> HIDE DEF t
<1>3. PICK i \in DOMAIN s : \A j \in DOMAIN s : s[j] = SteadyMount <=> j = i
  BY DEF Once
<1>4. i # k BY <1>3
<1> DEFINE was(j) == IF j < k THEN j ELSE j + 1
<1>5. \A j \in DOMAIN t : was(j) \in DOMAIN s /\ t[j] = s[was(j)]
  BY <1>1, <1>2
<1>6. \A j \in DOMAIN t : t[j] = SteadyMount <=> was(j) = i
  BY <1>3, <1>5
<1>7. CASE i < k
  <2>1. i \in DOMAIN t BY <1>1, <1>2, <1>3, <1>7
  <2>2. ASSUME NEW j \in DOMAIN t PROVE t[j] = SteadyMount <=> j = i
    <3>1. was(j) = i <=> j = i BY <1>1, <1>2, <1>7
    <3>2. QED BY <1>6, <3>1
  <2>3. QED BY <2>1, <2>2 DEF Once, t
<1>8. CASE i > k
  <2>1. i - 1 \in DOMAIN t BY <1>1, <1>2, <1>3, <1>8
  <2>2. ASSUME NEW j \in DOMAIN t PROVE t[j] = SteadyMount <=> j = i - 1
    <3>1. was(j) = i <=> j = i - 1 BY <1>1, <1>2, <1>8
    <3>2. QED BY <1>6, <3>1
  <2>3. QED BY <2>1, <2>2 DEF Once, t
<1>9. QED BY <1>1, <1>3, <1>4, <1>7, <1>8

-----------------------------------------------------------------------------
(* Answers, as long as nothing disturbed them: the steady mount is once in *)
(* what a request has answered for and has yet to go through, and its disk *)
(* is in every sample.                                                     *)

AnswerTypes ==
    /\ deviceFilter \in [Askers -> SUBSET AllMounts]
    /\ diskPerfList \in [Askers -> Seq(AllMounts)]
    /\ DOMAIN diskIoMap2 = Askers /\ DOMAIN answer = Askers
FilesInv == Once(mounts) /\ (file = <<>> \/ Once(file))
Sampled(x) == x = NotSaved \/ (SteadyMount.disk => SteadyMount.device \in x)
Told(x) == Cardinality({i \in DOMAIN x : x[i] = SteadyMount}) = 1
Answered(a) ==
    /\ dpc[a] = "lines"  => OnceInAll(diskPerfList[a], todoMounts[a])
    /\ dpc[a] = "append" => OnceInAll(diskPerfList[a], Tail(todoMounts[a]))
    /\ dpc[a] = "stats"  => Once(diskPerfList[a])
    /\ Sampled(diskIoMap2[a])
    /\ (dpc[a] = "idle" /\ asked[a] > 0 /\ answer[a] # Failed /\ diskIoMap2[a] # NotSaved) =>
         Told(answer[a])
Undisturbed == Sampled(diskCache) /\ \A a \in Askers : Answered(a)
AnswerInv == AnswerTypes /\ FilesInv /\ (disturbed \/ Undisturbed)

LEMMA SteadyIsAMount ==
    /\ SteadyMount \in AllMounts /\ Once(FirstMounts) /\ FirstMounts \in Seq(AllMounts)
    /\ SteadyMount.sized /\ ~SteadyMount.nfs
    /\ \A p \in AllMounts : ~(p.id = SteadyMount.parent /\ p.point = SteadyMount.point)
<1>1. Range(FirstMounts) \subseteq AllMounts BY DEF AllMounts
<1>2. SteadyMount \in Range(FirstMounts) BY DiskAssumption DEF Range
<1>3. Once(FirstMounts) BY DiskAssumption DEF Once
<1> DEFINE R == Range(FirstMounts)
<1>4. FirstMounts \in Seq(R) /\ R \subseteq AllMounts BY <1>1, DiskAssumption
<1> HIDE DEF R
<1>5. FirstMounts \in Seq(AllMounts) BY <1>4
<1>6. QED BY <1>1, <1>2, <1>3, <1>5, DiskAssumption DEF AllMounts

LEMMA StartAnswers ==
    ASSUME NEW n, NEW nfs, NEW cached, DiskStart(n, nfs, cached) PROVE AnswerInv
<1>1. <<>> \in Seq(AllMounts) OBVIOUS
<1>2. AnswerTypes BY <1>1 DEF DiskStart, AnswerTypes
<1>3. QED
  BY <1>2, SteadyIsAMount DEF DiskStart, AnswerInv, FilesInv, Undisturbed, Answered, Sampled

(* The steps that leave a request where it is.                             *)
LEMMA AnsweredKept ==
    ASSUME NEW a, Answered(a),
           UNCHANGED <<dpc[a], diskPerfList[a], todoMounts[a], diskIoMap2[a],
                       answer[a], asked[a]>>
    PROVE  Answered(a)'
BY DEF Answered, Told

LEMMA AnswersNode ==
    ASSUME DiskTypes, AnswerInv,
           DiskReload \/ (\E m \in AllMounts : Mount(m) \/ Unmount(m)) \/ UNCHANGED diskVars
    PROVE  AnswerInv'
<1>1. /\ UNCHANGED <<diskCache, dpc, asked, todoMounts, deviceFilter, diskPerfList>>
      /\ UNCHANGED <<diskIoMap2, answer, file>> /\ (disturbed => disturbed')
  <2>1. CASE DiskReload BY <2>1 DEF DiskReload, WorldStep
  <2>2. CASE \E m \in AllMounts : Mount(m) \/ Unmount(m)
    BY <2>2 DEF Mount, Unmount, WorldStep
  <2>3. CASE UNCHANGED diskVars BY <2>3 DEF diskVars
  <2>4. QED BY <2>1, <2>2, <2>3
<1>2. Once(mounts)'
  <2>1. ASSUME NEW m \in AllMounts, Mount(m) PROVE Once(mounts)'
    <3>1. m # SteadyMount
      <4>1. SteadyMount \in Range(mounts) BY DEF AnswerInv, FilesInv, Once, Range
      <4>2. QED BY <2>1, <4>1 DEF Mount
    <3>2. mounts' = Append(mounts, m) BY <2>1 DEF Mount
    <3>3. QED
      BY <3>1, <3>2, OnceAppended DEF AnswerInv, FilesInv, DiskTypes, MountTypes
  <2>2. ASSUME NEW m \in AllMounts, Unmount(m) PROVE Once(mounts)'
    BY <2>2, OnceRemoved DEF Unmount, AnswerInv, FilesInv, DiskTypes, MountTypes
  <2>3. CASE DiskReload \/ UNCHANGED diskVars
    BY <2>3 DEF DiskReload, diskVars, AnswerInv, FilesInv
  <2>4. QED BY <2>1, <2>2, <2>3
<1>3. Undisturbed => Undisturbed' BY <1>1, AnsweredKept DEF Undisturbed, Sampled
<1>4. AnswerTypes' BY <1>1 DEF AnswerInv, AnswerTypes
<1>5. QED BY <1>1, <1>2, <1>3, <1>4 DEF AnswerInv, FilesInv

LEMMA AnswersAsk ==
    ASSUME DiskTypes, CacheInv, AnswerInv, NEW a \in Askers, Ask(a) PROVE AnswerInv'
<1> USE DEF DiskTypes, MountTypes, AskerTypes
<1> DEFINE cached == useCached /\ initialMountPointsCache # <<>>
           lines  == IF cached THEN initialMountPointsCache ELSE mounts
<1>1. /\ UNCHANGED <<mounts, useCached, initialMountPointsCache, diskCache>>
      /\ UNCHANGED <<diskIoMap2, deviceFilter>> /\ dpc[a] = "idle"
      /\ diskPerfList' = [diskPerfList EXCEPT ![a] = <<>>]
      /\ asked' = [asked EXCEPT ![a] = @ + 1]
  BY DEF Ask, nodeVars2
<1>2. \/ /\ todoMounts' = [todoMounts EXCEPT ![a] = lines]
         /\ file' = IF useCached /\ ~cached THEN mounts ELSE file
         /\ disturbed' = (disturbed \/ (useCached /\ \E b \in Askers : Reading(b)))
         /\ dpc' = [dpc EXCEPT ![a] = "lines"]
         /\ answer' = [answer EXCEPT ![a] = <<>>]
      \/ /\ dpc' = [dpc EXCEPT ![a] = "idle"] /\ answer' = [answer EXCEPT ![a] = Failed]
         /\ UNCHANGED <<todoMounts, file, disturbed>>
  BY DEF Ask, Place, Answers
<1> HIDE DEF cached, lines
<1>3. AnswerTypes'
  <2>1. <<>> \in Seq(AllMounts) OBVIOUS
  <2>2. QED BY <1>1, <1>2, <2>1 DEF AnswerInv, AnswerTypes
<1>4. FilesInv' BY <1>1, <1>2 DEF AnswerInv, FilesInv
<1>5. ASSUME ~disturbed', NEW b \in Askers \ {a} PROVE Answered(b)'
  <2>1. UNCHANGED <<dpc[b], diskPerfList[b], todoMounts[b], diskIoMap2[b], answer[b]>>
    BY <1>1, <1>2 DEF AnswerInv, AnswerTypes
  <2>2. Answered(b) BY <1>2, <1>5 DEF AnswerInv, Undisturbed
  <2>3. QED BY <1>1, <2>1, <2>2 DEF Answered, Told
<1>6. ASSUME ~disturbed' PROVE Answered(a)'
  <2>1. ~disturbed /\ Sampled(diskIoMap2[a])
    BY <1>2, <1>6 DEF AnswerInv, Undisturbed, Answered
  <2>2. CASE answer' = [answer EXCEPT ![a] = Failed] /\ dpc' = [dpc EXCEPT ![a] = "idle"]
    BY <1>1, <2>1, <2>2 DEF AnswerInv, AnswerTypes, Answered, Sampled
  <2>3. CASE ~(answer' = [answer EXCEPT ![a] = Failed] /\ dpc' = [dpc EXCEPT ![a] = "idle"])
    <3>1. /\ todoMounts'[a] = lines /\ dpc'[a] = "lines"
          /\ useCached => \A b \in Askers : ~Reading(b)
      BY <1>2, <1>6, <2>3
    <3>2. Once(lines)
      <4>1. cached => initialMountPointsCache = file /\ file # <<>>
        BY <2>1, <3>1 DEF CacheInv, AllOrNothing, cached
      <4>2. QED BY <4>1 DEF AnswerInv, FilesInv, lines
    <3>3. diskPerfList'[a] = <<>> /\ None(<<>>)
      BY <1>1 DEF AnswerInv, AnswerTypes, None
    <3>4. QED BY <1>1, <2>1, <3>1, <3>2, <3>3 DEF Answered, OnceInAll, Sampled
  <2>4. QED BY <2>2, <2>3
<1>7. ~disturbed' => Sampled(diskCache)'
  BY <1>1, <1>2 DEF AnswerInv, Undisturbed, Sampled
<1>8. QED BY <1>3, <1>4, <1>5, <1>6, <1>7 DEF AnswerInv, Undisturbed

(* A line moves from what is left to what is answered for, or drops out    *)
(* when it is not the steady mount's.                                      *)
LEMMA OnceMoves ==
    ASSUME NEW l \in Seq(AllMounts), NEW t \in Seq(AllMounts), t # <<>>, OnceInAll(l, t),
           NEW k, k = l \/ k = Append(l, Head(t)),
           Head(t) = SteadyMount => k = Append(l, Head(t))
    PROVE  OnceInAll(k, Tail(t))
<1> DEFINE m == Head(t)
           u == Append(l, m)
<1>1. m \in AllMounts OBVIOUS
<1>2. /\ m # SteadyMount => (Once(t) <=> Once(Tail(t)))
      /\ None(t) <=> (m # SteadyMount /\ None(Tail(t)))
      /\ m = SteadyMount /\ Once(t) => None(Tail(t))
  BY OnceLeft
<1>3. /\ m # SteadyMount => (Once(u) <=> Once(l))
      /\ m # SteadyMount => (None(u) <=> None(l))
      /\ m = SteadyMount /\ None(l) => Once(u)
  BY <1>1, OnceAppended
<1>4. k = l \/ k = u OBVIOUS
<1>5. m = SteadyMount => k = u OBVIOUS
<1> HIDE DEF m, u
<1>6. QED BY <1>2, <1>3, <1>4, <1>5 DEF OnceInAll

LEMMA AnswersLine ==
    ASSUME DiskTypes, AnswerInv, NEW a \in Askers, Line(a) PROVE AnswerInv'
<1> USE DEF DiskTypes, MountTypes, AskerTypes
<1> DEFINE m == Head(todoMounts[a])
<1>1. /\ UNCHANGED <<mounts, file, diskCache, diskIoMap2, answer, asked>>
      /\ todoMounts[a] # <<>> /\ dpc[a] = "lines"
      /\ deviceFilter' = [deviceFilter EXCEPT ![a] = IF Filtered(m) THEN @ ELSE @ \cup {m}]
  BY DEF Line, nodeVars2
<1>2. \/ /\ diskPerfList' = [diskPerfList EXCEPT
                               ![a] = IF ~Filtered(m) /\ ~Hidden(a, m) /\ m.sized
                                      THEN Append(@, m) ELSE @]
         /\ disturbed' = disturbed
      \/ disturbed' = TRUE /\ diskPerfList' = diskPerfList
  BY DEF Line
<1>3. \/ dpc' = [dpc EXCEPT ![a] = "append"] /\ UNCHANGED todoMounts
      \/ dpc' = dpc /\ todoMounts' = [todoMounts EXCEPT ![a] = Tail(@)]
  BY DEF Line, Place
<1>4. m \in AllMounts /\ todoMounts[a] \in Seq(AllMounts) BY <1>1
<1> HIDE DEF m
<1>5. AnswerTypes' /\ FilesInv'
  <2>1. \E list \in Seq(AllMounts) : diskPerfList' = [diskPerfList EXCEPT ![a] = list]
    <3>1. diskPerfList[a] \in Seq(AllMounts) BY DEF AnswerInv, AnswerTypes
    <3>2. diskPerfList = [diskPerfList EXCEPT ![a] = diskPerfList[a]]
      BY DEF AnswerInv, AnswerTypes
    <3>3. Append(diskPerfList[a], m) \in Seq(AllMounts) BY <1>4, <3>1
    <3>4. QED BY <1>2, <3>1, <3>2, <3>3
  <2>2. QED BY <1>1, <1>4, <2>1 DEF AnswerInv, AnswerTypes, FilesInv
<1>6. CASE ~disturbed'
  <2>1. Undisturbed BY <1>2, <1>6 DEF AnswerInv
  <2>2. ASSUME NEW b \in Askers \ {a} PROVE Answered(b)'
    <3>1. UNCHANGED <<dpc[b], diskPerfList[b], todoMounts[b]>>
      BY <1>2, <1>3 DEF AnswerInv, AnswerTypes
    <3>2. QED BY <1>1, <2>1, <3>1, AnsweredKept DEF Undisturbed
  <2>3. OnceInAll(diskPerfList'[a], Tail(todoMounts[a]))
    <3>1. /\ diskPerfList'[a] \in {diskPerfList[a], Append(diskPerfList[a], m)}
          /\ (~Filtered(m) /\ ~Hidden(a, m) /\ m.sized) =>
               diskPerfList'[a] = Append(diskPerfList[a], m)
      BY <1>2, <1>6 DEF AnswerInv, AnswerTypes
    <3>2. m = SteadyMount => ~Filtered(m) /\ ~Hidden(a, m) /\ m.sized
      BY SteadyIsAMount DEF Filtered, Hidden, AnswerInv, AnswerTypes
    <3>3. OnceInAll(diskPerfList[a], todoMounts[a])
      BY <1>1, <2>1 DEF Undisturbed, Answered
    <3>4. diskPerfList[a] \in Seq(AllMounts) BY DEF AnswerInv, AnswerTypes
    <3>5. QED BY <1>1, <1>4, <3>1, <3>2, <3>3, <3>4, OnceMoves DEF m
  <2>4. Answered(a)'
    <3>1. Sampled(diskIoMap2[a]) BY <2>1 DEF Undisturbed, Answered
    <3>2. \/ dpc'[a] = "append" /\ todoMounts'[a] = todoMounts[a]
          \/ dpc'[a] = "lines" /\ todoMounts'[a] = Tail(todoMounts[a])
      BY <1>1, <1>3
    <3>3. QED BY <1>1, <2>3, <3>1, <3>2 DEF Answered, Sampled
  <2>5. QED BY <1>1, <1>5, <2>1, <2>2, <2>4 DEF AnswerInv, Undisturbed, Sampled
<1>7. QED BY <1>5, <1>6 DEF AnswerInv

LEMMA AnswersEnter ==
    ASSUME DiskTypes, AnswerInv, NEW a \in Askers, EnterInCache(a) PROVE AnswerInv'
<1> USE DEF DiskTypes, MountTypes, AskerTypes
<1>1. /\ UNCHANGED <<mounts, file, diskCache, diskIoMap2, answer, asked>>
      /\ UNCHANGED <<deviceFilter, diskPerfList, disturbed>>
      /\ dpc[a] = "append" /\ dpc' = [dpc EXCEPT ![a] = "lines"]
      /\ todoMounts' = [todoMounts EXCEPT ![a] = Tail(@)]
  BY DEF EnterInCache, Place, nodeVars2
<1>2. ASSUME NEW b \in Askers, Answered(b) PROVE Answered(b)'
  <2>1. CASE b = a BY <1>1, <1>2, <2>1 DEF Answered, Sampled
  <2>2. CASE b # a BY <1>1, <1>2, <2>2, AnsweredKept
  <2>3. QED BY <2>1, <2>2
<1>3. QED BY <1>1, <1>2 DEF AnswerInv, AnswerTypes, FilesInv, Undisturbed, Sampled

LEMMA AnswersLoad ==
    ASSUME DiskTypes, AnswerInv, NEW a \in Askers, LoadSample(a) PROVE AnswerInv'
<1> USE DEF DiskTypes, MountTypes, AskerTypes
<1>1. /\ UNCHANGED <<mounts, file, diskCache, asked, todoMounts, diskPerfList, disturbed>>
      /\ dpc[a] = "lines" /\ todoMounts[a] = <<>>
      /\ deviceFilter' = [deviceFilter EXCEPT ![a] = {}]
      /\ \/ /\ diskIoMap2' = [diskIoMap2 EXCEPT ![a] = diskCache] /\ UNCHANGED answer
            /\ dpc' = [dpc EXCEPT ![a] = "stats"]
         \/ /\ UNCHANGED diskIoMap2 /\ answer' = [answer EXCEPT ![a] = Failed]
            /\ dpc' = [dpc EXCEPT ![a] = "idle"]
  BY DEF LoadSample, Place, Answers, nodeVars2
<1>2. AnswerTypes' /\ FilesInv' BY <1>1 DEF AnswerInv, AnswerTypes, FilesInv
<1>3. ASSUME Undisturbed, NEW b \in Askers \ {a} PROVE Answered(b)'
  <2>1. UNCHANGED <<dpc[b], diskIoMap2[b], answer[b]>>
    BY <1>1 DEF AnswerInv, AnswerTypes
  <2>2. QED BY <1>1, <1>3, <2>1, AnsweredKept DEF Undisturbed
<1>4. ASSUME Undisturbed PROVE Answered(a)'
  <2>1. Once(diskPerfList[a])
    <3>1. ~Once(<<>>) BY DEF Once
    <3>2. QED BY <1>1, <1>4, <3>1 DEF Undisturbed, Answered, OnceInAll
  <2>2. Sampled(diskIoMap2[a]) /\ Sampled(diskCache)
    BY <1>4 DEF Undisturbed, Answered
  <2>3. \/ dpc'[a] = "stats" /\ diskIoMap2'[a] = diskCache
        \/ dpc'[a] = "idle" /\ answer'[a] = Failed /\ diskIoMap2'[a] = diskIoMap2[a]
    BY <1>1 DEF AnswerInv, AnswerTypes
  <2>4. QED BY <1>1, <2>1, <2>2, <2>3 DEF Answered, Sampled
<1>5. QED BY <1>1, <1>2, <1>3, <1>4 DEF AnswerInv, Undisturbed, Sampled

LEMMA AnswersSave ==
    ASSUME DiskTypes, AnswerInv, NEW a \in Askers, SaveSample(a) PROVE AnswerInv'
<1> USE DEF DiskTypes, MountTypes, AskerTypes
<1> DEFINE list == diskPerfList[a]
           told == {i \in DOMAIN list : ~list[i].disk \/ list[i].device \in diskIoMap2[a]}
<1>1. /\ UNCHANGED <<mounts, file, asked, todoMounts, deviceFilter, diskIoMap2, disturbed>>
      /\ dpc[a] = "stats" /\ dpc' = [dpc EXCEPT ![a] = "idle"]
      /\ diskCache' = {m.device : m \in {n \in Range(list) : n.disk}}
      /\ diskPerfList' = [diskPerfList EXCEPT ![a] = <<>>]
  BY DEF SaveSample, Place, Answers, nodeVars2
<1>2. answer' = [answer EXCEPT ![a] = [i \in told |-> list[i]]]
  BY DEF SaveSample, Answers, RestrictValues, Restrict
<1>3. AnswerTypes' /\ FilesInv'
  <2>1. <<>> \in Seq(AllMounts) OBVIOUS
  <2>2. QED BY <1>1, <1>2, <2>1 DEF AnswerInv, AnswerTypes, FilesInv
<1>4. ASSUME Undisturbed, NEW b \in Askers \ {a} PROVE Answered(b)'
  <2>1. UNCHANGED <<dpc[b], diskPerfList[b], answer[b]>>
    BY <1>1, <1>2 DEF AnswerInv, AnswerTypes
  <2>2. QED BY <1>1, <1>4, <2>1, AnsweredKept DEF Undisturbed
<1>5. ASSUME Undisturbed PROVE Answered(a)' /\ Sampled(diskCache)'
  <2>1. PICK k \in DOMAIN list : \A j \in DOMAIN list : list[j] = SteadyMount <=> j = k
    BY <1>1, <1>5 DEF Undisturbed, Answered, Once
  <2>2. list[k] = SteadyMount BY <2>1
  <2>3. Sampled(diskCache)'
    <3>1. SteadyMount \in Range(list) BY <2>2 DEF Range
    <3>2. QED BY <1>1, <3>1 DEF Sampled
  <2>4. answer'[a] = [i \in told |-> list[i]] BY <1>2 DEF AnswerInv, AnswerTypes
  <2>5. Sampled(diskIoMap2[a]) BY <1>5 DEF Undisturbed, Answered
  <2>6. ASSUME diskIoMap2[a] # NotSaved PROVE Told(answer'[a])
    <3>1. k \in told BY <2>2, <2>5, <2>6 DEF Sampled
    <3>2. {i \in told : list[i] = SteadyMount} = {k} BY <2>1, <3>1
    <3>3. {i \in DOMAIN answer'[a] : answer'[a][i] = SteadyMount} = {k}
      BY <2>4, <3>2
    <3>4. QED BY <3>3, FS_Singleton DEF Told
  <2>7. dpc'[a] = "idle" /\ diskIoMap2'[a] = diskIoMap2[a] BY <1>1
  <2>8. Answered(a)' BY <2>5, <2>6, <2>7 DEF Answered, Sampled, Told
  <2>9. QED BY <2>3, <2>8
<1>6. QED BY <1>1, <1>3, <1>4, <1>5 DEF AnswerInv, Undisturbed

LEMMA DiskSteps == [Next]_helperVars => DiskNext \/ UNCHANGED diskVars
BY DEF Next, helperVars

LEMMA InitAnswers == Init => DiskTypes /\ CacheInv /\ AnswerInv
<1> SUFFICES ASSUME Init PROVE DiskTypes /\ CacheInv /\ AnswerInv OBVIOUS
<1>1. PICK n : \E nfs, cached \in BOOLEAN : DiskStart(n, nfs, cached)
  BY DEF Init, IdleDisk
<1>2. AnswerInv BY <1>1, StartAnswers
<1>3. QED BY <1>2, InitCache

LEMMA AnswersStep ==
    /\ DiskTypes /\ CacheInv /\ AnswerInv /\ [Next]_helperVars
    => (DiskTypes /\ CacheInv /\ AnswerInv)'
BY DiskSteps, CacheStep, AnswersNode, AnswersAsk, AnswersLine, AnswersEnter,
   AnswersLoad, AnswersSave DEF DiskNext

(* DiskIsAnswered: a mount that stays is in every answer, and once, but in *)
(* those that find no sample to compare with, however the requests load,   *)
(* compute and save in between and the other mounts come and go.           *)
THEOREM DiskIsAnsweredHolds == Spec => []DiskIsAnswered
<1>1. AnswerInv => DiskIsAnswered
  BY DEF AnswerInv, Undisturbed, Answered, Told, DiskIsAnswered
<1>2. QED BY <1>1, InitAnswers, AnswersStep, PTL DEF Spec

-----------------------------------------------------------------------------
(* The rest of the type invariant: counters, samples and answers.          *)

IsSample(x) == x \subseteq Devices \/ x = NotSaved
IsAnswer(x) == x = Failed \/ Range(x) \subseteq AllMounts
Samples2 == IsSample(diskCache) /\ \A a \in Askers : IsSample(diskIoMap2[a])
DiskRest ==
    /\ events \in 0..MaxDiskEvents /\ nfsEnabled \in BOOLEAN
    /\ asked \in [Askers -> Nat] /\ \A a \in Askers : asked[a] <= MaxAsked[a]
    /\ Samples2 /\ \A a \in Askers : IsAnswer(answer[a])

LEMMA SeqRange == ASSUME NEW S, NEW s \in Seq(S) PROVE Range(s) \subseteq S
BY DEF Range

LEMMA DiskTypesHold == DiskTypes /\ AnswerTypes /\ DiskRest => DiskTypeOK
<1> SUFFICES ASSUME DiskTypes, AnswerTypes, DiskRest PROVE DiskTypeOK OBVIOUS
<1>1. /\ Range(mounts) \subseteq AllMounts /\ Range(file) \subseteq AllMounts
      /\ Range(initialMountPointsCache) \subseteq AllMounts
  BY SeqRange DEF DiskTypes, MountTypes
<1>2. ASSUME NEW a \in Askers
      PROVE  /\ Range(todoMounts[a]) \subseteq AllMounts /\ Range(base[a]) \subseteq AllMounts
             /\ Range(diskPerfList[a]) \subseteq AllMounts
             /\ deviceFilter[a] \subseteq AllMounts
  <2>1. /\ todoMounts[a] \in Seq(AllMounts) /\ base[a] \in Seq(AllMounts)
        /\ diskPerfList[a] \in Seq(AllMounts) /\ deviceFilter[a] \in SUBSET AllMounts
    BY DEF DiskTypes, AskerTypes, AnswerTypes
  <2>2. QED BY <2>1, SeqRange
<1>3. \A a \in Askers : asked[a] \in 0..MaxAsked[a]
  <2>1. \A a \in Askers : MaxAsked[a] \in Nat BY DiskAssumption
  <2>2. QED BY <2>1 DEF DiskRest
<1>4. \A a \in Askers :
        /\ dpc[a] \in {"idle", "lines", "append", "stats"} /\ fromCache[a] \in BOOLEAN
        /\ IsSample(diskIoMap2[a]) /\ IsAnswer(answer[a])
  BY DEF DiskTypes, AskerTypes, DiskRest, Samples2
<1>5. /\ events \in 0..MaxDiskEvents /\ IsSample(diskCache)
      /\ {nfsEnabled, useCached, disturbed} \subseteq BOOLEAN
  BY DEF DiskTypes, MountTypes, DiskRest, Samples2
<1>6. QED BY <1>1, <1>2, <1>3, <1>4, <1>5 DEF DiskTypeOK, IsSample, IsAnswer

LEMMA DiskRestStarts ==
    ASSUME NEW n \in [Askers -> Nat], \A a \in Askers : n[a] <= MaxAsked[a],
           NEW nfs \in BOOLEAN, NEW cached, DiskStart(n, nfs, cached)
    PROVE  DiskRest
<1>1. 0 \in 0..MaxDiskEvents BY DiskAssumption
<1>2. Range(<<>>) \subseteq AllMounts BY DEF Range
<1>3. QED BY <1>1, <1>2 DEF DiskStart, DiskRest, Samples2, IsSample, IsAnswer

LEMMA EventCounted ==
    ASSUME events \in 0..MaxDiskEvents, UNCHANGED events \/ Event
    PROVE  events' \in 0..MaxDiskEvents
BY DiskAssumption DEF Event

LEMMA DiskRestNode ==
    ASSUME DiskRest, DiskReload \/ (\E m \in AllMounts : Mount(m) \/ Unmount(m))
    PROVE  DiskRest'
<1>1. Event /\ UNCHANGED <<asked, diskCache, diskIoMap2, answer>> /\ nfsEnabled' \in BOOLEAN
  BY DEF DiskReload, Mount, Unmount, WorldStep, DiskRest
<1>2. events' \in 0..MaxDiskEvents BY <1>1, EventCounted DEF DiskRest
<1>3. QED BY <1>1, <1>2 DEF DiskRest, Samples2

LEMMA DiskRestAsker ==
    ASSUME DiskTypes, AnswerTypes, DiskRest, NEW a \in Askers,
           Ask(a) \/ Line(a) \/ EnterInCache(a) \/ LoadSample(a) \/ SaveSample(a)
    PROVE  DiskRest'
<1>1. UNCHANGED nfsEnabled /\ (UNCHANGED events \/ Event)
  BY DEF Ask, Line, EnterInCache, LoadSample, SaveSample, nodeVars2
<1>2. events' \in 0..MaxDiskEvents BY <1>1, EventCounted DEF DiskRest
<1>3. asked' \in [Askers -> Nat] /\ \A b \in Askers : asked'[b] <= MaxAsked[b]
  <2>1. CASE Ask(a)
    <3>1. asked[a] < MaxAsked[a] /\ asked' = [asked EXCEPT ![a] = @ + 1]
      BY <2>1 DEF Ask
    <3>2. asked[a] \in Nat /\ MaxAsked[a] \in Nat BY DiskAssumption DEF DiskRest
    <3>3. asked[a] + 1 \in Nat /\ asked[a] + 1 <= MaxAsked[a] BY <3>1, <3>2
    <3>4. QED BY <3>1, <3>3 DEF DiskRest
  <2>2. CASE ~Ask(a)
    BY <2>2 DEF Line, EnterInCache, LoadSample, SaveSample, DiskRest
  <2>3. QED BY <2>1, <2>2
<1>4. Samples2'
  <2>1. CASE SaveSample(a)
    <3>1. /\ diskCache' = {m.device : m \in {n \in Range(diskPerfList[a]) : n.disk}}
          /\ UNCHANGED diskIoMap2
      BY <2>1 DEF SaveSample
    <3>2. Range(diskPerfList[a]) \subseteq AllMounts
      <4>1. diskPerfList[a] \in Seq(AllMounts) BY DEF AnswerTypes
      <4>2. QED BY <4>1, SeqRange
    <3>3. diskCache' \subseteq Devices BY <3>1, <3>2 DEF Devices
    <3>4. QED BY <3>1, <3>3 DEF DiskRest, Samples2, IsSample
  <2>2. CASE LoadSample(a)
    <3>1. /\ UNCHANGED diskCache
          /\ UNCHANGED diskIoMap2 \/ diskIoMap2' = [diskIoMap2 EXCEPT ![a] = diskCache]
      BY <2>2 DEF LoadSample
    <3>2. QED BY <3>1 DEF AnswerTypes, DiskRest, Samples2
  <2>3. CASE Ask(a) \/ Line(a) \/ EnterInCache(a)
    BY <2>3 DEF Ask, Line, EnterInCache, DiskRest, Samples2
  <2>4. QED BY <2>1, <2>2, <2>3
<1>5. \A b \in Askers : IsAnswer(answer'[b])
  <2>1. CASE SaveSample(a)
    <3> DEFINE list == diskPerfList[a]
               told == {i \in DOMAIN list : ~list[i].disk \/ list[i].device \in diskIoMap2[a]}
               with == [i \in told |-> list[i]]
    <3>1. answer' = [answer EXCEPT ![a] = with]
      BY <2>1 DEF SaveSample, Answers, RestrictValues, Restrict
    <3>2. IsAnswer(with)
      <4>1. list \in Seq(AllMounts) BY DEF AnswerTypes
      <4>2. \A i \in told : list[i] \in AllMounts BY <4>1
      <4>3. QED BY <4>2 DEF IsAnswer, Range
    <3> HIDE DEF with
    <3>3. QED BY <3>1, <3>2 DEF AnswerTypes, DiskRest
  <2>2. CASE ~SaveSample(a)
    <3>1. \/ UNCHANGED answer \/ answer' = [answer EXCEPT ![a] = <<>>]
          \/ answer' = [answer EXCEPT ![a] = Failed]
      BY <2>2 DEF Ask, Line, EnterInCache, LoadSample, Answers
    <3>2. IsAnswer(<<>>) /\ IsAnswer(Failed) BY DEF IsAnswer, Range
    <3>3. QED BY <3>1, <3>2 DEF AnswerTypes, DiskRest
  <2>3. QED BY <2>1, <2>2
<1>6. QED BY <1>1, <1>2, <1>3, <1>4, <1>5 DEF DiskRest

LEMMA DiskRestKept ==
    /\ DiskTypes /\ AnswerTypes /\ DiskRest /\ (DiskNext \/ UNCHANGED diskVars)
    => DiskRest'
<1>1. ASSUME DiskRest, UNCHANGED diskVars PROVE DiskRest'
  BY <1>1 DEF diskVars, DiskRest, Samples2
<1>2. QED BY <1>1, DiskRestNode, DiskRestAsker DEF DiskNext

-------------------------------------------------------------------------------
(* Processes.                                                              *)

USE ProcessAssumption

Places  == {"idle", "total", "scan", "stat", "save", "countDir", "count", "rootAgain"}
Entries == [named : Procs, proc : Procs, whole : BOOLEAN]
Samples == [at : 0..(MaxClock + 1), of : SUBSET Entries]

WorldType ==
    /\ clock \in 0..MaxClock /\ alive \subseteq Procs
    /\ root \in {0, 1} /\ ns \in {0, 1} /\ cache \in Samples
ScanType ==
    /\ spc \in [Scanners -> Places] /\ kind \in [Scanners -> {"perf", "count"}]
    /\ old \in [Scanners -> Samples] /\ new \in [Scanners -> Samples]
    /\ second \in [Scanners -> BOOLEAN]
    /\ todo \in [Scanners -> SUBSET Nat] /\ cur \in [Scanners -> Procs]
    /\ outcome \in [Scanners -> {"none", "200", "500", "503", "aborted"}]
CountType ==
    /\ seen \in [Scanners -> SUBSET Procs] /\ firstRoot \in [Scanners -> {0, 1}]
    /\ during \in [Scanners -> SUBSET Procs] /\ ever \in [Scanners -> SUBSET Procs]
    /\ swapped \in [Scanners -> BOOLEAN]
ProcTypes == WorldType /\ ScanType /\ CountType

LEMMA NoSampleType == NoSample \in Samples
BY DEF NoSample, Samples

(* What the files of the node's procfs are about are processes there are.  *)
LEMMA VisibleType ==
    ASSUME WorldType
    PROVE  /\ Visible \subseteq Procs /\ \A n : InPid(n) \subseteq Procs
           /\ {p.pid : p \in Visible} \subseteq Nat
           /\ \A S : Counted(S) \subseteq S
BY DEF WorldType, Visible, InPid, Counted

LEMMA ProcStartTypes ==
    ASSUME NEW n, NEW there \in SUBSET Procs, NEW some, ProcStart(n, there, some)
    PROVE  ProcTypes
<1>1. WorldType BY NoSampleType DEF ProcStart, WorldType
<1>2. ScanType BY NoSampleType DEF ProcStart, ScanType, Places
<1>3. CountType BY DEF ProcStart, CountType
<1>4. QED BY <1>1, <1>2, <1>3 DEF ProcTypes

LEMMA NotedType ==
    ASSUME ProcTypes, Noted, alive' \subseteq Procs
    PROVE  during' \in [Scanners -> SUBSET Procs] /\ ever' \in [Scanners -> SUBSET Procs]
BY DEF Noted, ProcTypes, CountType, Visible

(* The steps of the node leave the scanners where they are.                *)
LEMMA WorldStepTypes ==
    ASSUME ProcTypes,
           \/ Ticks \/ ProcReplaced \/ \E p \in Procs : ProcessStarts(p) \/ ProcessEnds(p)
    PROVE  ProcTypes'
<1>1. CASE Ticks
  <2>1. clock' \in 0..MaxClock BY <1>1 DEF Ticks, ProcTypes, WorldType
  <2>2. QED
    BY <1>1, <2>1 DEF Ticks, ProcTypes, WorldType, ScanType, CountType, scanVars, noteVars
<1>2. CASE ProcReplaced
  <2>1. root' \in {0, 1} /\ ns' \in {0, 1} BY <1>2 DEF ProcReplaced, ProcTypes, WorldType
  <2>2. WorldType' /\ ScanType'
    BY <1>2, <2>1 DEF ProcReplaced, ProcTypes, WorldType, ScanType, scanVars
  <2>3. swapped' \in [Scanners -> BOOLEAN]
    BY <1>2 DEF ProcReplaced, ProcTypes, CountType, Counts
  <2>4. CountType'
    BY <1>2, <2>2, <2>3, NotedType DEF ProcReplaced, ProcTypes, WorldType, CountType, scanVars
  <2>5. QED BY <2>2, <2>4 DEF ProcTypes
<1>3. ASSUME NEW p \in Procs, ProcessStarts(p) \/ ProcessEnds(p) PROVE ProcTypes'
  <2>1. alive' \subseteq Procs BY <1>3 DEF ProcessStarts, ProcessEnds, ProcTypes, WorldType
  <2>2. WorldType' /\ ScanType'
    BY <1>3, <2>1 DEF ProcessStarts, ProcessEnds, ProcTypes, WorldType, ScanType, scanVars
  <2>3. CountType'
    BY <1>3, <2>1, NotedType DEF ProcessStarts, ProcessEnds, ProcTypes, CountType, scanVars
  <2>4. QED BY <2>2, <2>3 DEF ProcTypes
<1>4. QED BY <1>1, <1>2, <1>3

(* A measurement: its steps leave the node and the counts alone.           *)
LEMMA EntryAdded ==
    ASSUME NEW x \in Samples, NEW e \in Entries
    PROVE  [x EXCEPT !.of = x.of \cup {e}] \in Samples
<1>1. x.of \cup {e} \in SUBSET Entries BY DEF Samples
<1>2. QED BY <1>1 DEF Samples

LEMMA PerfStepTypes ==
    ASSUME ProcTypes, NEW s \in Scanners,
           \/ Load(s) \/ ReadTotal(s) \/ ReadProcessStatus(s)
           \/ ReadStat(s) \/ SaveAndCompare(s)
    PROVE  ProcTypes'
<1>1. WorldType'
  BY DEF Load, ReadTotal, ReadProcessStatus, ReadStat, SaveAndCompare, Calm, worldVars,
     ProcTypes, WorldType, ScanType
<1>2. CountType'
  BY DEF Load, Starts, ReadTotal, ReadProcessStatus, ReadStat, SaveAndCompare, noteVars,
     ProcTypes, CountType
<1>3. ScanType'
  <2>1. CASE Load(s)
    BY <2>1, NoSampleType DEF Load, Starts, Go, ProcTypes, WorldType, ScanType, Places
  <2>2. CASE ReadTotal(s)
    <3>1. [at |-> clock, of |-> {}] \in Samples
      BY DEF ProcTypes, WorldType, Samples
    <3>2. new' \in [Scanners -> Samples]
      BY <2>2, <3>1 DEF ReadTotal, ProcTypes, ScanType
    <3>3. todo' \in [Scanners -> SUBSET Nat]
      BY <2>2, VisibleType DEF ReadTotal, ProcTypes, ScanType
    <3>4. spc' \in [Scanners -> Places]
          /\ outcome' \in [Scanners -> {"none", "200", "500", "503", "aborted"}]
      BY <2>2 DEF ReadTotal, Go, End, ProcTypes, ScanType, Places
    <3>5. UNCHANGED <<kind, old, second, cur>> BY <2>2 DEF ReadTotal
    <3>6. QED BY <3>2, <3>3, <3>4, <3>5 DEF ProcTypes, ScanType
  <2>3. CASE ReadProcessStatus(s)
    BY <2>3, VisibleType DEF ReadProcessStatus, Go, ProcTypes, ScanType, Places
  <2>4. CASE ReadStat(s)
    <3> DEFINE now == InPid(cur[s].pid)
               proc == IF now = {} THEN cur[s] ELSE CHOOSE p \in now : TRUE
               e == [named |-> cur[s], whole |-> now # {}, proc |-> proc]
    <3>0. proc \in Procs /\ cur[s] \in Procs
      BY VisibleType DEF ProcTypes, ScanType
    <3>1. new' = [new EXCEPT ![s].of = @ \cup {e}] /\ e \in Entries
      BY <2>4, <3>0 DEF ReadStat, Entries
    <3> HIDE DEF e
    <3>2. [new[s] EXCEPT !.of = new[s].of \cup {e}] \in Samples
      BY <3>1, EntryAdded DEF ProcTypes, ScanType
    <3>3. new' = [new EXCEPT ![s] = [new[s] EXCEPT !.of = new[s].of \cup {e}]]
      BY <3>1
    <3>5. new' \in [Scanners -> Samples] BY <3>2, <3>3 DEF ProcTypes, ScanType
    <3>4. QED BY <2>4, <3>5 DEF ReadStat, Go, ProcTypes, ScanType, Places
  <2>5. CASE SaveAndCompare(s)
    <3>1. new' \in [Scanners -> Samples] /\ old' \in [Scanners -> Samples]
      BY <2>5, NoSampleType DEF SaveAndCompare, ProcTypes, ScanType
    <3>2. CASE second[s] \/ Compared(old[s], new[s]) # {}
      <4>1. \E how \in {"200", "500"} : End(s, how)
        BY <2>5, <3>2 DEF SaveAndCompare, Answer
      <4>2. QED
        BY <2>5, <3>1, <3>2, <4>1 DEF SaveAndCompare, End, Go, ProcTypes, ScanType, Places
    <3>3. CASE ~(second[s] \/ Compared(old[s], new[s]) # {})
      BY <2>5, <3>1, <3>3 DEF SaveAndCompare, Go, ProcTypes, ScanType, Places
    <3>4. QED BY <3>2, <3>3
  <2>6. QED BY <2>1, <2>2, <2>3, <2>4, <2>5
<1>4. QED BY <1>1, <1>2, <1>3 DEF ProcTypes

LEMMA CountStepTypes ==
    ASSUME ProcTypes, NEW s \in Scanners,
           CountStarts(s) \/ CountDir(s) \/ CountStatus(s) \/ RootAgain(s)
    PROVE  ProcTypes'
<1>1. WorldType'
  BY DEF CountStarts, CountDir, CountStatus, RootAgain, Calm, worldVars, ProcTypes, WorldType
<1>2. CountType'
  <2>1. CASE CountStarts(s)
    BY <2>1, VisibleType DEF CountStarts, Starts, ProcTypes, WorldType, CountType
  <2>2. CASE CountDir(s) BY <2>2 DEF CountDir, noteVars, ProcTypes, CountType
  <2>3. CASE CountStatus(s)
    <3>1. seen[s] \cup Counted(InPid(MinPid(todo[s]))) \in SUBSET Procs
      BY VisibleType DEF ProcTypes, CountType
    <3>2. QED BY <2>3, <3>1 DEF CountStatus, noteVars, ProcTypes, CountType
  <2>4. CASE RootAgain(s) BY <2>4 DEF RootAgain, noteVars, ProcTypes, CountType
  <2>5. QED BY <2>1, <2>2, <2>3, <2>4
<1>3. ScanType'
  <2>1. CASE CountStarts(s) BY <2>1 DEF CountStarts, Starts, Go, ProcTypes, ScanType, Places
  <2>2. CASE CountDir(s)
    BY <2>2, VisibleType DEF CountDir, Go, ProcTypes, ScanType, Places
  <2>3. CASE CountStatus(s) BY <2>3 DEF CountStatus, End, Go, ProcTypes, ScanType, Places
  <2>4. CASE RootAgain(s) BY <2>4 DEF RootAgain, End, Go, ProcTypes, ScanType, Places
  <2>5. QED BY <2>1, <2>2, <2>3, <2>4
<1>4. QED BY <1>1, <1>2, <1>3 DEF ProcTypes

-----------------------------------------------------------------------------
(* NodeHelper's steps, seen from here: one of ProcNext, or none.           *)

LEMMA ProcInitially == Init => \E f \in {"perf", "count"} : \E n, some :
                        ProcStart(n, {}, some) \/ ProcStart(n, AtStart[f], some)
BY DEF Init, IdleProc

LEMMA ProcSteps == [Next]_helperVars => ProcNext \/ UNCHANGED procVars
BY DEF Next, helperVars

LEMMA ProcTypesStep == ProcTypes /\ (ProcNext \/ UNCHANGED procVars) => ProcTypes'
<1>1. ASSUME ProcTypes, UNCHANGED procVars PROVE ProcTypes'
  BY <1>1 DEF procVars, worldVars, scanVars, noteVars, ProcTypes, WorldType, ScanType,
     CountType
<1>2. QED BY <1>1, WorldStepTypes, PerfStepTypes, CountStepTypes DEF ProcNext

-----------------------------------------------------------------------------
(* Counts.  What is under way for s: who was there throughout is still     *)
(* there, and is counted or has its PID yet to be read; who is counted was *)
(* there; and a procfs that was replaced has another root than the one the *)
(* count began with.                                                       *)

FiniteWorld == IsFiniteSet(alive) /\ \A s \in Scanners : IsFiniteSet(ever[s])

UnderWay(s) ==
    /\ kind[s] = "count" /\ outcome[s] = "none"
    /\ during[s] \subseteq Visible /\ Visible \subseteq ever[s]
    /\ firstRoot[s] <= root /\ (swapped[s] => firstRoot[s] < root)
    /\ spc[s] = "count" =>
         \A p \in Counted(during[s]) : p \in seen[s] \/ p.pid \in todo[s]
    /\ spc[s] = "rootAgain" => Counted(during[s]) \subseteq seen[s]
CountInv(s) ==
    /\ seen[s] \subseteq ever[s]
    /\ Counts(s) => UnderWay(s)
    /\ spc[s] \notin {"idle", "countDir", "count", "rootAgain"} => kind[s] = "perf"
    /\ (kind[s] = "count" /\ outcome[s] = "200" /\ spc[s] = "idle") =>
         ~swapped[s] /\ Counted(during[s]) \subseteq seen[s]
CountsInv == FiniteWorld /\ \A s \in Scanners : CountInv(s)

LEMMA CountedMonotonic ==
    ASSUME NEW S, NEW T, S \subseteq T, IsFiniteSet(T)
    PROVE  Cardinality(Counted(S)) <= Cardinality(Counted(T))
<1>1. Counted(S) \subseteq Counted(T) /\ Counted(T) \subseteq T BY DEF Counted
<1>2. QED BY <1>1, FS_Subset

LEMMA CountsInvIsBracketed == CountsInv /\ ProcTypes => CountsBracketed
<1> SUFFICES ASSUME CountsInv, ProcTypes, NEW s \in Scanners,
                    kind[s] = "count", outcome[s] = "200"
             PROVE  /\ ~swapped[s] /\ seen[s] \subseteq ever[s]
                    /\ Cardinality(Counted(seen[s])) <= Cardinality(Counted(ever[s]))
                    /\ Cardinality(Counted(during[s])) <= Cardinality(Counted(seen[s]))
    BY DEF CountsBracketed
<1>1. spc[s] = "idle"
  BY DEF CountsInv, CountInv, UnderWay, Counts, ProcTypes, ScanType, Places
<1>2. ~swapped[s] /\ seen[s] \subseteq ever[s] /\ Counted(during[s]) \subseteq seen[s]
  BY <1>1 DEF CountsInv, CountInv
<1>3. IsFiniteSet(ever[s]) /\ IsFiniteSet(seen[s])
  BY <1>2, FS_Subset DEF CountsInv, FiniteWorld
<1>4. Counted(Counted(during[s])) = Counted(during[s]) BY DEF Counted
<1>5. QED BY <1>2, <1>3, <1>4, CountedMonotonic

LEMMA StartCounts ==
    ASSUME NEW n, NEW there, IsFiniteSet(there), NEW some, ProcStart(n, there, some)
    PROVE  CountsInv
<1>1. FiniteWorld
  BY FS_AddElement, FS_EmptySet DEF ProcStart, FiniteWorld
<1>2. \A s \in Scanners : CountInv(s)
  BY DEF ProcStart, CountInv, Counts
<1>3. QED BY <1>1, <1>2 DEF CountsInv

(* A process that starts or ends, or another procfs, while counts are      *)
(* under way.                                                              *)
LEMMA NotedKeeps ==
    ASSUME ProcTypes, CountsInv, Noted, UNCHANGED scanVars,
           IsFiniteSet(alive'), root \in {0, 1}, root' \in {0, 1}, root <= root',
           \/ UNCHANGED swapped
           \/ root < root' /\ \A s \in Scanners : swapped'[s] = (swapped[s] \/ Counts(s))
    PROVE  CountsInv'
<1>1. IsFiniteSet(Visible') BY FS_Subset DEF Visible
<1>2. ASSUME NEW s \in Scanners PROVE IsFiniteSet(ever'[s])
  <2>1. ever'[s] = ever[s] \/ ever'[s] = ever[s] \cup Visible' BY DEF Noted
  <2>2. IsFiniteSet(ever[s]) BY DEF CountsInv, FiniteWorld
  <2>3. IsFiniteSet(ever[s] \cup Visible') BY <1>1, <2>2, FS_Union
  <2>4. QED BY <2>1, <2>2, <2>3
<1>3. ASSUME NEW s \in Scanners, Counts(s) PROVE CountInv(s)'
  <2>1. CountInv(s) /\ UnderWay(s) /\ Counts(s)'
    BY <1>3 DEF CountsInv, CountInv, Counts, scanVars
  <2>2. /\ during'[s] = during[s] \cap Visible' /\ ever'[s] = ever[s] \cup Visible'
    BY <1>3 DEF Noted
  <2>3. Counted(during'[s]) \subseteq Counted(during[s]) BY <2>2 DEF Counted
  <2>4. firstRoot'[s] <= root' /\ (swapped'[s] => firstRoot'[s] < root')
    BY <2>1 DEF UnderWay, ProcTypes, CountType, scanVars
  <2>5. UnderWay(s)' BY <2>1, <2>2, <2>3, <2>4 DEF UnderWay, scanVars
  <2>6. QED BY <2>1, <2>2, <2>5 DEF CountInv, scanVars, Counts
<1>4. ASSUME NEW s \in Scanners, ~Counts(s) PROVE CountInv(s)'
  <2>1. CountInv(s) /\ ~Counts(s)' /\ during'[s] = during[s] /\ ever'[s] = ever[s]
        /\ swapped'[s] = swapped[s]
    BY <1>4 DEF CountsInv, Counts, Noted, scanVars, ProcTypes, CountType
  <2>2. UNCHANGED <<seen[s], spc[s], kind[s], outcome[s]>> BY DEF scanVars
  <2>3. QED BY <1>4, <2>1, <2>2 DEF CountInv
<1>5. QED BY <1>2, <1>3, <1>4 DEF CountsInv, FiniteWorld

LEMMA WorldStepCounts ==
    ASSUME ProcTypes, CountsInv,
           \/ Ticks \/ ProcReplaced \/ \E p \in Procs : ProcessStarts(p) \/ ProcessEnds(p)
    PROVE  CountsInv'
<1>1. CASE Ticks
  BY <1>1 DEF Ticks, scanVars, noteVars, CountsInv, FiniteWorld, CountInv, UnderWay,
     Counts, Visible
<1>2. CASE ProcReplaced
  <2>1. Noted /\ UNCHANGED <<scanVars, alive>> /\ root = 0 /\ root' = 1
    BY <1>2 DEF ProcReplaced
  <2>2. \A s \in Scanners : swapped'[s] = (swapped[s] \/ Counts(s))
    BY <1>2 DEF ProcReplaced, ProcTypes, CountType
  <2>3. IsFiniteSet(alive') BY <2>1 DEF CountsInv, FiniteWorld
  <2>4. QED BY <2>1, <2>2, <2>3, NotedKeeps
<1>3. ASSUME NEW p \in Procs, ProcessStarts(p) PROVE CountsInv'
  <2>1. IsFiniteSet(alive') BY <1>3, FS_AddElement DEF ProcessStarts, CountsInv, FiniteWorld
  <2>2. Noted /\ UNCHANGED <<scanVars, root, swapped>> BY <1>3 DEF ProcessStarts
  <2>3. QED BY <2>1, <2>2, NotedKeeps DEF ProcTypes, WorldType
<1>4. ASSUME NEW p \in Procs, ProcessEnds(p) PROVE CountsInv'
  <2>1. IsFiniteSet(alive')
    BY <1>4, FS_Subset DEF ProcessEnds, CountsInv, FiniteWorld
  <2>2. Noted /\ UNCHANGED <<scanVars, root, swapped>> BY <1>4 DEF ProcessEnds
  <2>3. QED BY <2>1, <2>2, NotedKeeps DEF ProcTypes, WorldType
<1>5. QED BY <1>1, <1>2, <1>3, <1>4

(* A scanner's step does not touch what the others have.                   *)
LEMMA OthersKeep ==
    ASSUME CountsInv, NEW s \in Scanners,
           UNCHANGED <<alive, root, ns>>,
           \A t \in Scanners \ {s} :
              /\ UNCHANGED <<spc[t], kind[t], outcome[t], seen[t], todo[t], firstRoot[t]>>
              /\ UNCHANGED <<during[t], ever[t], swapped[t]>>,
           CountInv(s)', IsFiniteSet(ever'[s])
    PROVE  CountsInv'
<1>1. \A t \in Scanners \ {s} : CountInv(t)'
  BY DEF CountsInv, CountInv, UnderWay, Counts, Visible
<1>2. QED BY <1>1 DEF CountsInv, FiniteWorld

LEMMA PerfStepCounts ==
    ASSUME ProcTypes, CountsInv, NEW s \in Scanners,
           \/ Load(s) \/ ReadTotal(s) \/ ReadProcessStatus(s)
           \/ ReadStat(s) \/ SaveAndCompare(s)
    PROVE  CountsInv'
<1> USE DEF ProcTypes, ScanType, CountType, Places
<1>1. UNCHANGED <<alive, root, ns, during, ever, swapped, firstRoot>>
  BY DEF Load, ReadTotal, ReadProcessStatus, ReadStat, SaveAndCompare, Calm, worldVars,
     noteVars
<1>2. \A t \in Scanners \ {s} :
        UNCHANGED <<spc[t], kind[t], outcome[t], seen[t], todo[t]>>
  <2>1. CASE Load(s) BY <2>1 DEF Load, Starts, Go
  <2>2. CASE ReadTotal(s) BY <2>2 DEF ReadTotal, Go, End
  <2>3. CASE ReadProcessStatus(s) BY <2>3 DEF ReadProcessStatus, Go
  <2>4. CASE ReadStat(s) BY <2>4 DEF ReadStat, Go
  <2>5. CASE SaveAndCompare(s) BY <2>5 DEF SaveAndCompare, Answer, End, Go
  <2>6. QED BY <2>1, <2>2, <2>3, <2>4, <2>5
<1>3. kind'[s] = "perf" /\ (seen'[s] = seen[s] \/ seen'[s] = {}) /\ ~Counts(s)'
  <2> USE DEF CountsInv, CountInv, Counts
  <2>1. CASE Load(s) BY <2>1 DEF Load, Starts, Go
  <2>2. CASE ReadTotal(s) BY <2>2 DEF ReadTotal, Go, End
  <2>3. CASE ReadProcessStatus(s) BY <2>3 DEF ReadProcessStatus, Go
  <2>4. CASE ReadStat(s) BY <2>4 DEF ReadStat, Go
  <2>5. CASE SaveAndCompare(s) BY <2>5 DEF SaveAndCompare, Answer, End, Go
  <2>6. QED BY <2>1, <2>2, <2>3, <2>4, <2>5
<1>4. CountInv(s)' BY <1>1, <1>3 DEF CountsInv, CountInv
<1>5. IsFiniteSet(ever'[s]) BY <1>1 DEF CountsInv, FiniteWorld
<1>6. QED BY <1>1, <1>2, <1>4, <1>5, OthersKeep

LEMMA CountStepCounts ==
    ASSUME ProcTypes, CountsInv, NEW s \in Scanners,
           CountStarts(s) \/ CountDir(s) \/ CountStatus(s) \/ RootAgain(s)
    PROVE  CountsInv'
<1> USE DEF ProcTypes, ScanType, CountType, Places
<1>1. UNCHANGED <<alive, root, ns>>
  BY DEF CountStarts, CountDir, CountStatus, RootAgain, Calm, worldVars
<1>2. \A t \in Scanners \ {s} :
        /\ UNCHANGED <<spc[t], kind[t], outcome[t], seen[t], todo[t], firstRoot[t]>>
        /\ UNCHANGED <<during[t], ever[t], swapped[t]>>
  <2>1. CASE CountStarts(s) BY <2>1 DEF CountStarts, Starts, Go
  <2>2. CASE CountDir(s) BY <2>2 DEF CountDir, Go, noteVars
  <2>3. CASE CountStatus(s) BY <2>3 DEF CountStatus, Go, End, noteVars
  <2>4. CASE RootAgain(s) BY <2>4 DEF RootAgain, Go, End, noteVars
  <2>5. QED BY <2>1, <2>2, <2>3, <2>4
<1>3. CountInv(s)' /\ IsFiniteSet(ever'[s])
  <2>1. CASE CountStarts(s)
    <3>1. /\ during'[s] = Visible /\ ever'[s] = Visible /\ seen'[s] = {}
          /\ swapped'[s] = FALSE /\ firstRoot'[s] = root /\ spc'[s] = "countDir"
          /\ kind'[s] = "count" /\ outcome'[s] = "none" /\ Visible' = Visible
      BY <2>1 DEF CountStarts, Starts, Go, worldVars, Visible
    <3>2. UnderWay(s)' BY <3>1, <1>1 DEF UnderWay, WorldType
    <3>3. IsFiniteSet(Visible) BY FS_Subset DEF Visible, CountsInv, FiniteWorld
    <3>4. QED BY <3>1, <3>2, <3>3 DEF CountInv
  <2>2. CASE CountDir(s)
    <3>1. /\ UNCHANGED <<during[s], ever[s], seen[s], swapped[s], firstRoot[s], kind[s],
                         outcome[s], Visible>>
          /\ todo'[s] = {p.pid : p \in Visible} /\ spc[s] = "countDir"
          /\ spc'[s] = "count"
      BY <1>1, <2>2 DEF CountDir, Go, noteVars, Visible
    <3>2. UnderWay(s) BY <3>1 DEF CountsInv, CountInv, Counts
    <3>3. \A p \in Counted(during[s]) : p.pid \in todo'[s]
      BY <3>1, <3>2 DEF UnderWay, Counted
    <3>4. UnderWay(s)' BY <1>1, <3>1, <3>2, <3>3 DEF UnderWay
    <3>5. QED BY <3>1, <3>4 DEF CountsInv, FiniteWorld, CountInv
  <2>3. CASE CountStatus(s)
    <3> DEFINE n == MinPid(todo[s])
               found == Counted(InPid(n))
    <3>1. /\ UNCHANGED <<during[s], ever[s], swapped[s], firstRoot[s], kind[s], Visible>>
          /\ spc[s] = "count"
      BY <1>1, <2>3 DEF CountStatus, noteVars, Visible
    <3>2. UnderWay(s) /\ CountInv(s) BY <3>1 DEF CountsInv, CountInv, Counts
    <3>3. CASE /\ todo'[s] = todo[s] \ {n} /\ seen'[s] = seen[s] \cup found
               /\ UNCHANGED <<spc[s], outcome[s]>>
      <4>1. found \subseteq Visible BY DEF Counted, InPid
      <4>2. \A p \in Counted(during[s]) : p.pid = n => p \in found
        BY <3>2 DEF UnderWay, Counted, InPid
      <4>3. \A p \in Counted(during[s]) : p \in seen'[s] \/ p.pid \in todo'[s]
        BY <3>1, <3>2, <3>3, <4>2 DEF UnderWay
      <4>4. seen'[s] \subseteq ever'[s]
        BY <3>1, <3>2, <3>3, <4>1 DEF UnderWay, CountInv
      <4>5. UnderWay(s)' BY <1>1, <3>1, <3>2, <3>3, <4>3 DEF UnderWay
      <4>6. QED BY <3>1, <3>3, <4>4, <4>5 DEF CountsInv, FiniteWorld, CountInv
    <3>4. CASE /\ UNCHANGED <<todo[s], seen[s]>>
               /\ spc'[s] = "idle" /\ outcome'[s] = "503"
      BY <3>1, <3>2, <3>4 DEF CountsInv, FiniteWorld, CountInv, Counts
    <3>5. CASE /\ todo[s] = {} /\ UNCHANGED <<todo[s], seen[s], outcome[s]>>
               /\ spc'[s] = "rootAgain"
      <4>1. UnderWay(s)' BY <1>1, <3>1, <3>2, <3>5 DEF UnderWay
      <4>2. QED BY <3>1, <3>2, <3>5, <4>1 DEF CountsInv, FiniteWorld, CountInv
    <3>6. QED BY <2>3, <3>3, <3>4, <3>5 DEF CountStatus, Go, End
  <2>4. CASE RootAgain(s)
    <3>1. /\ UNCHANGED <<during[s], ever[s], seen[s], swapped[s], firstRoot[s], kind[s]>>
          /\ spc[s] = "rootAgain" /\ spc'[s] = "idle"
          /\ outcome'[s] = "200" => root = firstRoot[s]
      BY <2>4 DEF RootAgain, Go, End, noteVars
    <3>2. UnderWay(s) /\ CountInv(s) BY <3>1 DEF CountsInv, CountInv, Counts
    <3>3. outcome'[s] = "200" => ~swapped[s] /\ Counted(during[s]) \subseteq seen[s]
      BY <3>1, <3>2 DEF UnderWay, WorldType
    <3>4. QED BY <3>1, <3>2, <3>3 DEF CountsInv, FiniteWorld, CountInv, Counts
  <2>5. QED BY <2>1, <2>2, <2>3, <2>4
<1>4. QED BY <1>1, <1>2, <1>3, OthersKeep

LEMMA CountsStep == ProcTypes /\ CountsInv /\ (ProcNext \/ UNCHANGED procVars) => CountsInv'
<1>1. ASSUME CountsInv, UNCHANGED procVars PROVE CountsInv'
  BY <1>1 DEF procVars, worldVars, scanVars, noteVars, CountsInv, FiniteWorld, CountInv,
     UnderWay, Counts, Visible
<1>2. QED BY <1>1, WorldStepCounts, PerfStepCounts, CountStepCounts DEF ProcNext

LEMMA InitCounts == Init => ProcTypes /\ CountsInv
<1> SUFFICES ASSUME Init PROVE ProcTypes /\ CountsInv OBVIOUS
<1>0. PICK f \in {"perf", "count"} : \E n, some :
        ProcStart(n, {}, some) \/ ProcStart(n, AtStart[f], some)
  BY ProcInitially
<1>1. PICK n, some : ProcStart(n, {}, some) \/ ProcStart(n, AtStart[f], some)
  BY <1>0
<1>2. CASE ProcStart(n, {}, some) BY <1>2, ProcStartTypes, StartCounts, FS_EmptySet
<1>3. CASE ProcStart(n, AtStart[f], some)
  <2>1. AtStart[f] \in SUBSET Procs /\ IsFiniteSet(AtStart[f]) BY HelperAssumption
  <2>2. QED BY <1>3, <2>1, ProcStartTypes, StartCounts
<1>4. QED BY <1>1, <1>2, <1>3

(* CountsBracketed: a number that is answered lies between the processes   *)
(* that were there throughout and those that were there at some time, all  *)
(* of one procfs.                                                          *)
THEOREM CountsBracketedHolds == Spec => []CountsBracketed
<1>1. Init => ProcTypes /\ CountsInv BY InitCounts
<1>2. (ProcTypes /\ CountsInv) /\ [Next]_helperVars => (ProcTypes /\ CountsInv)'
  BY ProcSteps, ProcTypesStep, CountsStep
<1>3. QED BY <1>1, <1>2, CountsInvIsBracketed, PTL DEF Spec

-----------------------------------------------------------------------------
(* Ticks.  As long as nothing is excused, Steady is found under its PID by *)
(* every scan; every sample a request compares with holds it; and there is *)
(* a tick, at, from which the answers leave none out up to the sample that *)
(* is saved and up to each sample a request has loaded.                    *)

NodeInv ==
    /\ Steady \in alive
    /\ \A p, q \in alive : (p.pid = q.pid /\ p.ns = q.ns) => p = q

HasSteady(x) == \E e \in x.of : e.named.pid = Steady.pid /\ e.proc = Steady /\ e.whole
Saved(x) == x # NoSample => HasSteady(x) /\ x.at <= clock

Measures(s) ==
    /\ spc[s] # "save" /\ Saved(old[s])
    /\ spc[s] \in {"total", "scan", "stat"} /\ second[s] => old[s] # NoSample
    /\ spc[s] \in {"scan", "stat"} =>
         /\ HasSteady(new[s]) \/ Steady.pid \in todo[s]
         /\ new[s].at <= clock
         /\ old[s] # NoSample => old[s].at <= new[s].at

Nothing == cache = NoSample /\ covered = {} /\ \A s \in Scanners : old[s] = NoSample
Reached(at, x) == at <= x.at /\ at..(x.at - 1) \subseteq covered
From(at) ==
    /\ cache # NoSample /\ Reached(at, cache)
    /\ \A t \in covered : at <= t
    /\ \A s \in Scanners : old[s] # NoSample => Reached(at, old[s])

Steadily ==
    /\ root = 0 /\ ns = 0 /\ Saved(cache) /\ covered \subseteq Nat
    /\ \A s \in Scanners : Measures(s)
    /\ Nothing \/ \E at \in Nat : From(at)
TickInv == NodeInv /\ (~excused => Steadily)

LEMMA TickInvIsNoTickLost == TickInv /\ ProcTypes => NoTickLost
<1> SUFFICES ASSUME TickInv, ProcTypes, ~excused, NEW t \in 0..MaxClock, t < cache.at,
                    cache # NoSample, NEW u \in covered, u < t
             PROVE  t \in covered
    BY DEF NoTickLost
<1>1. PICK at \in Nat : From(at) BY DEF TickInv, Steadily, Nothing
<1>2. at <= u /\ u \in Nat BY <1>1 DEF From, TickInv, Steadily
<1>3. t \in at..(cache.at - 1) BY <1>2 DEF ProcTypes, WorldType, Samples
<1>4. QED BY <1>1, <1>3 DEF From, Reached

LEMMA StartTicks ==
    ASSUME NEW n, NEW some, NEW f \in {"perf", "count"},
           ProcStart(n, {}, some) \/ ProcStart(n, AtStart[f], some)
    PROVE  TickInv
<1>1. NodeInv BY HelperAssumption DEF ProcStart, NodeInv
<1>2. root = 0 /\ ns = 0 /\ Saved(cache) /\ covered \subseteq Nat /\ Nothing
  BY DEF ProcStart, Saved, Nothing
<1>3. \A s \in Scanners : Measures(s) BY DEF ProcStart, Measures, Saved
<1>4. QED BY <1>1, <1>2, <1>3 DEF TickInv, Steadily

LEMMA SteadyIsFound ==
    ASSUME NodeInv, ns = 0, ProcTypes
    PROVE  InPid(Steady.pid) = {Steady} /\ Counted({Steady}) = {Steady}
<1>1. Steady \in Visible BY DEF NodeInv, Visible
<1>2. InPid(Steady.pid) = {Steady} BY <1>1 DEF InPid, Visible, NodeInv
<1>3. QED BY <1>2 DEF Counted

(* Two samples that hold Steady are compared.                              *)
LEMMA SteadyIsCompared ==
    ASSUME NEW x, NEW y, HasSteady(x), HasSteady(y)
    PROVE  \E f \in Compared(x, y) : f.proc = Steady
<1>1. PICK e \in x.of : e.named.pid = Steady.pid /\ e.proc = Steady /\ e.whole
  BY DEF HasSteady
<1>2. PICK f \in y.of : f.named.pid = Steady.pid /\ f.proc = Steady /\ f.whole
  BY DEF HasSteady
<1>3. SameProcess(e, f) BY <1>1, <1>2 DEF SameProcess, Created
<1>4. QED BY <1>1, <1>2, <1>3 DEF Compared

LEMMA WorldStepTicks ==
    ASSUME ProcTypes, TickInv,
           \/ Ticks \/ ProcReplaced \/ \E p \in Procs : ProcessStarts(p) \/ ProcessEnds(p)
    PROVE  TickInv'
<1>1. NodeInv'
  BY DEF Ticks, ProcReplaced, ProcessStarts, ProcessEnds, TickInv, NodeInv
<1>2. CASE ~excused'
  <2>1. /\ UNCHANGED <<excused, root, ns, cache, covered, spc, old, new, second, todo>>
        /\ clock' \in {clock, clock + 1}
    BY <1>2 DEF Ticks, ProcReplaced, ProcessStarts, ProcessEnds, noteVars, scanVars
  <2>2. Steadily BY <1>2, <2>1 DEF TickInv
  <2>3. \A x \in Samples : Saved(x) => Saved(x)'
    BY <2>1 DEF Saved, HasSteady, ProcTypes, WorldType, Samples
  <2>4. Saved(cache)' BY <2>1, <2>2, <2>3 DEF Steadily, ProcTypes, WorldType, Saved, HasSteady
  <2>5. ASSUME NEW s \in Scanners PROVE Measures(s)'
    <3>1. Saved(old[s])'
      BY <2>1, <2>2, <2>3 DEF Steadily, Measures, ProcTypes, ScanType, Saved, HasSteady
    <3>2. new[s].at <= clock => new[s].at <= clock'
      BY <2>1 DEF ProcTypes, WorldType, ScanType, Samples
    <3>3. QED BY <2>1, <2>2, <3>1, <3>2 DEF Steadily, Measures, HasSteady
  <2>6. (Nothing \/ \E at \in Nat : From(at))'
    BY <2>1, <2>2 DEF Steadily, Nothing, From, Reached
  <2>7. QED BY <1>1, <2>1, <2>2, <2>4, <2>5, <2>6 DEF TickInv, Steadily
<1>3. QED BY <1>1, <1>2 DEF TickInv

(* A scanner's step leaves the others' measurements alone; and unless it   *)
(* saves or answers, and loads no other sample, what the answers cover.    *)
LEMMA MeasuresKept ==
    ASSUME Steadily, NEW s \in Scanners,
           UNCHANGED <<clock, root, ns, spc[s], old[s], new[s], second[s], todo[s]>>
    PROVE  Measures(s)'
BY DEF Steadily, Measures, Saved, HasSteady

LEMMA CoverKept ==
    ASSUME Steadily, UNCHANGED <<cache, covered, old>>
    PROVE  (Nothing \/ \E at \in Nat : From(at))'
BY DEF Steadily, Nothing, From, Reached

LEMMA CountStepTicks ==
    ASSUME ProcTypes, TickInv, NEW s \in Scanners,
           CountStarts(s) \/ CountDir(s) \/ CountStatus(s) \/ RootAgain(s)
    PROVE  TickInv'
<1> USE DEF ProcTypes, ScanType, Places
<1>1. UNCHANGED <<clock, alive, root, ns, cache, covered, excused, old, new>>
  BY DEF CountStarts, CountDir, CountStatus, RootAgain, Calm, worldVars, noteVars
<1>2. NodeInv' BY <1>1 DEF TickInv, NodeInv
<1>3. CASE ~excused
  <2>1. Steadily /\ Saved(cache)' BY <1>1, <1>3 DEF TickInv, Steadily, Saved, HasSteady
  <2>2. spc'[s] \notin {"total", "scan", "stat", "save"}
    BY DEF CountStarts, CountDir, CountStatus, RootAgain, Go, End
  <2>3. Measures(s)' BY <1>1, <2>1, <2>2 DEF Steadily, Measures, Saved, HasSteady
  <2>4. \A t \in Scanners \ {s} : UNCHANGED <<spc[t], second[t], todo[t]>>
    <3>1. CASE CountStarts(s) BY <3>1 DEF CountStarts, Starts, Go
    <3>2. CASE CountDir(s) BY <3>2 DEF CountDir, Go
    <3>3. CASE CountStatus(s) BY <3>3 DEF CountStatus, Go, End
    <3>4. CASE RootAgain(s) BY <3>4 DEF RootAgain, Go, End
    <3>5. QED BY <3>1, <3>2, <3>3, <3>4
  <2>5. \A t \in Scanners : Measures(t)' BY <1>1, <2>1, <2>3, <2>4, MeasuresKept
  <2>6. QED BY <1>1, <1>2, <2>1, <2>5, CoverKept DEF TickInv, Steadily
<1>4. QED BY <1>1, <1>2, <1>3 DEF TickInv

LEMMA OtherScanners ==
    ASSUME ProcTypes, NEW s \in Scanners,
           \/ Load(s) \/ ReadTotal(s) \/ ReadProcessStatus(s)
           \/ ReadStat(s) \/ SaveAndCompare(s)
    PROVE  \A t \in Scanners \ {s} :
             UNCHANGED <<spc[t], old[t], new[t], second[t], todo[t]>>
<1> USE DEF ProcTypes, ScanType
<1>1. CASE Load(s) BY <1>1 DEF Load, Starts, Go
<1>2. CASE ReadTotal(s) BY <1>2 DEF ReadTotal, Go, End
<1>3. CASE ReadProcessStatus(s) BY <1>3 DEF ReadProcessStatus, Go
<1>4. CASE ReadStat(s)
  <2>1. PICK e : new' = [new EXCEPT ![s].of = @ \cup {e}] BY <1>4 DEF ReadStat
  <2>2. \A t \in Scanners \ {s} : new'[t] = new[t] BY <2>1
  <2>3. QED BY <1>4, <2>2 DEF ReadStat, Go
<1>5. CASE SaveAndCompare(s) BY <1>5 DEF SaveAndCompare, Answer, End, Go
<1>6. QED BY <1>1, <1>2, <1>3, <1>4, <1>5

(* Load, and the three steps of the measurement, save nothing.             *)
LEMMA ScanStepTicks ==
    ASSUME ProcTypes, TickInv, ~excused', NEW s \in Scanners,
           Load(s) \/ ReadTotal(s) \/ ReadProcessStatus(s) \/ ReadStat(s)
    PROVE  TickInv'
<1> USE DEF ProcTypes, WorldType, ScanType, Places
<1>1. UNCHANGED <<clock, alive, root, ns, cache, covered>> /\ (excused => excused')
  BY DEF Load, ReadTotal, ReadProcessStatus, ReadStat, Calm, worldVars, noteVars
<1>2. NodeInv /\ Steadily BY <1>1 DEF TickInv
<1>3. NodeInv' /\ Saved(cache)'
  BY <1>1, <1>2 DEF NodeInv, Steadily, Saved, HasSteady
<1>4. InPid(Steady.pid) = {Steady} /\ Counted({Steady}) = {Steady}
  BY <1>2, SteadyIsFound DEF Steadily
<1>5. Measures(s) BY <1>2 DEF Steadily
<1>6. Measures(s)' /\ (old' = old \/ old' = [old EXCEPT ![s] = cache])
  <2>1. CASE Load(s)
    <3>1. old'[s] = cache /\ spc'[s] = "total" /\ second'[s] = FALSE
      BY <2>1 DEF Load, Starts, Go
    <3>2. QED BY <1>3, <2>1, <3>1 DEF Load, Measures, Saved, HasSteady
  <2>2. CASE ReadTotal(s)
    <3>1. /\ new' = [new EXCEPT ![s] = [at |-> clock, of |-> {}]]
          /\ spc' = [spc EXCEPT ![s] = "scan"] /\ UNCHANGED <<old, second>>
          /\ todo' = [todo EXCEPT ![s] = {p.pid : p \in Visible}]
          /\ spc[s] = "total"
      BY <2>2 DEF ReadTotal, Go
    <3>2. Steady.pid \in todo'[s] BY <1>4, <3>1 DEF InPid
    <3>3. QED BY <1>1, <1>5, <3>1, <3>2 DEF Measures, Saved, HasSteady, Samples
  <2>3. CASE ReadProcessStatus(s)
    <3>1. Steady.pid \in todo[s] => Steady.pid \in todo'[s]
      <4>1. CASE MinPid(todo[s]) = Steady.pid BY <1>4, <2>3, <4>1 DEF ReadProcessStatus
      <4>2. CASE MinPid(todo[s]) # Steady.pid BY <2>3, <4>2 DEF ReadProcessStatus
      <4>3. QED BY <4>1, <4>2
    <3>2. /\ UNCHANGED <<old, new, second>> /\ spc[s] = "scan"
          /\ spc'[s] \in {"scan", "stat"}
      BY <2>3 DEF ReadProcessStatus, Go
    <3>3. QED BY <1>1, <1>5, <3>1, <3>2 DEF Measures, Saved, HasSteady
  <2>4. CASE ReadStat(s)
    <3> DEFINE now == InPid(cur[s].pid)
               e == [named |-> cur[s], whole |-> now # {},
                     proc |-> IF now = {} THEN cur[s] ELSE CHOOSE p \in now : TRUE]
    <3>1. /\ new' = [new EXCEPT ![s].of = @ \cup {e}]
          /\ todo' = [todo EXCEPT ![s] = @ \ {cur[s].pid}]
          /\ UNCHANGED <<old, second>> /\ spc[s] = "stat" /\ spc'[s] = "scan"
      BY <2>4 DEF ReadStat, Go
    <3>2. cur[s].pid = Steady.pid => e.named.pid = Steady.pid /\ e.proc = Steady /\ e.whole
      BY <1>4
    <3> HIDE DEF e, now
    <3>3. new'[s].of = new[s].of \cup {e} /\ new'[s].at = new[s].at
      BY <3>1 DEF Samples
    <3>4. HasSteady(new'[s]) \/ Steady.pid \in todo'[s]
      BY <1>5, <3>1, <3>2, <3>3 DEF Measures, HasSteady
    <3>5. QED BY <1>1, <1>5, <3>1, <3>3, <3>4 DEF Measures, Saved, HasSteady
  <2>5. QED BY <2>1, <2>2, <2>3, <2>4 DEF Load
<1>7. \A t \in Scanners : Measures(t)'
  BY <1>1, <1>2, <1>6, MeasuresKept, OtherScanners
<1>8. (Nothing \/ \E at \in Nat : From(at))'
  BY <1>1, <1>2, <1>6 DEF Steadily, Nothing, From, Reached
<1>9. QED BY <1>1, <1>2, <1>3, <1>7, <1>8 DEF TickInv, Steadily

(* The answer accounts for the interval between the two samples, which     *)
(* continues what is covered up to the first of them.                      *)
LEMMA AnswerReaches ==
    ASSUME ProcTypes, covered \subseteq Nat, NEW s \in Scanners, NEW x \in Samples,
           NEW y \in Samples, HasSteady(x), HasSteady(y), x.at <= y.at,
           Answer(s, x, y), NEW at \in Nat, Reached(at, x), \A t \in covered : at <= t
    PROVE  /\ covered \subseteq covered' /\ covered' \subseteq Nat
           /\ at <= y.at /\ at..(y.at - 1) \subseteq covered'
           /\ \A t \in covered' : at <= t
<1>1. \E f \in Compared(x, y) : f.proc = Steady BY SteadyIsCompared
<1>2. x.at \in Nat /\ y.at \in Nat BY DEF Samples
<1>3. CASE y.at # x.at
  <2>1. covered' = covered \cup x.at..(y.at - 1) BY <1>1, <1>3 DEF Answer
  <2>2. at..(y.at - 1) \subseteq at..(x.at - 1) \cup x.at..(y.at - 1) BY <1>2
  <2>3. \A t \in x.at..(y.at - 1) : t \in Nat /\ at <= t BY <1>2 DEF Reached
  <2>4. at..(y.at - 1) \subseteq covered' BY <2>1, <2>2 DEF Reached
  <2>5. at <= y.at BY <1>2 DEF Reached
  <2>6. QED BY <2>1, <2>3, <2>4, <2>5
<1>4. CASE y.at = x.at
  <2>1. covered' = covered BY <1>1, <1>4 DEF Answer
  <2>2. QED BY <1>4, <2>1 DEF Reached
<1>5. QED BY <1>3, <1>4

LEMMA SaveStepTicks ==
    ASSUME ProcTypes, TickInv, ~excused', NEW s \in Scanners, SaveAndCompare(s)
    PROVE  TickInv'
<1> USE DEF ProcTypes, WorldType, ScanType, Places
<1>1. UNCHANGED <<clock, alive, root, ns>> /\ ~excused
  BY DEF SaveAndCompare, worldVars
<1>2. NodeInv /\ Steadily /\ Measures(s) BY <1>1 DEF TickInv, Steadily
<1>3. NodeInv' BY <1>1, <1>2 DEF NodeInv
<1>4. /\ spc[s] = "scan" /\ HasSteady(new[s]) /\ new[s].at <= clock
      /\ old[s] # NoSample => HasSteady(old[s]) /\ old[s].at <= new[s].at
      /\ second[s] => old[s] # NoSample
      /\ ~second[s] /\ old[s] = NoSample => cache = NoSample
  BY <1>2 DEF SaveAndCompare, Measures, Saved
<1>5. new[s] \in Samples /\ old[s] \in Samples /\ new[s] # NoSample
  BY <1>4 DEF NoSample, Samples
<1>6. CASE old[s] # NoSample
  <2>1. \E f \in Compared(old[s], new[s]) : f.proc = Steady
    BY <1>4, <1>6, SteadyIsCompared
  <2>2. /\ Answer(s, old[s], new[s]) /\ second' = second
        /\ old' = [old EXCEPT ![s] = NoSample]
        /\ cache' = IF second[s] THEN cache ELSE new[s]
    BY <2>1 DEF SaveAndCompare
  <2>3. PICK at \in Nat : From(at) BY <1>2, <1>6 DEF Steadily, Nothing
  <2>4. /\ covered \subseteq covered' /\ covered' \subseteq Nat
        /\ at <= new[s].at /\ at..(new[s].at - 1) \subseteq covered'
        /\ \A t \in covered' : at <= t
    BY <1>2, <1>4, <1>5, <1>6, <2>2, <2>3, AnswerReaches DEF From, Steadily
  <2>5. /\ old'[s] = NoSample /\ spc'[s] = "idle"
        /\ cache' = cache \/ cache' = new[s]
    BY <2>2 DEF Answer, End, Go
  <2>6. Measures(s)' BY <2>5 DEF Measures, Saved
  <2>7. Saved(cache)' BY <1>1, <1>2, <1>4, <2>5 DEF Steadily, Saved, HasSteady
  <2>8. \A t \in Scanners : Measures(t)'
    BY <1>1, <1>2, <2>6, MeasuresKept, OtherScanners
  <2>9. From(at)'
    <3>1. Reached(at, cache)' BY <2>3, <2>4, <2>5 DEF From, Reached
    <3>2. cache' # NoSample BY <1>5, <2>3, <2>5 DEF From
    <3>3. \A t \in Scanners : old'[t] # NoSample => old'[t] = old[t]
      BY <2>2
    <3>4. \A t \in Scanners : old'[t] # NoSample => Reached(at, old[t])'
      BY <2>3, <2>4, <3>3 DEF From, Reached
    <3>5. QED BY <2>4, <3>1, <3>2, <3>4 DEF From
  <2>10. QED BY <1>1, <1>2, <1>3, <2>4, <2>7, <2>8, <2>9 DEF TickInv, Steadily
<1>7. CASE old[s] = NoSample
  <2>1. Compared(old[s], new[s]) = {} BY <1>7 DEF Compared, NoSample
  <2>2. /\ ~second[s] /\ cache = NoSample /\ cache' = new[s] /\ covered' = covered
        /\ old' = [old EXCEPT ![s] = new[s]] /\ spc'[s] = "total"
    BY <1>4, <1>7, <2>1 DEF SaveAndCompare, Go
  <2>3. Nothing BY <1>2, <2>2 DEF Steadily, From
  <2>4. Saved(cache)' /\ Measures(s)'
    BY <1>1, <1>4, <1>5, <2>2 DEF Measures, Saved, HasSteady
  <2>5. \A t \in Scanners : Measures(t)'
    BY <1>1, <1>2, <2>4, MeasuresKept, OtherScanners
  <2>6. PICK at \in Nat : at = new[s].at BY <1>5 DEF Samples
  <2>7. From(at)'
    <3>1. \A t \in Scanners : old'[t] # NoSample => old'[t] = new[s]
      BY <2>2, <2>3 DEF Nothing
    <3>2. covered' = {} BY <2>2, <2>3 DEF Nothing
    <3>3. at..(at - 1) = {} BY <2>6
    <3>4. Reached(at, cache)' BY <2>2, <2>6, <3>3 DEF Reached
    <3>5. \A t \in Scanners : old'[t] # NoSample => Reached(at, old[t])'
      BY <2>6, <3>1, <3>3 DEF Reached
    <3>6. QED BY <1>5, <2>2, <3>2, <3>4, <3>5 DEF From
  <2>8. QED BY <1>1, <1>2, <1>3, <2>2, <2>4, <2>5, <2>6, <2>7 DEF TickInv, Steadily
<1>8. QED BY <1>6, <1>7

LEMMA TicksStep == ProcTypes /\ TickInv /\ (ProcNext \/ UNCHANGED procVars) => TickInv'
<1> SUFFICES ASSUME ProcTypes, TickInv, ProcNext \/ UNCHANGED procVars PROVE TickInv'
    OBVIOUS
<1>1. CASE UNCHANGED procVars
  BY <1>1 DEF procVars, worldVars, scanVars, noteVars, TickInv, NodeInv, Steadily,
     Measures, Saved, HasSteady, Nothing, From, Reached
<1>2. ASSUME NEW s \in Scanners,
             Load(s) \/ ReadTotal(s) \/ ReadProcessStatus(s) \/ ReadStat(s)
                     \/ SaveAndCompare(s)
      PROVE  TickInv'
  <2>1. CASE ~excused' BY <1>2, <2>1, ScanStepTicks, SaveStepTicks
  <2>2. alive' = alive
    BY <1>2 DEF Load, ReadTotal, ReadProcessStatus, ReadStat, SaveAndCompare, Calm,
       worldVars
  <2>3. QED BY <2>1, <2>2 DEF TickInv, NodeInv
<1>3. QED BY <1>1, <1>2, WorldStepTicks, CountStepTicks DEF ProcNext

(* NoTickLost: the intervals that the answers account for leave no tick    *)
(* out up to the sample that is saved, however the requests overlap.       *)
THEOREM NoTickLostHolds == Spec => []NoTickLost
<1>1. Init => ProcTypes /\ TickInv
  <2> SUFFICES ASSUME Init PROVE ProcTypes /\ TickInv OBVIOUS
  <2>1. PICK f \in {"perf", "count"} : \E n, some :
          ProcStart(n, {}, some) \/ ProcStart(n, AtStart[f], some)
    BY ProcInitially
  <2>2. TickInv BY <2>1, StartTicks
  <2>3. QED BY <2>2, InitCounts
<1>2. (ProcTypes /\ TickInv) /\ [Next]_helperVars => (ProcTypes /\ TickInv)'
  BY ProcSteps, ProcTypesStep, TicksStep
<1>3. QED BY <1>1, <1>2, TickInvIsNoTickLost, PTL DEF Spec
-----------------------------------------------------------------------------
(* The rest of the type invariant: what else the node and the answers may  *)
(* hold.                                                                   *)

ProcRest ==
    /\ gone \subseteq Procs /\ changes \in 0..MaxChanges /\ broken \in 0..MaxBroken
    /\ covered \subseteq 0..MaxClock

LEMMA ProcTypesHold == ProcTypes /\ ProcRest => ProcTypeOK
<1> SUFFICES ASSUME ProcTypes, ProcRest PROVE ProcTypeOK OBVIOUS
<1>1. ASSUME NEW x \in Samples
      PROVE  /\ x.at \in 0..(MaxClock + 1)
             /\ \A e \in x.of : e.named \in Procs /\ e.proc \in Procs /\ e.whole \in BOOLEAN
  BY DEF Samples, Entries
<1>2. /\ clock \in 0..MaxClock /\ alive \subseteq Procs /\ root \in Nat /\ ns \in {0, 1}
      /\ cache \in Samples
  BY DEF ProcTypes, WorldType
<1>3. \A s \in Scanners :
        /\ spc[s] \in Places /\ old[s] \in Samples /\ new[s] \in Samples
        /\ outcome[s] \in {"none", "200", "500", "503", "aborted"}
  BY DEF ProcTypes, ScanType
<1>4. QED BY <1>1, <1>2, <1>3 DEF ProcRest, ProcTypeOK, Places

LEMMA ProcRestStarts ==
    ASSUME NEW n, NEW there, NEW some \in 0..MaxChanges, ProcStart(n, there, some)
    PROVE  ProcRest
BY DEF ProcStart, ProcRest

LEMMA ProcRestKept ==
    ProcTypes /\ ProcRest /\ (ProcNext \/ UNCHANGED procVars) => ProcRest'
<1> SUFFICES ASSUME ProcTypes, ProcRest, ProcNext \/ UNCHANGED procVars PROVE ProcRest'
    OBVIOUS
<1> USE DEF ProcRest
<1>1. CASE UNCHANGED procVars BY <1>1 DEF procVars, worldVars, noteVars
<1>2. CASE Ticks \/ ProcReplaced
  BY <1>2 DEF Ticks, ProcReplaced, noteVars
<1>3. ASSUME NEW p \in Procs, ProcessStarts(p) \/ ProcessEnds(p) PROVE ProcRest'
  <2>1. changes' \in 0..MaxChanges BY <1>3 DEF ProcessStarts, ProcessEnds
  <2>2. gone' \subseteq Procs /\ UNCHANGED <<broken, covered>>
    BY <1>3 DEF ProcessStarts, ProcessEnds
  <2>3. QED BY <2>1, <2>2
<1>4. ASSUME NEW s \in Scanners, SaveAndCompare(s) PROVE ProcRest'
  <2>1. UNCHANGED <<gone, changes, broken>> BY <1>4 DEF SaveAndCompare, worldVars
  <2>2. covered' = covered \/ covered' = covered \cup old[s].at..(new[s].at - 1)
    BY <1>4 DEF SaveAndCompare, Answer
  <2>3. old[s].at \in 0..(MaxClock + 1) /\ new[s].at \in 0..(MaxClock + 1)
    BY DEF ProcTypes, ScanType, Samples
  <2>4. old[s].at..(new[s].at - 1) \subseteq 0..MaxClock BY <2>3
  <2>5. QED BY <2>1, <2>2, <2>4
<1>5. ASSUME NEW s \in Scanners, ReadTotal(s) \/ CountStatus(s) PROVE ProcRest'
  <2>1. UNCHANGED <<gone, changes, covered>>
    BY <1>5 DEF ReadTotal, CountStatus, Calm, noteVars
  <2>2. broken' = broken \/ Breaks BY <1>5 DEF ReadTotal, CountStatus
  <2>3. broken' \in 0..MaxBroken BY <2>2 DEF Breaks
  <2>4. QED BY <2>1, <2>3
<1>6. ASSUME NEW s \in Scanners,
             \/ Load(s) \/ ReadProcessStatus(s) \/ ReadStat(s)
             \/ CountStarts(s) \/ CountDir(s) \/ RootAgain(s)
      PROVE  ProcRest'
  BY <1>6 DEF Load, ReadProcessStatus, ReadStat, CountStarts, CountDir, RootAgain,
     worldVars, noteVars
<1>7. QED BY <1>1, <1>2, <1>3, <1>4, <1>5, <1>6 DEF ProcNext
-----------------------------------------------------------------------------
(***************************************************************************)
(* The whole server: its three families of requests keep their types side  *)
(* by side, each by the invariant its own proofs rest on and by what the   *)
(* rest of its type needs.                                                 *)
(***************************************************************************)
StatsInv == StatsTypes /\ StatsRest
ProcInv  == ProcTypes /\ ProcRest
DiskInv  == (DiskTypes /\ CacheInv /\ AnswerInv) /\ DiskRest
HelperInv == family \in Families /\ StatsInv /\ ProcInv /\ DiskInv

LEMMA HelperTypes == HelperInv => TypeOK
BY StatsTypesHold, ProcTypesHold, DiskTypesHold
   DEF HelperInv, StatsInv, ProcInv, DiskInv, AnswerInv, TypeOK

(* A family that is not asked is left at its start, which is one of those  *)
(* the others know: of some node, with no process but the steady one.      *)
LEMMA InitStats == Init => StatsInv
<1>1. SomeNode \in Nodes BY StatsAssumption, Zenon DEF SomeNode
<1>2. Init => \E n \in Nodes : StatsStart(n) BY <1>1 DEF Init, StatsInit, IdleStats
<1>3. QED BY <1>2, StatsStartTypes, StatsRestStarts DEF StatsInv

LEMMA InitProc == Init => ProcInv
<1> SUFFICES ASSUME Init PROVE ProcInv OBVIOUS
<1>1. {0, MaxChanges - 1, MaxChanges} \subseteq 0..MaxChanges
  BY ProcessAssumption, HelperAssumption
<1>2. PICK some \in 0..MaxChanges : \E n, there : ProcStart(n, there, some)
  BY <1>1 DEF Init, IdleProc
<1>3. QED BY <1>2, ProcRestStarts, InitCounts DEF ProcInv

LEMMA InitDisk == Init => DiskInv
<1> SUFFICES ASSUME Init PROVE DiskInv OBVIOUS
<1>1. MaxAsked \in [Askers -> Nat] BY DiskAssumption
<1>2. /\ [a \in Askers |-> 0] \in [Askers -> Nat]
      /\ \A a \in Askers : 0 <= MaxAsked[a] /\ MaxAsked[a] <= MaxAsked[a]
  BY <1>1
<1>3. PICK n \in [Askers -> Nat], nfs \in BOOLEAN, cached \in BOOLEAN :
        DiskStart(n, nfs, cached) /\ \A a \in Askers : n[a] <= MaxAsked[a]
  <2>1. CASE IdleDisk BY <1>1, <1>2, <2>1 DEF IdleDisk
  <2>2. CASE \E nfs, on \in BOOLEAN : DiskStart([a \in Askers |-> 0], nfs, on)
    BY <1>2, <2>2
  <2>3. QED BY <2>1, <2>2 DEF Init
<1>4. DiskRest BY <1>3, DiskRestStarts
<1>5. QED BY <1>4, InitAnswers DEF DiskInv

LEMMA HelperInvStep == HelperInv /\ [Next]_helperVars => HelperInv'
<1> SUFFICES ASSUME HelperInv, [Next]_helperVars PROVE HelperInv' OBVIOUS
<1> USE DEF HelperInv
<1>1. StatsInv' BY StatsSteps, StatsTypesStep, StatsRestKept DEF StatsInv
<1>2. ProcInv' BY ProcSteps, ProcTypesStep, ProcRestKept DEF ProcInv
<1>3. DiskInv' BY DiskSteps, AnswersStep, DiskRestKept DEF DiskInv, AnswerInv
<1>4. family' = family BY DEF Next, helperVars
<1>5. QED BY <1>1, <1>2, <1>3, <1>4

(* TypeOK: whatever containers, processes, mounts, reloads and failing     *)
(* calls do, the server's caches, samples and answers hold what their      *)
(* types say; the bounds on the environment are kept.                      *)
THEOREM TypeCorrect == Spec => []TypeOK
<1>1. Init => family \in Families BY DEF Init, Families
<1>2. Init => HelperInv BY <1>1, InitStats, InitProc, InitDisk DEF HelperInv
<1>3. QED BY <1>2, HelperInvStep, HelperTypes, PTL DEF Spec
=============================================================================
