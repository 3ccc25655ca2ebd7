--------------------------- MODULE DiskCacheProofs ---------------------------
(* Theorems about the block cache, for any number of threads, keys, block    *)
(* offsets and versions.                                                     *)
EXTENDS DiskCache, WellFoundedInduction, FiniteSetTheorems, TLAPS

LEMMA ConstantTypes ==
    /\ 0 \in Versions
    /\ \A v \in Versions : BlockLen[v] \in Lens
    /\ Lens \subseteq Nat
    /\ \A k \in Keys, o \in Offsets, l \in Lens :
           [key |-> k, off |-> o, len |-> l] \in Blocks
    /\ WorkerIdle \in WorkerStates
<1>1. 0 \in Versions
  BY CacheAssumption DEF Versions
<1>2. \A v \in Versions : BlockLen[v] \in Lens
  BY DEF Lens
<1>3. Lens \subseteq Nat
  BY CacheAssumption DEF Lens
<1>4. (CHOOSE k \in Keys : TRUE) \in Keys /\ (CHOOSE o \in Offsets : TRUE) \in Offsets
  BY CacheAssumption
<1>5. QED
  BY <1>1, <1>2, <1>3, <1>4 DEF Blocks, WorkerIdle, WorkerStates, WorkerLabels

LEMMA NextVersion == \A v \in Versions : v < MaxVersion => v + 1 \in Versions
BY CacheAssumption DEF Versions

\* The updates of a worker, of a command and of a file keep their types.
LEMMA WorkerGoes ==
    ASSUME NEW f \in [Workers -> WorkerStates], NEW w \in Workers, NEW p \in WorkerLabels
    PROVE  [f EXCEPT ![w].pc = p] \in [Workers -> WorkerStates]
<1>1. [f[w] EXCEPT !.pc = p] \in WorkerStates
  BY DEF WorkerStates, WorkerLabels
<1>2. [f EXCEPT ![w] = [f[w] EXCEPT !.pc = p]] \in [Workers -> WorkerStates]
  BY <1>1
<1> QED
  BY <1>2

LEMMA WorkerDone ==
    ASSUME NEW f \in [Workers -> WorkerStates], NEW w \in Workers, NEW v \in Versions
    PROVE  [f EXCEPT ![w].pc = "done", ![w].ver = v] \in [Workers -> WorkerStates]
<1>1. [f[w] EXCEPT !.pc = "done", !.ver = v] \in WorkerStates
  BY DEF WorkerStates, WorkerLabels
<1>2. [f EXCEPT ![w] = [f[w] EXCEPT !.pc = "done", !.ver = v]] \in [Workers -> WorkerStates]
  BY <1>1
<1> QED
  BY <1>2

LEMMA WorkerOpens ==
    ASSUME NEW f \in [Workers -> WorkerStates], NEW w \in Workers, NEW l \in Lens
    PROVE  [f EXCEPT ![w].pc = "open", ![w].len = l] \in [Workers -> WorkerStates]
<1>1. [f[w] EXCEPT !.pc = "open", !.len = l] \in WorkerStates
  BY DEF WorkerStates, WorkerLabels
<1>2. [f EXCEPT ![w] = [f[w] EXCEPT !.pc = "open", !.len = l]] \in [Workers -> WorkerStates]
  BY <1>1
<1> QED
  BY <1>2

LEMMA WorkerDrops ==
    ASSUME NEW f \in [Workers -> WorkerStates], NEW w \in Workers, NEW t \in SUBSET Blocks
    PROVE  [f EXCEPT ![w].pc = "invFiles", ![w].todo = t] \in [Workers -> WorkerStates]
<1>1. [f[w] EXCEPT !.pc = "invFiles", !.todo = t] \in WorkerStates
  BY DEF WorkerStates, WorkerLabels
<1>2. [f EXCEPT ![w] = [f[w] EXCEPT !.pc = "invFiles", !.todo = t]] \in [Workers -> WorkerStates]
  BY <1>1
<1> QED
  BY <1>2

LEMMA CommandUpdate ==
    ASSUME NEW f \in [Commands -> CommandStates], NEW c \in Commands,
           NEW was \in BOOLEAN, NEW t \in SUBSET Blocks
    PROVE  /\ [f EXCEPT ![c].pc = "clearRows", ![c].was = was] \in [Commands -> CommandStates]
           /\ [f EXCEPT ![c].pc = "clearFiles", ![c].todo = t] \in [Commands -> CommandStates]
           /\ [f EXCEPT ![c].pc = "clearLeft", ![c].todo = t] \in [Commands -> CommandStates]
           /\ [f EXCEPT ![c].todo = t] \in [Commands -> CommandStates]
BY DEF CommandStates

LEMMA Spoilt == \A d \in Data : [d EXCEPT !.whole = FALSE] \in Data
BY DEF Data

LEMMA TypeInit == Init => TypeOK
<1> SUFFICES ASSUME Init PROVE TypeOK
  OBVIOUS
<1> USE DEF Init
<1>1. wk \in [Workers -> WorkerStates]
  BY ConstantTypes
<1>2. cmd \in [Commands -> CommandStates]
  BY DEF CmdIdle, CommandStates
<1>3. ev \in SweeperStates /\ ev.pc # "sweepRow"
  <2>1. EvLoop \in SweeperStates
    BY DEF EvLoop, SweeperStates
  <2>2. \A p \in {"loop", "exited"} : /\ [EvLoop EXCEPT !.pc = p] \in SweeperStates
                                      /\ [EvLoop EXCEPT !.pc = p].pc = p
    BY <2>1 DEF SweeperStates
  <2> QED
    BY <2>2
<1>4. s3 \in [Keys -> Versions] /\ settled \in [Keys -> Versions]
  BY ConstantTypes
<1>5. /\ files \in [Blocks -> FileStates] /\ tmp \in [Workers -> FileStates]
      /\ rows \subseteq Blocks /\ strays \subseteq Blocks
  BY DEF FileStates, LeftBehind, Orphans
<1> QED
  BY <1>1, <1>2, <1>3, <1>4, <1>5, CacheAssumption DEF TypeOK

\* What becomes of a file that is to be removed.
LEMMA Unlinked ==
    ASSUME TypeOK, NEW b \in Blocks, Removes(b) \/ RemoveFails(b)
    PROVE  /\ files' \in [Blocks -> FileStates] /\ strays' \subseteq Blocks
           /\ \A x \in Blocks : files'[x] = files[x] \/ (x = b /\ files'[x] = Absent)
           /\ \A x \in Blocks : x # b => (x \in strays' <=> x \in strays)
           /\ files'[b] # Absent => b \in strays'
BY DEF TypeOK, Removes, RemoveFails, FileStates

LEMMA TargetType == TypeOK => \A w \in Workers : Target(w) \in Blocks
BY ConstantTypes DEF TypeOK, Target, WorkerStates

LEMMA TypeNext == TypeOK /\ [Next]_vars => TypeOK'
<1> SUFFICES ASSUME TypeOK, [Next]_vars PROVE TypeOK'
  OBVIOUS
<1>0. wk \in [Workers -> WorkerStates]
  BY DEF TypeOK
<1> USE ConstantTypes, CacheAssumption DEF TypeOK, Goto, Target, store, conf, sweep, hist, WorkerStates, WorkerLabels
<1>1. ASSUME NEW w \in Workers, StartRead(w) PROVE TypeOK'
  <2>1. PICK k \in Keys, o \in Offsets :
           wk' = [wk EXCEPT ![w] = [WorkerIdle EXCEPT !.pc = "lookup", !.key = k,
                                        !.off = o, !.floor = settled[k]]]
    BY <1>1 DEF StartRead
  <2>2. wk' \in [Workers -> WorkerStates]
    BY <2>1
  <2> QED
    BY <1>1, <2>2 DEF StartRead
<1>2. ASSUME NEW w \in Workers, Bypass(w) PROVE TypeOK'
  <2>1. PICK v \in Versions : wk' = [wk EXCEPT ![w].pc = "done", ![w].ver = v]
    BY <1>2 DEF Bypass
  <2>2. wk' \in [Workers -> WorkerStates]
    <3> HIDE ConstantTypes, CacheAssumption DEF TypeOK, WorkerStates, WorkerLabels
    <3> QED
      BY <1>0, <2>1, WorkerDone
  <2> QED
    BY <1>2, <2>2 DEF Bypass
<1>3. ASSUME NEW w \in Workers, LookupHit(w) PROVE TypeOK'
  <2>1. PICK b \in rows : wk' = [wk EXCEPT ![w].pc = "open", ![w].len = b.len]
    BY <1>3 DEF LookupHit, RowsAt
  <2>2. b.len \in Lens
    BY DEF Blocks
  <2>3. wk' \in [Workers -> WorkerStates]
    <3> HIDE ConstantTypes, CacheAssumption DEF TypeOK, WorkerStates, WorkerLabels
    <3> QED
      BY <1>0, <2>1, <2>2, WorkerOpens
  <2> QED
    BY <1>3, <2>3 DEF LookupHit
<1>4. ASSUME NEW w \in Workers, LookupMiss(w) PROVE TypeOK'
  BY <1>4 DEF LookupMiss
<1>5. ASSUME NEW w \in Workers, OpenMissing(w) PROVE TypeOK'
  BY <1>5 DEF OpenMissing
<1>6. ASSUME NEW w \in Workers, OpenHit(w) PROVE TypeOK'
  <2>1. files[Target(w)].ver \in Versions
    BY <1>6 DEF OpenHit, FileStates, Data
  <2>2. PICK v \in Versions : wk' = [wk EXCEPT ![w].pc = "done", ![w].ver = v]
    BY <1>6, <2>1 DEF OpenHit
  <2>3. wk' \in [Workers -> WorkerStates]
    <3> HIDE ConstantTypes, CacheAssumption DEF TypeOK, WorkerStates, WorkerLabels
    <3> QED
      BY <1>0, <2>2, WorkerDone
  <2> QED
    BY <1>6, <2>3 DEF OpenHit
<1>7. ASSUME NEW w \in Workers, OpenBad(w) PROVE TypeOK'
  BY <1>7 DEF OpenBad
<1>8. ASSUME NEW w \in Workers, DropBadRow(w) \/ DropBadRowFails(w) PROVE TypeOK'
  <2>1. wk' = [wk EXCEPT ![w].pc = "dropFile"] /\ "dropFile" \in WorkerLabels
    BY <1>8 DEF DropBadRow, DropBadRowFails
  <2>2. wk' \in [Workers -> WorkerStates]
    <3> HIDE ConstantTypes, CacheAssumption DEF TypeOK, WorkerStates, WorkerLabels
    <3> QED
      BY <1>0, <2>1, WorkerGoes
  <2>3. rows' \subseteq Blocks /\ strays' \subseteq Blocks
    BY <1>8 DEF DropBadRow, DropBadRowFails, RowsAt
  <2> HIDE DEF WorkerStates, WorkerLabels, Target
  <2> QED
    BY <1>8, <2>2, <2>3 DEF DropBadRow, DropBadRowFails
<1>9. ASSUME NEW w \in Workers, DropBadFile(w) \/ DropBadFileFails(w) PROVE TypeOK'
  <2>1. wk' = [wk EXCEPT ![w].pc = "fetch"] /\ "fetch" \in WorkerLabels
    BY <1>9 DEF DropBadFile, DropBadFileFails, DroppedFile
  <2>2. wk' \in [Workers -> WorkerStates]
    <3> HIDE ConstantTypes, CacheAssumption DEF TypeOK, WorkerStates, WorkerLabels
    <3> QED
      BY <1>0, <2>1, WorkerGoes
  <2>3. Removes(Target(w)) \/ RemoveFails(Target(w))
    BY <1>9 DEF DropBadFile, DropBadFileFails
  <2>4. files' \in [Blocks -> FileStates] /\ strays' \subseteq Blocks
    BY <2>3, Unlinked, TargetType
  <2> HIDE DEF WorkerStates, WorkerLabels, Target
  <2> QED
    BY <1>9, <2>2, <2>4 DEF DropBadFile, DropBadFileFails, DroppedFile
<1>10. ASSUME NEW w \in Workers, Fetch(w) PROVE TypeOK'
  <2> DEFINE v == s3[wk[w].key]
  <2>1. v \in Versions /\ BlockLen[v] \in Lens
    OBVIOUS
  <2>2. [wk[w] EXCEPT !.pc = "put", !.ver = v, !.len = BlockLen[v]] \in WorkerStates
    BY <2>1
  <2>3. wk' = [wk EXCEPT ![w] = [wk[w] EXCEPT !.pc = "put", !.ver = v, !.len = BlockLen[v]]]
    BY <1>10 DEF Fetch
  <2>4. wk' \in [Workers -> WorkerStates]
    BY <2>2, <2>3
  <2> QED
    BY <1>10, <2>4 DEF Fetch
<1>11. ASSUME NEW w \in Workers, FetchFails(w) PROVE TypeOK'
  BY <1>11 DEF FetchFails
<1>12. ASSUME NEW w \in Workers, FinishRead(w) PROVE TypeOK'
  BY <1>12 DEF FinishRead
<1>13. ASSUME NEW w \in Workers, PutCheck(w) PROVE TypeOK'
  <2>1. PICK p \in WorkerLabels : wk' = [wk EXCEPT ![w].pc = p]
    BY <1>13 DEF PutCheck
  <2>2. wk' \in [Workers -> WorkerStates]
    <3> HIDE ConstantTypes, CacheAssumption DEF TypeOK, WorkerStates, WorkerLabels
    <3> QED
      BY <1>0, <2>1, WorkerGoes
  <2> QED
    BY <1>13, <2>2 DEF PutCheck
<1>14. ASSUME NEW w \in Workers, PutCreate(w) PROVE TypeOK'
  BY <1>14 DEF PutCreate, FileStates, Data, TmpName
<1>15. ASSUME NEW w \in Workers, PutWrite(w) PROVE TypeOK'
  BY <1>15 DEF PutWrite, FileStates, Data, TmpName
<1>16. ASSUME NEW w \in Workers, PutRename(w) PROVE TypeOK'
  BY <1>16 DEF PutRename, FileStates, TmpName
<1>17. ASSUME NEW w \in Workers, PutFails(w) PROVE TypeOK'
  BY <1>17 DEF PutFails, FileStates, TmpName
<1>18. ASSUME NEW w \in Workers, PutIndex(w) \/ PutIndexFails(w) PROVE TypeOK'
  <2>1. ev' \in SweeperStates /\ ev'.pc = ev.pc /\ ev'.victim = ev.victim
    BY <1>18 DEF PutIndex, PutIndexFails, SweeperStates
  <2>2. wk' = [wk EXCEPT ![w].pc = "done"] /\ "done" \in WorkerLabels
    BY <1>18 DEF PutIndex, PutIndexFails
  <2>3. wk' \in [Workers -> WorkerStates]
    <3> HIDE ConstantTypes, CacheAssumption DEF TypeOK, WorkerStates, WorkerLabels
    <3> QED
      BY <1>0, <2>2, WorkerGoes
  <2>4. Target(w) \in Blocks
    OBVIOUS
  <2> HIDE DEF WorkerStates, WorkerLabels
  <2> QED
    BY <1>18, <2>1, <2>3, <2>4 DEF PutIndex, PutIndexFails
<1>19. ASSUME NEW w \in Workers, PutRefused(w) PROVE TypeOK'
  BY <1>19 DEF PutRefused
<1>20. ASSUME NEW w \in Workers, PutDrop(w) \/ PutDropFails(w) PROVE TypeOK'
  <2>1. wk' = [wk EXCEPT ![w].pc = "done"] /\ "done" \in WorkerLabels
    BY <1>20 DEF PutDrop, PutDropFails, DroppedNew
  <2>2. wk' \in [Workers -> WorkerStates]
    <3> HIDE ConstantTypes, CacheAssumption DEF TypeOK, WorkerStates, WorkerLabels
    <3> QED
      BY <1>0, <2>1, WorkerGoes
  <2>3. Removes(Target(w)) \/ RemoveFails(Target(w))
    BY <1>20 DEF PutDrop, PutDropFails
  <2>4. files' \in [Blocks -> FileStates] /\ strays' \subseteq Blocks
    BY <2>3, Unlinked, TargetType
  <2> HIDE DEF WorkerStates, WorkerLabels, Target
  <2> QED
    BY <1>20, <2>2, <2>4 DEF PutDrop, PutDropFails, DroppedNew
<1>21. ASSUME NEW w \in Workers, Upload(w) PROVE TypeOK'
  <2>1. PICK k \in Keys :
           /\ s3[k] < MaxVersion
           /\ s3' = [s3 EXCEPT ![k] = @ + 1]
           /\ wk' = [wk EXCEPT ![w] = [WorkerIdle EXCEPT !.pc = "invRows",
                                          !.key = k, !.ver = s3[k] + 1]]
           /\ exposed' \in {exposed, exposed \cup {k}}
    BY <1>21 DEF Upload
  <2>2. PICK n \in Versions : n = s3[k] + 1
    BY <2>1, NextVersion
  <2>3. wk' \in [Workers -> WorkerStates]
    BY <2>1, <2>2
  <2>4. s3' \in [Keys -> Versions] /\ exposed' \subseteq Keys
    BY <2>1, <2>2
  <2> QED
    BY <1>21, <2>3, <2>4 DEF Upload
<1>22. ASSUME NEW w \in Workers, InvalidateRows(w) \/ InvalidateRowsFail(w) PROVE TypeOK'
  <2>1. KeyRows(wk[w].key) \in SUBSET Blocks
    BY DEF KeyRows
  <2>2. PICK t \in SUBSET Blocks : wk' = [wk EXCEPT ![w].pc = "invFiles", ![w].todo = t]
    BY <1>22, <2>1 DEF InvalidateRows, InvalidateRowsFail
  <2>3. wk' \in [Workers -> WorkerStates]
    <3> HIDE ConstantTypes, CacheAssumption DEF TypeOK, WorkerStates, WorkerLabels
    <3> QED
      BY <1>0, <2>2, WorkerDrops
  <2> QED
    BY <1>22, <2>1, <2>3 DEF InvalidateRows, InvalidateRowsFail
<1>23. ASSUME NEW w \in Workers, InvalidateFile(w) \/ InvalidateFileFails(w) PROVE TypeOK'
  <2>1. PICK b \in wk[w].todo : Invalidated(w, b) /\ (Removes(b) \/ RemoveFails(b))
    BY <1>23 DEF InvalidateFile, InvalidateFileFails
  <2>2. wk' \in [Workers -> WorkerStates]
    <3>1. [wk[w] EXCEPT !.todo = wk[w].todo \ {b}] \in WorkerStates
      OBVIOUS
    <3> QED
      BY <2>1, <3>1 DEF Invalidated
  <2>3. files' \in [Blocks -> FileStates] /\ strays' \subseteq Blocks
    BY <2>1, Unlinked
  <2> HIDE DEF WorkerStates, WorkerLabels, Target
  <2> QED
    BY <2>1, <2>2, <2>3 DEF Invalidated
<1>24. ASSUME NEW w \in Workers, InvalidateDone(w) PROVE TypeOK'
  BY <1>24 DEF InvalidateDone
<1>25. ASSUME NEW c \in Commands, ClearStart(c) PROVE TypeOK'
  <2>1. cmd' \in [Commands -> CommandStates]
    BY <1>25, CommandUpdate DEF ClearStart
  <2> QED
    BY <1>25, <2>1 DEF ClearStart
<1>26. ASSUME NEW c \in Commands, ClearRows(c) \/ ClearRowsFail(c) PROVE TypeOK'
  <2>0. cmd \in [Commands -> CommandStates]
    OBVIOUS
  <2>1. PICK t \in SUBSET Blocks, p \in {"clearFiles", "clearLeft"} :
           cmd' = [cmd EXCEPT ![c].pc = p, ![c].todo = t]
    BY <1>26 DEF ClearRows, ClearRowsFail
  <2>2. cmd' \in [Commands -> CommandStates]
    <3> HIDE ConstantTypes, CacheAssumption DEF TypeOK, WorkerStates, WorkerLabels
    <3> QED
      BY <2>0, <2>1, CommandUpdate
  <2>3. rows' \subseteq Blocks /\ strays' \subseteq Blocks
    BY <1>26 DEF ClearRows, ClearRowsFail
  <2> HIDE DEF WorkerStates, WorkerLabels, Target
  <2> QED
    BY <1>26, <2>2, <2>3 DEF ClearRows, ClearRowsFail
<1>27. ASSUME NEW c \in Commands, ClearFile(c) \/ ClearFileFails(c) PROVE TypeOK'
  <2>1. PICK b \in cmd[c].todo : Cleared(c, b) /\ (Removes(b) \/ RemoveFails(b))
    BY <1>27 DEF ClearFile, ClearFileFails
  <2>4. b \in Blocks
    BY <2>1 DEF CommandStates
  <2>2. cmd' \in [Commands -> CommandStates]
    <3>1. cmd[c].todo \ {b} \in SUBSET Blocks
      BY DEF CommandStates
    <3>2. cmd' = [cmd EXCEPT ![c].todo = cmd[c].todo \ {b}]
      BY <2>1 DEF Cleared
    <3> QED
      BY <3>1, <3>2, CommandUpdate
  <2>3. files' \in [Blocks -> FileStates] /\ strays' \subseteq Blocks
    BY <2>1, <2>4, Unlinked
  <2> QED
    BY <2>1, <2>2, <2>3 DEF Cleared
<1>28. ASSUME NEW c \in Commands, ClearDone(c) PROVE TypeOK'
  <2>1. cmd' \in [Commands -> CommandStates]
    BY <1>28 DEF ClearDone, CmdIdle, CommandStates
  <2>2. enabled' \in BOOLEAN
    BY <1>28 DEF ClearDone, CommandStates
  <2> QED
    BY <1>28, <2>1, <2>2 DEF ClearDone
<1>29. ASSUME NEW c \in Commands, SetQuota(c) PROVE TypeOK'
  BY <1>29 DEF SetQuota
<1>30. ASSUME NEW c \in Commands, SetEnabled(c) PROVE TypeOK'
  BY <1>30 DEF SetEnabled
<1>31. ASSUME NEW c \in Commands, Pin(c) \/ Unpin(c) PROVE TypeOK'
  BY <1>31 DEF Pin, Unpin
<1>32. ASSUME SweepStart PROVE TypeOK'
  <2>1. ev' \in SweeperStates
    BY <1>32 DEF SweepStart, EvLoop, VictimRows, SweeperStates
  <2> QED
    BY <1>32, <2>1 DEF SweepStart
<1>33. ASSUME SweepFile \/ SweepFileFails PROVE TypeOK'
  <2>1. PICK b \in ev.victims : Swept(b) /\ (Removes(b) \/ RemoveFails(b))
    BY <1>33 DEF SweepFile, SweepFileFails
  <2>2. ev' \in SweeperStates /\ b \in Blocks
    BY <2>1 DEF SweeperStates, Swept
  <2>3. files' \in [Blocks -> FileStates] /\ strays' \subseteq Blocks
    BY <2>1, <2>2, Unlinked
  <2> QED
    BY <2>1, <2>2, <2>3 DEF Swept
<1>34. ASSUME SweepRow \/ SweepRowFails PROVE TypeOK'
  <2>1. ev' \in SweeperStates /\ ev'.pc = "sweep"
    <3>1. CASE SweepRow
      BY <3>1 DEF SweepRow, SweeperStates
    <3>2. CASE SweepRowFails
      BY <3>2 DEF SweepRowFails, SweeperStates
    <3> QED
      BY <1>34, <3>1, <3>2
  <2>2. rows' \subseteq Blocks /\ strays' \subseteq Blocks
    BY <1>34 DEF SweepRow, SweepRowFails
  <2> HIDE DEF WorkerStates, WorkerLabels, Target
  <2> QED
    BY <1>34, <2>1, <2>2 DEF SweepRow, SweepRowFails
<1>35. ASSUME SweepDone \/ SweeperExits PROVE TypeOK'
  <2>1. EvLoop \in SweeperStates /\ EvLoop.pc # "sweepRow"
    BY DEF EvLoop, SweeperStates
  <2>2. [ev EXCEPT !.pc = "exited"] \in SweeperStates /\ [ev EXCEPT !.pc = "exited"].pc = "exited"
    BY DEF SweeperStates
  <2> QED
    BY <1>35, <2>1, <2>2 DEF SweepDone, SweeperExits
<1>36. ASSUME Stop PROVE TypeOK'
  BY <1>36 DEF Stop
<1>37. ASSUME RemoteWrite PROVE TypeOK'
  <2>1. PICK k \in Keys : s3[k] < MaxVersion /\ s3' = [s3 EXCEPT ![k] = @ + 1]
    BY <1>37 DEF RemoteWrite
  <2>2. s3[k] + 1 \in Versions
    BY <2>1, NextVersion
  <2>3. s3' \in [Keys -> Versions]
    BY <2>1, <2>2
  <2> QED
    BY <1>37, <2>3 DEF RemoteWrite
<1>38. ASSUME Rot PROVE TypeOK'
  <2>1. PICK b \in Blocks : /\ files[b] # Absent /\ files' = [files EXCEPT ![b].whole = FALSE]
                            /\ rotten' = rotten \cup {b}
    BY <1>38 DEF Rot
  <2>2. [files[b] EXCEPT !.whole = FALSE] \in Data
    BY <2>1, Spoilt DEF FileStates
  <2>3. files' \in [Blocks -> FileStates]
    BY <2>1, <2>2 DEF FileStates
  <2> QED
    BY <1>38, <2>1, <2>3 DEF Rot
<1>40. ASSUME Restart PROVE TypeOK'
  <2>1. wk' \in [Workers -> WorkerStates] /\ cmd' \in [Commands -> CommandStates]
    BY <1>40 DEF Restart, CmdIdle, CommandStates
  <2>2. ev' \in SweeperStates /\ ev'.pc # "sweepRow"
    <3>1. \A p \in {"loop", "exited"} : /\ [EvLoop EXCEPT !.pc = p] \in SweeperStates
                                        /\ [EvLoop EXCEPT !.pc = p].pc = p
      BY DEF EvLoop, SweeperStates
    <3> QED
      BY <1>40, <3>1 DEF Restart
  <2>3. tmp' \in [Workers -> FileStates] /\ strays' \subseteq Blocks
    BY <1>40 DEF Restart, FileStates, Orphans
  <2> HIDE DEF WorkerStates, WorkerLabels, Target
  <2> QED
    BY <1>40, <2>1, <2>2, <2>3 DEF Restart
<1>39. CASE UNCHANGED vars
  BY <1>39 DEF vars
<1> QED
  BY <1>1, <1>2, <1>3, <1>4, <1>5, <1>6, <1>7, <1>8, <1>9, <1>10, <1>11, <1>12,
     <1>13, <1>14, <1>15, <1>16, <1>17, <1>18, <1>19, <1>20, <1>21, <1>22, <1>23,
     <1>24, <1>25, <1>26, <1>27, <1>28, <1>29, <1>30, <1>31, <1>32, <1>33, <1>34,
     <1>35, <1>36, <1>37, <1>38, <1>39, <1>40
  DEF Next, Step, Fault, WorkerStep, CommandStep, SweeperStep, WorkerFault, CommandFault,
      SweeperFault

\* Every variable of the cache stays within its type (cache.rs, DiskCache and the
\* locals of its methods).
THEOREM TypeCorrect == Spec => []TypeOK
BY TypeInit, TypeNext, PTL DEF Spec

-----------------------------------------------------------------------------
(* clear_all, its mutex and the enabled flag *)

\* A clear holds the mounts mutex, keeps the flag down and remembers what the
\* user wants; after its delete statement the index is empty.
ClearInv ==
    /\ \A c \in Commands : cmd[c].pc # "idle" =>
           mounts = c /\ ~enabled /\ cmd[c].was = wanted
    /\ \A c \in Commands : cmd[c].pc = "clearFiles" => rows = {}
    /\ mounts = NoOne => enabled = wanted

LEMMA ClearInvNext == TypeOK /\ ClearInv /\ [Next]_vars => ClearInv'
<1> SUFFICES ASSUME TypeOK, ClearInv, [Next]_vars PROVE ClearInv'
  OBVIOUS
<1> USE CacheAssumption DEF ClearInv
<1> DEFINE same == UNCHANGED <<cmd, enabled, mounts, wanted>>
<1>1. same /\ rows' \subseteq rows => ClearInv'
  OBVIOUS
<1>2. ASSUME NEW w \in Workers, WorkerStep(w) \/ WorkerFault(w), ~PutIndex(w)
      PROVE  ClearInv'
  <2>1. same /\ rows' \subseteq rows
    BY <1>2 DEF WorkerStep, WorkerFault, DropBadRowFails, DropBadFileFails, PutIndexFails,
       PutDropFails, InvalidateRowsFail, InvalidateFileFails, DroppedFile, DroppedNew,
       Invalidated, StartRead, Bypass, LookupHit, LookupMiss, OpenMissing,
       OpenHit, OpenBad, DropBadRow, DropBadFile, Fetch, FetchFails, FinishRead,
       PutCheck, PutCreate, PutWrite, PutRename, PutFails, PutRefused, PutDrop,
       Upload, InvalidateRows, InvalidateFile, InvalidateDone, store, conf, hist
  <2> QED
    BY <1>1, <2>1
<1>3. ASSUME NEW w \in Workers, PutIndex(w) PROVE ClearInv'
  BY <1>3 DEF PutIndex, StillEnabled, conf, hist
<1>4. ASSUME NEW c \in Commands, ClearStart(c) PROVE ClearInv'
  BY <1>4 DEF ClearStart, store, hist, TypeOK, CommandStates
<1>5. ASSUME NEW c \in Commands, ClearRows(c) \/ ClearRowsFail(c) PROVE ClearInv'
  <2>1. PICK t \in SUBSET Blocks, p \in {"clearFiles", "clearLeft"} :
          /\ cmd' = [cmd EXCEPT ![c].pc = p, ![c].todo = t]
          /\ rows' \subseteq rows /\ (p = "clearFiles" => rows' = {})
          /\ cmd[c].pc = "clearRows" /\ UNCHANGED <<enabled, mounts, wanted>>
    <3>1. CASE ClearRows(c)
      BY <3>1 DEF ClearRows, conf, hist, TypeOK
    <3>2. CASE ClearRowsFail(c)
      BY <3>2 DEF ClearRowsFail, conf, TypeOK
    <3> QED
      BY <1>5, <3>1, <3>2
  <2>2. /\ cmd'[c].pc = p /\ cmd'[c].was = cmd[c].was
        /\ \A d \in Commands : d # c => cmd'[d] = cmd[d]
    BY <2>1 DEF TypeOK, CommandStates
  <2> QED
    BY <2>1, <2>2
<1>6. ASSUME NEW c \in Commands, ClearFile(c) \/ ClearFileFails(c) PROVE ClearInv'
  BY <1>6 DEF ClearFile, ClearFileFails, Cleared, conf, hist, TypeOK, CommandStates
<1>7. ASSUME NEW c \in Commands, ClearDone(c) PROVE ClearInv'
  BY <1>7 DEF ClearDone, CmdIdle, store, hist, TypeOK, CommandStates
<1>8. ASSUME NEW c \in Commands, SetQuota(c) PROVE ClearInv'
  BY <1>8 DEF SetQuota, store, TypeOK
<1>9. ASSUME NEW c \in Commands, SetEnabled(c) PROVE ClearInv'
  BY <1>9 DEF SetEnabled, store, TypeOK
<1>10. ASSUME NEW c \in Commands, Pin(c) \/ Unpin(c) PROVE ClearInv'
  BY <1>1, <1>10 DEF Pin, Unpin, store, hist
<1>11. ASSUME SweeperStep \/ SweeperFault PROVE ClearInv'
  BY <1>1, <1>11 DEF SweeperStep, SweeperFault, SweepFileFails, SweepRowFails, Swept,
     SweepStart, SweepFile, SweepRow, SweepDone,
     SweeperExits, store, conf, hist
<1>12. ASSUME Stop \/ RemoteWrite \/ Rot PROVE ClearInv'
  BY <1>1, <1>12 DEF Stop, RemoteWrite, Rot, store, conf, hist
<1>13. CASE UNCHANGED vars
  BY <1>1, <1>13 DEF vars, store, conf, hist
<1>14. ASSUME Restart PROVE ClearInv'
  BY <1>14 DEF Restart, CmdIdle
<1> QED
  BY <1>2, <1>3, <1>4, <1>5, <1>6, <1>7, <1>8, <1>9, <1>10, <1>11, <1>12, <1>13, <1>14
  DEF Next, Step, Fault, CommandStep, CommandFault

\* Once clear_all has emptied the index, no concurrent put_block refills it before
\* the clear is over (the second look at the flag, under the index lock).
THEOREM ClearIsComplete == Spec => []ClearedStaysEmpty
<1>1. Init => ClearInv
  BY DEF Init, ClearInv, CmdIdle
<1>2. ClearInv => ClearedStaysEmpty
  BY DEF ClearInv, ClearedStaysEmpty
<1> QED
  BY <1>1, <1>2, TypeCorrect, ClearInvNext, PTL DEF Spec

\* When no clear is under way the cache is on exactly if the user last asked for
\* it, however clears and settings overlap.
THEOREM ClearRestores == Spec => []ClearRestoresSetting
<1>1. Init => ClearInv
  BY DEF Init, ClearInv, CmdIdle
<1>2. ClearInv => ClearRestoresSetting
  BY DEF ClearInv, ClearRestoresSetting
<1> QED
  BY <1>1, <1>2, TypeCorrect, ClearInvNext, PTL DEF Spec

-----------------------------------------------------------------------------
(* Whole files only *)

\* A staged file about to be renamed is whole and holds what its owner fetched.
StagedInv ==
    \A w \in Workers : wk[w].pc = "rename" /\ tmp[w] # Absent =>
        tmp[w].whole /\ tmp[w].ver = wk[w].ver

\* A worker's step leaves the others where they are.
LEMMA WorkerFrame ==
  ASSUME TypeOK, NEW w \in Workers, WorkerStep(w) \/ WorkerFault(w)
  PROVE  \A x \in Workers : x # w => wk'[x] = wk[x]
<1> USE DEF TypeOK, Goto
<1>1. CASE StartRead(w) \/ Bypass(w) \/ LookupHit(w) \/ LookupMiss(w) \/ OpenMissing(w)
  BY <1>1 DEF StartRead, Bypass, LookupHit, LookupMiss, OpenMissing
<1>2. CASE OpenHit(w) \/ OpenBad(w) \/ DropBadRow(w) \/ DropBadFile(w) \/ Fetch(w)
  BY <1>2 DEF OpenHit, OpenBad, DropBadRow, DropBadFile, DroppedFile, Fetch
<1>3. CASE FetchFails(w) \/ FinishRead(w) \/ PutCheck(w) \/ PutCreate(w) \/ PutWrite(w)
  BY <1>3 DEF FetchFails, FinishRead, PutCheck, PutCreate, PutWrite
<1>4. CASE PutRename(w) \/ PutFails(w) \/ PutIndex(w) \/ PutRefused(w) \/ PutDrop(w)
  BY <1>4 DEF PutRename, PutFails, PutIndex, PutRefused, PutDrop, DroppedNew
<1>5. CASE Upload(w) \/ InvalidateRows(w) \/ InvalidateFile(w) \/ InvalidateDone(w)
  BY <1>5 DEF Upload, InvalidateRows, InvalidateFile, Invalidated, InvalidateDone
<1>6. CASE DropBadRowFails(w) \/ DropBadFileFails(w) \/ PutIndexFails(w)
  BY <1>6 DEF DropBadRowFails, DropBadFileFails, DroppedFile, PutIndexFails
<1>7. CASE PutDropFails(w) \/ InvalidateRowsFail(w) \/ InvalidateFileFails(w)
  BY <1>7 DEF PutDropFails, DroppedNew, InvalidateRowsFail, InvalidateFileFails, Invalidated
<1> QED
  BY <1>1, <1>2, <1>3, <1>4, <1>5, <1>6, <1>7 DEF WorkerStep, WorkerFault

\* Only a completed write leads to a rename.
LEMMA OnlyWriteStages ==
  ASSUME TypeOK, NEW w \in Workers, WorkerStep(w) \/ WorkerFault(w), ~PutWrite(w)
  PROVE  wk'[w].pc # "rename"
<1> USE DEF TypeOK, WorkerStates, Goto, WorkerIdle
<1>1. CASE StartRead(w) \/ Upload(w)
  <2>1. ASSUME NEW r, wk' = [wk EXCEPT ![w] = r] PROVE wk'[w] = r
    BY <2>1
  <2>2. CASE StartRead(w)
    <3>1. PICK k \in Keys, o \in Offsets :
             wk' = [wk EXCEPT ![w] = [WorkerIdle EXCEPT !.pc = "lookup", !.key = k,
                                          !.off = o, !.floor = settled[k]]]
      BY <2>2 DEF StartRead
    <3> QED
      BY <2>1, <3>1
  <2>3. CASE Upload(w)
    <3>1. PICK k \in Keys :
             wk' = [wk EXCEPT ![w] = [WorkerIdle EXCEPT !.pc = "invRows", !.key = k,
                                          !.ver = s3[k] + 1]]
      BY <2>3 DEF Upload
    <3> QED
      BY <2>1, <3>1
  <2> QED
    BY <1>1, <2>2, <2>3
<1>2. CASE Bypass(w) \/ LookupHit(w) \/ OpenHit(w)
  BY <1>2 DEF Bypass, LookupHit, OpenHit
<1>3. CASE LookupMiss(w) \/ OpenMissing(w) \/ OpenBad(w) \/ DropBadRow(w) \/ DropBadFile(w)
           \/ DropBadRowFails(w) \/ DropBadFileFails(w)
  BY <1>3 DEF LookupMiss, OpenMissing, OpenBad, DropBadRow, DropBadFile, DropBadRowFails,
     DropBadFileFails, DroppedFile
<1>4. CASE Fetch(w)
  BY <1>4 DEF Fetch
<1>5. CASE FetchFails(w) \/ FinishRead(w) \/ InvalidateDone(w)
  BY <1>5 DEF FetchFails, FinishRead, InvalidateDone
<1>6. CASE PutCheck(w) \/ PutCreate(w) \/ PutRename(w) \/ PutFails(w)
  BY <1>6 DEF PutCheck, PutCreate, PutRename, PutFails
<1>7. CASE PutIndex(w) \/ PutRefused(w) \/ PutDrop(w) \/ PutIndexFails(w) \/ PutDropFails(w)
  BY <1>7 DEF PutIndex, PutRefused, PutDrop, PutIndexFails, PutDropFails, DroppedNew
<1>8. CASE InvalidateRows(w) \/ InvalidateFile(w) \/ InvalidateRowsFail(w)
           \/ InvalidateFileFails(w)
  BY <1>8 DEF InvalidateRows, InvalidateFile, InvalidateRowsFail, InvalidateFileFails,
     Invalidated
<1> QED
  BY <1>1, <1>2, <1>3, <1>4, <1>5, <1>6, <1>7, <1>8 DEF WorkerStep, WorkerFault

\* Which steps leave the temporary files and the workers alone.
LEMMA OthersFrame ==
  ASSUME \/ \E c \in Commands : CommandStep(c) \/ CommandFault(c)
         \/ SweeperStep \/ SweeperFault \/ Stop \/ RemoteWrite \/ Rot \/ UNCHANGED vars
  PROVE  UNCHANGED <<wk, tmp, settled, exposed>>
<1>1. ASSUME NEW c \in Commands, CommandStep(c) \/ CommandFault(c)
      PROVE  UNCHANGED <<wk, tmp, settled, exposed>>
  BY <1>1 DEF CommandStep, ClearStart, ClearRows, ClearFile, ClearDone, SetQuota, SetEnabled,
     Pin, Unpin, CommandFault, ClearRowsFail, ClearFileFails, Cleared, store, hist
<1>2. ASSUME SweeperStep \/ SweeperFault PROVE UNCHANGED <<wk, tmp, settled, exposed>>
  BY <1>2 DEF SweeperStep, SweepStart, SweepFile, SweepRow, SweepDone, SweeperExits,
     SweeperFault, SweepFileFails, SweepRowFails, Swept, store, hist
<1> QED
  BY <1>1, <1>2 DEF Stop, RemoteWrite, Rot, vars, store, hist

LEMMA StagedNext == TypeOK /\ StagedInv /\ [Next]_vars => StagedInv'
<1> SUFFICES ASSUME TypeOK, StagedInv, [Next]_vars PROVE StagedInv'
  OBVIOUS
<1> USE DEF StagedInv, TypeOK, WorkerStates
<1>1. UNCHANGED <<wk, tmp>> => StagedInv'
  OBVIOUS
<1>2. ASSUME NEW w \in Workers, WorkerStep(w) \/ WorkerFault(w), UNCHANGED tmp,
             wk'[w].pc # "rename"
      PROVE StagedInv'
  BY <1>2, WorkerFrame
<1>3. ASSUME NEW w \in Workers, WorkerStep(w) \/ WorkerFault(w), ~PutCreate(w), ~PutWrite(w),
             ~PutRename(w), ~PutFails(w)
      PROVE StagedInv'
  <2>1. UNCHANGED tmp
    BY <1>3 DEF WorkerStep, StartRead, Bypass, LookupHit, LookupMiss, OpenMissing,
       OpenHit, OpenBad, DropBadRow, DropBadFile, Fetch, FetchFails, FinishRead,
       PutCheck, PutIndex, PutRefused, PutDrop, Upload, InvalidateRows,
       InvalidateFile, InvalidateDone, store, WorkerFault, DropBadRowFails,
       DropBadFileFails, PutIndexFails, PutDropFails, InvalidateRowsFail,
       InvalidateFileFails, DroppedFile, DroppedNew, Invalidated
  <2> QED
    BY <1>2, <1>3, <2>1, OnlyWriteStages
<1>4. ASSUME NEW w \in Workers, PutCreate(w) PROVE StagedInv'
  BY <1>4 DEF PutCreate, Goto, TmpName
<1>5. ASSUME NEW w \in Workers, PutWrite(w) PROVE StagedInv'
  BY <1>5 DEF PutWrite, Goto, TmpName
<1>6. ASSUME NEW w \in Workers, PutRename(w) \/ PutFails(w) PROVE StagedInv'
  BY <1>6 DEF PutRename, PutFails, Goto, TmpName
<1>7. ASSUME Restart PROVE StagedInv'
  BY <1>7 DEF Restart
<1>8. ASSUME \/ \E c \in Commands : CommandStep(c) \/ CommandFault(c)
             \/ SweeperStep \/ SweeperFault \/ Stop \/ RemoteWrite \/ Rot \/ UNCHANGED vars
      PROVE StagedInv'
  BY <1>1, <1>8, OthersFrame
<1> QED
  BY <1>3, <1>4, <1>5, <1>6, <1>7, <1>8 DEF Next, Step, Fault

LEMMA StagedAlways == Spec => []StagedInv
<1>1. Init => StagedInv
  BY DEF Init, StagedInv
<1> QED
  BY <1>1, TypeCorrect, StagedNext, PTL DEF Spec

\* The only steps that put bytes at a block's final path.
LEMMA FileSteps ==
  ASSUME TypeOK, [Next]_vars
  PROVE  \/ UNCHANGED files
         \/ \E b \in Blocks : files' = [files EXCEPT ![b] = Absent]
         \/ \E w \in Workers : PutRename(w)
         \/ Rot
<1> DEFINE Goal == \/ UNCHANGED files
                   \/ \E b \in Blocks : files' = [files EXCEPT ![b] = Absent]
                   \/ \E w \in Workers : PutRename(w)
                   \/ Rot
<1> USE DEF store
<1>0. ASSUME NEW b \in Blocks, Removes(b) \/ RemoveFails(b) PROVE Goal
  BY <1>0 DEF Removes, RemoveFails
<1>1. ASSUME NEW w \in Workers, WorkerStep(w) \/ WorkerFault(w) PROVE Goal
  <2>1. CASE DropBadFile(w) \/ PutDrop(w) \/ DropBadFileFails(w) \/ PutDropFails(w)
    BY <1>0, <2>1, TargetType DEF DropBadFile, PutDrop, DropBadFileFails, PutDropFails
  <2>2. CASE InvalidateFile(w) \/ InvalidateFileFails(w)
    BY <1>0, <2>2 DEF InvalidateFile, InvalidateFileFails, WorkerStates, TypeOK
  <2>3. CASE ~DropBadFile(w) /\ ~PutDrop(w) /\ ~InvalidateFile(w) /\ ~DropBadFileFails(w)
             /\ ~PutDropFails(w) /\ ~InvalidateFileFails(w)
    BY <1>1, <2>3 DEF WorkerStep, StartRead, Bypass, LookupHit, LookupMiss,
       OpenMissing, OpenHit, OpenBad, DropBadRow, Fetch, FetchFails, FinishRead,
       PutCheck, PutCreate, PutWrite, PutFails, PutIndex, PutRefused, Upload,
       InvalidateRows, InvalidateDone, WorkerFault, DropBadRowFails, PutIndexFails,
       InvalidateRowsFail
  <2> QED
    BY <2>1, <2>2, <2>3
<1>2. ASSUME NEW c \in Commands, CommandStep(c) \/ CommandFault(c) PROVE Goal
  <2>1. CASE ClearFile(c) \/ ClearFileFails(c)
    BY <1>0, <2>1 DEF ClearFile, ClearFileFails, CommandStates, TypeOK
  <2>2. CASE ~ClearFile(c) /\ ~ClearFileFails(c)
    BY <1>2, <2>2 DEF CommandStep, ClearStart, ClearRows, ClearDone, SetQuota,
       SetEnabled, Pin, Unpin, CommandFault, ClearRowsFail
  <2> QED
    BY <2>1, <2>2
<1>3. ASSUME SweepFile \/ SweepFileFails PROVE Goal
  BY <1>0, <1>3 DEF SweepFile, SweepFileFails, SweeperStates, TypeOK
<1>4. ASSUME \/ SweepStart \/ SweepRow \/ SweepDone \/ SweeperExits \/ SweepRowFails
             \/ Stop \/ RemoteWrite \/ Restart \/ UNCHANGED vars
      PROVE Goal
  BY <1>4 DEF SweepStart, SweepRow, SweepDone, SweeperExits, SweepRowFails, Stop,
     RemoteWrite, Restart, vars
<1> QED
  BY <1>1, <1>2, <1>3, <1>4 DEF Next, Step, Fault, SweeperStep, SweeperFault

\* Which blocks have once been damaged is not forgotten.
LEMMA RottenGrows == [Next]_vars => rotten \subseteq rotten'
<1> SUFFICES ASSUME [Next]_vars PROVE rotten \subseteq rotten'
  OBVIOUS
<1> USE DEF hist
<1>1. ASSUME NEW w \in Workers, WorkerStep(w) \/ WorkerFault(w) PROVE rotten' = rotten
  BY <1>1 DEF WorkerStep, StartRead, Bypass, LookupHit, LookupMiss, OpenMissing,
     OpenHit, OpenBad, DropBadRow, DropBadFile, Fetch, FetchFails, FinishRead,
     PutCheck, PutCreate, PutWrite, PutRename, PutFails, PutIndex, PutRefused,
     PutDrop, Upload, InvalidateRows, InvalidateFile, InvalidateDone, WorkerFault,
     DropBadRowFails, DropBadFileFails, PutIndexFails, PutDropFails, InvalidateRowsFail,
     InvalidateFileFails, DroppedFile, DroppedNew, Invalidated
<1>2. ASSUME NEW c \in Commands, CommandStep(c) \/ CommandFault(c) PROVE rotten' = rotten
  BY <1>2 DEF CommandStep, ClearStart, ClearRows, ClearFile, ClearDone, SetQuota,
     SetEnabled, Pin, Unpin, CommandFault, ClearRowsFail, ClearFileFails, Cleared
<1>3. ASSUME SweeperStep \/ SweeperFault \/ Stop \/ RemoteWrite \/ Rot \/ Restart
      PROVE rotten \subseteq rotten'
  BY <1>3 DEF SweeperStep, SweepStart, SweepFile, SweepRow, SweepDone, SweeperExits,
     SweeperFault, SweepFileFails, SweepRowFails, Swept, Stop, RemoteWrite, Rot, Restart
<1>4. CASE UNCHANGED vars
  BY <1>4 DEF vars
<1> QED
  BY <1>1, <1>2, <1>3, <1>4 DEF Next, Step, Fault

\* Concurrent put_block calls for a block never leave a partly written file where
\* get_block looks (the temporary file with a unique name, and the rename), nor does a
\* process that ends between their steps.
THEOREM WholeFiles == Spec => []NoTornBlock
<1>1. Init => NoTornBlock
  BY DEF Init, LeftBehind, NoTornBlock
<1>2. TypeOK /\ StagedInv /\ NoTornBlock /\ [Next]_vars => NoTornBlock'
  <2> SUFFICES ASSUME TypeOK, StagedInv, NoTornBlock, [Next]_vars PROVE NoTornBlock'
    OBVIOUS
  <2>0. rotten \subseteq rotten'
    BY RottenGrows
  <2>1. CASE UNCHANGED files
    BY <2>0, <2>1 DEF NoTornBlock
  <2>2. ASSUME NEW b \in Blocks, files' = [files EXCEPT ![b] = Absent]
        PROVE NoTornBlock'
    BY <2>0, <2>2 DEF NoTornBlock, TypeOK
  <2>3. ASSUME NEW w \in Workers, PutRename(w) PROVE NoTornBlock'
    BY <2>0, <2>3 DEF PutRename, TmpName, StagedInv, NoTornBlock, TypeOK
  <2>4. CASE Rot
    BY <2>4 DEF Rot, NoTornBlock, TypeOK
  <2> QED
    BY <2>1, <2>2, <2>3, <2>4, FileSteps
<1> QED
  BY <1>1, <1>2, TypeCorrect, StagedAlways, PTL DEF Spec

-----------------------------------------------------------------------------
(* Files without a row                                                       *)

\* A block file is indexed, about to be, about to be removed by whoever took its row
\* away, or known to have been left behind.
Held(b) ==
    \/ b \in rows \/ b \in strays
    \/ \E w \in Workers : wk[w].pc \in {"index", "dropNew", "dropFile"} /\ Target(w) = b
    \/ \E w \in Workers : wk[w].pc = "invFiles" /\ b \in wk[w].todo
    \/ \E c \in Commands : cmd[c].pc \in {"clearFiles", "clearLeft"} /\ b \in cmd[c].todo

IndexInv == \A b \in Blocks : files[b] # Absent => Held(b)

LEMMA IndexInvNext == TypeOK /\ IndexInv /\ [Next]_vars => IndexInv'
<1> SUFFICES ASSUME TypeOK, IndexInv, [Next]_vars PROVE IndexInv'
  OBVIOUS
<1> DEFINE Goal == \A b \in Blocks : files'[b] # Absent => Held(b)'
<1>a. \A b \in Blocks : files[b] # Absent => Held(b)
  BY DEF IndexInv
<1>b. SUFFICES Goal
  BY DEF IndexInv
<1>T. \A w \in Workers : Target(w) \in Blocks
  BY TargetType
<1>w. wk \in [Workers -> WorkerStates] /\ cmd \in [Commands -> CommandStates]
  BY DEF TypeOK
<1>1. ASSUME UNCHANGED <<rows, files, wk, cmd, strays>> PROVE Goal
  BY <1>1, <1>a DEF Held, Target
\* A worker with nothing in hand goes on without touching a file or a row.
<1>2. ASSUME NEW w \in Workers, WorkerStep(w) \/ WorkerFault(w),
             UNCHANGED <<rows, files, cmd, strays>>,
             wk[w].pc \notin {"index", "dropNew", "dropFile", "invFiles"}
      PROVE Goal
  <2>1. \A x \in Workers : x # w => wk'[x] = wk[x]
    BY <1>2, WorkerFrame
  <2>2. ASSUME NEW b \in Blocks, Held(b) PROVE Held(b)'
    BY <1>2, <2>1, <2>2 DEF Held, Target
  <2> QED
    BY <1>2, <1>a, <2>2
<1>3. ASSUME NEW w \in Workers,
             StartRead(w) \/ Bypass(w) \/ LookupHit(w) \/ LookupMiss(w)
               \/ OpenMissing(w) \/ OpenHit(w) \/ OpenBad(w) \/ DropBadRowFails(w)
               \/ Fetch(w) \/ FetchFails(w) \/ FinishRead(w) \/ PutCheck(w)
               \/ PutCreate(w) \/ PutWrite(w) \/ PutFails(w) \/ Upload(w)
      PROVE Goal
  <2>1. /\ WorkerStep(w) \/ WorkerFault(w)
        /\ UNCHANGED <<rows, files, cmd, strays>>
    BY <1>3 DEF WorkerStep, WorkerFault, StartRead, Bypass, LookupHit, LookupMiss,
       OpenMissing, OpenHit, OpenBad, DropBadRowFails, Fetch, FetchFails, FinishRead,
       PutCheck, PutCreate, PutWrite, PutFails, Upload, store, hist
  <2>2. wk[w].pc \notin {"index", "dropNew", "dropFile", "invFiles"}
    BY <1>3 DEF StartRead, Bypass, LookupHit, LookupMiss, OpenMissing, OpenHit, OpenBad,
       DropBadRowFails, Fetch, FetchFails, FinishRead, PutCheck, PutCreate, PutWrite,
       PutFails, Upload
  <2> QED
    BY <1>2, <2>1, <2>2
\* A worker removes the file of its block, or fails to.
<1>4. ASSUME NEW w \in Workers, NEW p \in {"fetch", "done"}, Goto(w, p),
             wk[w].pc \in {"dropFile", "dropNew"}, UNCHANGED <<rows, cmd>>,
             Removes(Target(w)) \/ RemoveFails(Target(w))
      PROVE Goal
  <2>1. /\ \A x \in Blocks : files'[x] = files[x] \/ (x = Target(w) /\ files'[x] = Absent)
        /\ \A x \in Blocks : x # Target(w) => (x \in strays' <=> x \in strays)
        /\ files'[Target(w)] # Absent => Target(w) \in strays'
    BY <1>4, <1>T, Unlinked
  <2>2. \A x \in Workers : x # w => wk'[x] = wk[x]
    BY <1>4, <1>w DEF Goto
  <2>3. ASSUME NEW b \in Blocks, b # Target(w), Held(b) PROVE Held(b)'
    BY <1>4, <2>1, <2>2, <2>3 DEF Held, Target
  <2>5. ASSUME NEW b \in Blocks, files'[b] # Absent PROVE Held(b)'
    <3>1. CASE b # Target(w)
      BY <1>a, <2>1, <2>3, <2>5, <3>1
    <3>2. CASE b = Target(w)
      BY <2>1, <2>5, <3>2 DEF Held
    <3> QED
      BY <3>1, <3>2
  <2> QED
    BY <2>5
<1>5. ASSUME NEW w \in Workers, DropBadFile(w) \/ DropBadFileFails(w) PROVE Goal
  BY <1>4, <1>5 DEF DropBadFile, DropBadFileFails, DroppedFile
<1>6. ASSUME NEW w \in Workers, PutDrop(w) \/ PutDropFails(w) PROVE Goal
  BY <1>4, <1>6 DEF PutDrop, PutDropFails, DroppedNew
<1>7. ASSUME NEW w \in Workers, DropBadRow(w) PROVE Goal
  <2>1. /\ rows' = rows \ RowsAt(wk[w].key, wk[w].off)
        /\ strays' = strays \cup {b \in RowsAt(wk[w].key, wk[w].off) \ {Target(w)} :
                                     files[b] # Absent}
        /\ UNCHANGED <<files, cmd>> /\ wk[w].pc = "dropRow"
    BY <1>7 DEF DropBadRow
  <2>2. /\ wk'[w].pc = "dropFile" /\ Target(w)' = Target(w)
        /\ \A x \in Workers : x # w => wk'[x] = wk[x]
    BY <1>7, <1>w DEF DropBadRow, Goto, Target, WorkerStates
  <2>3. ASSUME NEW b \in Blocks, files[b] # Absent, Held(b) PROVE Held(b)'
    BY <2>1, <2>2, <2>3 DEF Held, Target
  <2> QED
    BY <1>a, <2>1, <2>3
<1>8. ASSUME NEW w \in Workers, PutRename(w) PROVE Goal
  <2>1. /\ files' = [files EXCEPT ![Target(w)] = tmp[TmpName(w)]]
        /\ UNCHANGED <<rows, cmd, strays>> /\ wk[w].pc = "rename"
    BY <1>8 DEF PutRename, hist
  <2>2. /\ wk'[w].pc = "index" /\ Target(w)' = Target(w)
        /\ \A x \in Workers : x # w => wk'[x] = wk[x]
    BY <1>8, <1>w DEF PutRename, Goto, Target, WorkerStates
  <2>3. ASSUME NEW b \in Blocks, Held(b) PROVE Held(b)'
    BY <2>1, <2>2, <2>3 DEF Held, Target
  <2>4. Held(Target(w))'
    BY <2>2 DEF Held
  <2>5. ASSUME NEW b \in Blocks, files'[b] # Absent PROVE Held(b)'
    <3>1. CASE b = Target(w)
      BY <2>2, <3>1 DEF Held
    <3>2. CASE b # Target(w)
      BY <1>a, <2>1, <2>3, <2>5, <3>2 DEF TypeOK
    <3> QED
      BY <3>1, <3>2
  <2> QED
    BY <2>5
<1>9. ASSUME NEW w \in Workers, PutIndex(w) \/ PutIndexFails(w) PROVE Goal
  <2>1. /\ \/ rows' = rows \cup {Target(w)} /\ strays' = strays \ {Target(w)}
           \/ rows' = rows /\ strays' = strays \cup {Target(w)}
        /\ UNCHANGED <<files, cmd>>
    BY <1>9 DEF PutIndex, PutIndexFails, store
  <2>2. \A x \in Workers : x # w => wk'[x] = wk[x]
    BY <1>9, <1>w DEF PutIndex, PutIndexFails, Goto
  <2>3. wk[w].pc = "index"
    BY <1>9 DEF PutIndex, PutIndexFails
  <2>4. ASSUME NEW b \in Blocks, Held(b) PROVE Held(b)'
    <3>1. CASE b = Target(w)
      BY <2>1, <3>1 DEF Held
    <3>2. CASE b # Target(w)
      BY <2>1, <2>2, <2>3, <2>4, <3>2 DEF Held, Target
    <3> QED
      BY <3>1, <3>2
  <2> QED
    BY <1>a, <2>1, <2>4
<1>10. ASSUME NEW w \in Workers, PutRefused(w) PROVE Goal
  <2>1. UNCHANGED <<rows, files, cmd, strays>> /\ wk[w].pc = "index"
    BY <1>10 DEF PutRefused, store, hist
  <2>2. /\ wk'[w].pc = "dropNew" /\ Target(w)' = Target(w)
        /\ \A x \in Workers : x # w => wk'[x] = wk[x]
    BY <1>10, <1>w DEF PutRefused, Goto, Target, WorkerStates
  <2>3. ASSUME NEW b \in Blocks, Held(b) PROVE Held(b)'
    BY <2>1, <2>2, <2>3 DEF Held, Target
  <2> QED
    BY <1>a, <2>1, <2>3
\* The rows an invalidation takes are on its list of files, or strays.
<1>11. ASSUME NEW w \in Workers, InvalidateRows(w) \/ InvalidateRowsFail(w) PROVE Goal
  <2>1. PICK t \in SUBSET Blocks :
          /\ wk' = [wk EXCEPT ![w].pc = "invFiles", ![w].todo = t]
          /\ \A b \in rows : b \in rows' \/ b \in strays' \/ b \in t
          /\ strays \subseteq strays' /\ UNCHANGED <<files, cmd>> /\ wk[w].pc = "invRows"
    <3>1. KeyRows(wk[w].key) \in SUBSET Blocks
      BY DEF KeyRows, TypeOK
    <3>2. CASE InvalidateRows(w)
      BY <3>1, <3>2 DEF InvalidateRows, hist
    <3>3. CASE InvalidateRowsFail(w)
      BY <3>1, <3>3 DEF InvalidateRowsFail
    <3> QED
      BY <1>11, <3>2, <3>3
  <2>2. /\ wk'[w].pc = "invFiles" /\ wk'[w].todo = t
        /\ \A x \in Workers : x # w => wk'[x] = wk[x]
    BY <1>w, <2>1 DEF WorkerStates
  <2>3. ASSUME NEW b \in Blocks, Held(b) PROVE Held(b)'
    BY <2>1, <2>2, <2>3 DEF Held, Target
  <2> QED
    BY <1>a, <2>1, <2>3
<1>12. ASSUME NEW w \in Workers, InvalidateFile(w) \/ InvalidateFileFails(w) PROVE Goal
  <2>1. PICK v \in wk[w].todo : Invalidated(w, v) /\ (Removes(v) \/ RemoveFails(v))
    BY <1>12 DEF InvalidateFile, InvalidateFileFails
  <2>0. v \in Blocks
    BY <1>w, <2>1 DEF WorkerStates
  <2>2. /\ \A x \in Blocks : files'[x] = files[x] \/ (x = v /\ files'[x] = Absent)
        /\ \A x \in Blocks : x # v => (x \in strays' <=> x \in strays)
        /\ files'[v] # Absent => v \in strays'
    BY <2>0, <2>1, Unlinked
  <2>3. /\ wk'[w].pc = "invFiles" /\ wk'[w].todo = wk[w].todo \ {v} /\ wk[w].pc = "invFiles"
        /\ \A x \in Workers : x # w => wk'[x] = wk[x]
        /\ UNCHANGED <<rows, cmd>>
    BY <1>w, <2>1 DEF Invalidated, WorkerStates
  <2>4. ASSUME NEW b \in Blocks, b # v, Held(b) PROVE Held(b)'
    BY <2>2, <2>3, <2>4 DEF Held, Target
  <2>5. ASSUME NEW b \in Blocks, files'[b] # Absent PROVE Held(b)'
    <3>1. CASE b # v
      BY <1>a, <2>2, <2>4, <2>5, <3>1
    <3>2. CASE b = v
      BY <2>2, <2>5, <3>2 DEF Held
    <3> QED
      BY <3>1, <3>2
  <2> QED
    BY <2>5
<1>13. ASSUME NEW w \in Workers, InvalidateDone(w) PROVE Goal
  <2>1. /\ wk[w].todo = {} /\ wk[w].pc = "invFiles"
        /\ \A x \in Workers : x # w => wk'[x] = wk[x]
        /\ UNCHANGED <<rows, files, cmd, strays>>
    BY <1>13, <1>w DEF InvalidateDone, store
  <2>2. ASSUME NEW b \in Blocks, Held(b) PROVE Held(b)'
    BY <2>1, <2>2 DEF Held, Target
  <2> QED
    BY <1>a, <2>1, <2>2
<1>14. ASSUME NEW c \in Commands, ClearStart(c) PROVE Goal
  <2>1. UNCHANGED <<rows, files, wk, strays>>
    BY <1>14 DEF ClearStart, store, hist
  <2>2. \A d \in Commands, b \in Blocks :
           cmd[d].pc \in {"clearFiles", "clearLeft"} /\ b \in cmd[d].todo
             => cmd'[d].pc = cmd[d].pc /\ b \in cmd'[d].todo
    BY <1>14, <1>w DEF ClearStart, CommandStates
  <2>3. ASSUME NEW b \in Blocks, Held(b) PROVE Held(b)'
    BY <2>1, <2>2, <2>3 DEF Held, Target
  <2> QED
    BY <1>a, <2>1, <2>3
<1>15. ASSUME NEW c \in Commands, ClearRows(c) \/ ClearRowsFail(c) PROVE Goal
  <2>1. PICK t \in SUBSET Blocks, p \in {"clearFiles", "clearLeft"} :
          /\ cmd' = [cmd EXCEPT ![c].pc = p, ![c].todo = t]
          /\ \A b \in rows : b \in rows' \/ b \in strays' \/ b \in t
          /\ strays \subseteq strays' /\ UNCHANGED <<files, wk>> /\ cmd[c].pc = "clearRows"
    <3>1. CASE ClearRows(c)
      BY <3>1 DEF ClearRows, hist, TypeOK
    <3>2. CASE ClearRowsFail(c)
      BY <3>2 DEF ClearRowsFail, TypeOK
    <3> QED
      BY <1>15, <3>1, <3>2
  <2>2. /\ cmd'[c].pc = p /\ cmd'[c].todo = t
        /\ \A d \in Commands : d # c => cmd'[d] = cmd[d]
    BY <1>w, <2>1 DEF CommandStates
  <2>3. ASSUME NEW b \in Blocks, Held(b) PROVE Held(b)'
    BY <2>1, <2>2, <2>3 DEF Held, Target
  <2> QED
    BY <1>a, <2>1, <2>3
<1>16. ASSUME NEW c \in Commands, ClearFile(c) \/ ClearFileFails(c) PROVE Goal
  <2>1. PICK v \in cmd[c].todo : Cleared(c, v) /\ (Removes(v) \/ RemoveFails(v))
    BY <1>16 DEF ClearFile, ClearFileFails
  <2>0. v \in Blocks
    BY <1>w, <2>1 DEF CommandStates
  <2>2. /\ \A x \in Blocks : files'[x] = files[x] \/ (x = v /\ files'[x] = Absent)
        /\ \A x \in Blocks : x # v => (x \in strays' <=> x \in strays)
        /\ files'[v] # Absent => v \in strays'
    BY <2>0, <2>1, Unlinked
  <2>3. /\ cmd'[c].pc = cmd[c].pc /\ cmd'[c].todo = cmd[c].todo \ {v}
        /\ \A d \in Commands : d # c => cmd'[d] = cmd[d]
        /\ UNCHANGED <<rows, wk>>
    BY <1>w, <2>1 DEF Cleared, CommandStates
  <2>4. ASSUME NEW b \in Blocks, b # v, Held(b) PROVE Held(b)'
    BY <2>2, <2>3, <2>4 DEF Held, Target
  <2>5. ASSUME NEW b \in Blocks, files'[b] # Absent PROVE Held(b)'
    <3>1. CASE b # v
      BY <1>a, <2>2, <2>4, <2>5, <3>1
    <3>2. CASE b = v
      BY <2>2, <2>5, <3>2 DEF Held
    <3> QED
      BY <3>1, <3>2
  <2> QED
    BY <2>5
<1>17. ASSUME NEW c \in Commands, ClearDone(c) PROVE Goal
  <2>1. /\ cmd[c].todo = {} /\ UNCHANGED <<rows, files, wk, strays>>
        /\ \A d \in Commands : d # c => cmd'[d] = cmd[d]
    BY <1>17, <1>w DEF ClearDone, store, hist
  <2>2. ASSUME NEW b \in Blocks, Held(b) PROVE Held(b)'
    BY <2>1, <2>2 DEF Held, Target
  <2> QED
    BY <1>a, <2>1, <2>2
<1>18. ASSUME NEW c \in Commands, SetQuota(c) \/ SetEnabled(c) \/ Pin(c) \/ Unpin(c)
       PROVE Goal
  BY <1>1, <1>18 DEF SetQuota, SetEnabled, Pin, Unpin, store, hist
<1>19. ASSUME SweepFile \/ SweepFileFails PROVE Goal
  <2>1. PICK v \in ev.victims : Swept(v) /\ (Removes(v) \/ RemoveFails(v))
    BY <1>19 DEF SweepFile, SweepFileFails
  <2>0. v \in Blocks
    BY <2>1 DEF SweeperStates, TypeOK
  <2>2. /\ \A x \in Blocks : files'[x] = files[x] \/ (x = v /\ files'[x] = Absent)
        /\ \A x \in Blocks : x # v => (x \in strays' <=> x \in strays)
        /\ files'[v] # Absent => v \in strays'
    BY <2>0, <2>1, Unlinked
  <2>3. UNCHANGED <<rows, wk, cmd>>
    BY <2>1 DEF Swept
  <2>4. ASSUME NEW b \in Blocks, b # v, Held(b) PROVE Held(b)'
    BY <2>2, <2>3, <2>4 DEF Held, Target
  <2>5. ASSUME NEW b \in Blocks, files'[b] # Absent PROVE Held(b)'
    <3>1. CASE b # v
      BY <1>a, <2>2, <2>4, <2>5, <3>1
    <3>2. CASE b = v
      BY <2>2, <2>5, <3>2 DEF Held
    <3> QED
      BY <3>1, <3>2
  <2> QED
    BY <2>5
<1>20. ASSUME SweepRow PROVE Goal
  <2>1. /\ rows' = rows \ {ev.victim} /\ UNCHANGED <<files, wk, cmd>>
        /\ strays' = IF files[ev.victim] # Absent THEN strays \cup {ev.victim} ELSE strays
    BY <1>20 DEF SweepRow
  <2>2. ASSUME NEW b \in Blocks, files[b] # Absent, Held(b) PROVE Held(b)'
    BY <2>1, <2>2 DEF Held, Target
  <2> QED
    BY <1>a, <2>1, <2>2
<1>21. ASSUME \/ SweepStart \/ SweepDone \/ SweeperExits \/ SweepRowFails
              \/ Stop \/ RemoteWrite \/ UNCHANGED vars
       PROVE Goal
  BY <1>1, <1>21 DEF SweepStart, SweepDone, SweeperExits, SweepRowFails, Stop, RemoteWrite,
     vars, store, hist
<1>22. ASSUME Rot PROVE Goal
  <2>1. UNCHANGED <<rows, wk, cmd, strays>>
    BY <1>22 DEF Rot
  <2>2. \A b \in Blocks : files'[b] # Absent => files[b] # Absent
    BY <1>22 DEF Rot, TypeOK
  <2>3. ASSUME NEW b \in Blocks, Held(b) PROVE Held(b)'
    BY <2>1, <2>3 DEF Held, Target
  <2> QED
    BY <1>a, <2>2, <2>3
<1>23. ASSUME Restart PROVE Goal
  <2>1. UNCHANGED <<rows, files>> /\ strays' = strays \cup Orphans
    BY <1>23 DEF Restart
  <2> QED
    BY <2>1 DEF Held, Orphans
<1> HIDE DEF Goal
<1>24. ASSUME NEW w \in Workers, WorkerStep(w) \/ WorkerFault(w) PROVE Goal
  BY <1>24, <1>3, <1>5, <1>6, <1>7, <1>8, <1>9, <1>10, <1>11, <1>12, <1>13
  DEF WorkerStep, WorkerFault
<1>25. ASSUME NEW c \in Commands, CommandStep(c) \/ CommandFault(c) PROVE Goal
  BY <1>25, <1>14, <1>15, <1>16, <1>17, <1>18 DEF CommandStep, CommandFault
<1> QED
  BY <1>19, <1>20, <1>21, <1>22, <1>23, <1>24, <1>25
  DEF Next, Step, Fault, SweeperStep, SweeperFault

\* At rest every file without a row is one that a failure, a sweep, a clean-up or the end of
\* a process is known to have left: uploads, clears, toggles and readers leave none behind in
\* any interleaving.
THEOREM OrphansAreKnown == Spec => []OrphansAreStrays
<1>1. Init => IndexInv
  BY DEF Init, LeftBehind, IndexInv, Held, Orphans
<1>2. IndexInv => OrphansAreStrays
  <2> SUFFICES ASSUME IndexInv, Quiescent, NEW b \in Orphans PROVE b \in strays
    BY DEF OrphansAreStrays
  <2>1. b \in Blocks /\ files[b] # Absent /\ b \notin rows
    BY DEF Orphans
  <2> QED
    BY <2>1 DEF IndexInv, Held, Quiescent
<1> QED
  BY <1>1, <1>2, TypeCorrect, IndexInvNext, PTL DEF Spec

\* Over whatever directory and index earlier mounts left, and whichever statements and
\* removals fail, no file is torn, and no file is without its row but for a known reason.
THEOREM SoundFiles == Spec => []FilesSound
<1>1. NoTornBlock /\ OrphansAreStrays => FilesSound
  BY DEF FilesSound
<1> QED
  BY <1>1, WholeFiles, OrphansAreKnown, PTL

-----------------------------------------------------------------------------
(* Freshness.  Version v of key k is in force when it is no older than any *)
(* upload of k that is settled or still invalidating the cache.            *)

Invalidating == {"invRows", "invFiles"}
StoringPcs   == {"put", "create", "write", "rename", "index"}

InForce(k, v) ==
    /\ v >= settled[k]
    /\ \A u \in Workers : wk[u].pc \in Invalidating /\ wk[u].key = k => v >= wk[u].ver

\* The same, of the uploads that have taken the rows away already.
InForceIndexed(k, v) ==
    /\ v >= settled[k]
    /\ \A u \in Workers : wk[u].pc = "invFiles" /\ wk[u].key = k => v >= wk[u].ver

\* What worker w carries, found or is about to index is recent enough for its read, and
\* for every read that may begin before it is done.
Fit(w) ==
    /\ wk[w].floor <= settled[wk[w].key]
    /\ wk[w].key \notin exposed =>
        /\ wk[w].pc \in StoringPcs => InForce(wk[w].key, wk[w].ver)
        /\ wk[w].pc = "index" /\ files[Target(w)] # Absent =>
              InForce(wk[w].key, files[Target(w)].ver)
        /\ wk[w].pc = "open" /\ files[Target(w)] # Absent =>
              files[Target(w)].ver >= wk[w].floor
        /\ wk[w].pc \in {"dropNew", "done"} => wk[w].ver >= wk[w].floor

FreshInv ==
    /\ \A k \in Keys : InForce(k, s3[k])
    /\ \A w \in Workers : Fit(w)
    /\ \A b \in rows : b.key \notin exposed /\ files[b] # Absent =>
            InForceIndexed(b.key, files[b].ver)

\* Versions are numbers, whoever holds them.
LEMMA VersionTypes ==
  ASSUME TypeOK
  PROVE  /\ \A k \in Keys : s3[k] \in Nat /\ settled[k] \in Nat
         /\ \A w \in Workers : wk[w].ver \in Nat /\ wk[w].floor \in Nat
         /\ \A w \in Workers : wk[w].key \in Keys /\ Target(w) \in Blocks
         /\ \A b \in Blocks : b.key \in Keys
         /\ \A b \in Blocks : files[b] # Absent => files[b].ver \in Nat
<1>1. Versions \subseteq Nat
  BY CacheAssumption DEF Versions
<1>2. \A w \in Workers : wk[w] \in WorkerStates
  BY DEF TypeOK
<1>3. \A w \in Workers : /\ wk[w].ver \in Nat /\ wk[w].floor \in Nat
                        /\ wk[w].key \in Keys /\ Target(w) \in Blocks
  BY <1>1, <1>2, ConstantTypes DEF WorkerStates, Target
<1>4. \A b \in Blocks : files[b] # Absent => files[b].ver \in Nat
  BY <1>1 DEF TypeOK, FileStates, Data
<1>5. \A k \in Keys : s3[k] \in Nat /\ settled[k] \in Nat
  BY <1>1 DEF TypeOK
<1> QED
  BY <1>3, <1>4, <1>5 DEF Blocks

\* Files disappear, or are damaged, and none gets another version.
Fades == \A b \in Blocks : files'[b] # Absent =>
            files[b] # Absent /\ files'[b].ver = files[b].ver

\* Steps that move no worker.
LEMMA FadingKeeps ==
  ASSUME TypeOK, FreshInv, Fades, rows' \subseteq rows,
         UNCHANGED <<wk, settled, exposed>>,
         \A k \in Keys : s3'[k] \in Nat /\ s3'[k] >= s3[k]
  PROVE  FreshInv'
<1>1. \A k, v : InForce(k, v)' <=> InForce(k, v)
  BY DEF InForce
<1>2. \A k, v : InForceIndexed(k, v)' <=> InForceIndexed(k, v)
  BY DEF InForceIndexed
<1>3. ASSUME NEW k \in Keys PROVE InForce(k, s3'[k])
  <2>1. InForce(k, s3[k])
    BY DEF FreshInv
  <2> QED
    BY <2>1, VersionTypes DEF InForce
<1>4. ASSUME NEW w \in Workers PROVE Fit(w)'
  <2>1. Fit(w) /\ Target(w)' = Target(w) /\ Target(w) \in Blocks
    BY VersionTypes DEF FreshInv, Target
  <2> QED
    BY <1>1, <2>1 DEF Fit, Fades
<1>5. \A b \in rows' : b.key \notin exposed' /\ files'[b] # Absent =>
          InForceIndexed(b.key, files'[b].ver)
  BY DEF FreshInv, Fades, TypeOK
<1>6. \A k \in Keys : InForce(k, s3[k])'
  BY <1>1, <1>3
<1>7. \A b \in rows' : b.key \notin exposed' /\ files'[b] # Absent =>
          InForceIndexed(b.key, files[b].ver)'
  BY <1>2, <1>5
<1> QED
  BY <1>4, <1>6, <1>7 DEF FreshInv

\* Steps of one worker that is not invalidating anything, or goes on with it.
LEMMA OwnStepKeeps ==
  ASSUME TypeOK, FreshInv, Fades, rows' \subseteq rows, NEW w \in Workers,
         UNCHANGED <<s3, settled, exposed>>,
         \A x \in Workers : x # w => wk'[x] = wk[x],
         \/ wk[w].pc \notin Invalidating /\ wk'[w].pc \notin Invalidating
         \/ wk'[w].pc = wk[w].pc /\ wk'[w].key = wk[w].key /\ wk'[w].ver = wk[w].ver,
         Fit(w)'
  PROVE  FreshInv'
<1>1. \A k, v : InForce(k, v)' <=> InForce(k, v)
  BY DEF InForce, Invalidating
<1>2. \A k, v : InForceIndexed(k, v)' <=> InForceIndexed(k, v)
  BY DEF InForceIndexed, Invalidating
<1>4. ASSUME NEW x \in Workers, x # w PROVE Fit(x)'
  <2>1. Fit(x) /\ Target(x)' = Target(x) /\ Target(x) \in Blocks /\ wk'[x] = wk[x]
    BY <1>4, VersionTypes DEF FreshInv, Target
  <2> QED
    BY <1>1, <2>1 DEF Fit, Fades
<1>5. \A b \in rows' : b.key \notin exposed' /\ files'[b] # Absent =>
          InForceIndexed(b.key, files'[b].ver)
  BY DEF FreshInv, Fades, TypeOK
<1>6. \A k \in Keys : InForce(k, s3[k])'
  BY <1>1 DEF FreshInv
<1>7. \A b \in rows' : b.key \notin exposed' /\ files'[b] # Absent =>
          InForceIndexed(b.key, files[b].ver)'
  BY <1>2, <1>5
<1> QED
  BY <1>4, <1>6, <1>7 DEF FreshInv

\* What a removal of one file does, or one that fails.
LEMMA RemovalFades ==
  ASSUME TypeOK, NEW b \in Blocks, Removes(b) \/ RemoveFails(b) PROVE Fades
BY DEF Fades, TypeOK, Removes, RemoveFails

\* What a worker's own update makes of its record.
LEMMA WorkerFields ==
  ASSUME TypeOK, NEW w \in Workers
  PROVE  /\ \A p : wk' = [wk EXCEPT ![w].pc = p] =>
               /\ wk'[w].pc = p /\ wk'[w].key = wk[w].key /\ wk'[w].ver = wk[w].ver
               /\ wk'[w].floor = wk[w].floor /\ Target(w)' = Target(w)
         /\ \A r : wk' = [wk EXCEPT ![w] = r] => wk'[w] = r
<1>1. wk \in [Workers -> WorkerStates] /\ wk[w] \in WorkerStates
  BY DEF TypeOK
<1> QED
  BY <1>1 DEF WorkerStates, Target

LEMMA ReadFresh ==
  ASSUME TypeOK, FreshInv, NEW w \in Workers, WorkerStep(w) \/ WorkerFault(w),
         \/ StartRead(w) \/ Bypass(w) \/ LookupHit(w) \/ LookupMiss(w)
         \/ OpenMissing(w) \/ OpenHit(w) \/ OpenBad(w) \/ DropBadRow(w)
         \/ DropBadFile(w) \/ Fetch(w) \/ FetchFails(w) \/ FinishRead(w)
         \/ DropBadRowFails(w) \/ DropBadFileFails(w)
  PROVE  FreshInv'
<1>f. Fit(w) /\ \A k \in Keys : InForce(k, s3[k])
  BY DEF FreshInv
<1>t. /\ \A k \in Keys : s3[k] \in Nat /\ settled[k] \in Nat
      /\ wk[w].ver \in Nat /\ wk[w].floor \in Nat
      /\ wk[w].key \in Keys /\ Target(w) \in Blocks
  BY VersionTypes
<1>w. wk \in [Workers -> WorkerStates]
  BY DEF TypeOK
<1>s. UNCHANGED <<s3, settled, exposed>>
  BY DEF StartRead, Bypass, LookupHit, LookupMiss, OpenMissing, OpenHit, OpenBad,
         DropBadRow, DropBadFile, Fetch, FetchFails, FinishRead, DropBadRowFails,
         DropBadFileFails, DroppedFile, store, hist
<1>x. \A x \in Workers : x # w => wk'[x] = wk[x]
  BY WorkerFrame
<1>q. ASSUME UNCHANGED files PROVE Fades
  BY <1>q DEF Fades
<1>o. ASSUME Fades, rows' \subseteq rows, Fit(w)',
             wk[w].pc \notin Invalidating /\ wk'[w].pc \notin Invalidating
      PROVE  FreshInv'
  BY <1>o, <1>s, <1>x, OwnStepKeeps
<1>g. ASSUME NEW p \in {"fetch", "dropRow", "dropFile"}, UNCHANGED rows \/ rows' \subseteq rows,
             Goto(w, p), wk[w].pc \notin Invalidating, Fades
      PROVE FreshInv'
  <2>1. /\ wk'[w].pc = p /\ wk'[w].key = wk[w].key /\ wk'[w].floor = wk[w].floor
    BY <1>g, WorkerFields DEF Goto
  <2>2. Fit(w)'
    BY <1>f, <1>s, <2>1 DEF Fit, StoringPcs
  <2> QED
    BY <1>g, <1>o, <2>1, <2>2 DEF Invalidating
<1>1. CASE StartRead(w)
  <2>1. PICK k \in Keys, o \in Offsets :
           wk' = [wk EXCEPT ![w] = [WorkerIdle EXCEPT !.pc = "lookup", !.key = k,
                                        !.off = o, !.floor = settled[k]]]
    BY <1>1 DEF StartRead
  <2>2. wk'[w].pc = "lookup" /\ wk'[w].key = k /\ wk'[w].floor = settled[k]
    BY <2>1, <1>w DEF WorkerIdle
  <2>3. Fit(w)'
    BY <1>s, <1>t, <2>2 DEF Fit, StoringPcs
  <2> QED
    BY <1>1, <1>o, <1>q, <2>2, <2>3 DEF StartRead, store, Invalidating
<1>2. CASE Bypass(w)
  <2>1. /\ wk'[w].pc = "done" /\ wk'[w].key = wk[w].key /\ wk'[w].floor = wk[w].floor
        /\ wk'[w].ver = s3[wk[w].key]
    BY <1>2, <1>w DEF Bypass, WorkerStates
  <2>2. Fit(w)'
    BY <1>f, <1>s, <1>t, <2>1 DEF Fit, StoringPcs, InForce
  <2> QED
    BY <1>2, <1>o, <1>q, <2>1, <2>2 DEF Bypass, store, Invalidating
<1>3. CASE LookupHit(w)
  <2>1. PICK b \in RowsAt(wk[w].key, wk[w].off) :
           wk' = [wk EXCEPT ![w].pc = "open", ![w].len = b.len]
    BY <1>3 DEF LookupHit
  <2>2. b \in rows /\ b.key = wk[w].key /\ b.off = wk[w].off /\ b \in Blocks
    BY <2>1 DEF RowsAt, TypeOK
  <2>3. /\ wk'[w].pc = "open" /\ wk'[w].key = wk[w].key /\ wk'[w].floor = wk[w].floor
        /\ wk'[w].off = wk[w].off /\ wk'[w].len = b.len
    BY <2>1, <1>w DEF WorkerStates
  <2>4. Target(w)' = b
    BY <2>2, <2>3 DEF Target, Blocks
  <2>5. UNCHANGED <<rows, files>>
    BY <1>3 DEF LookupHit, store
  <2>6. b.key \notin exposed /\ files[b] # Absent => files[b].ver >= settled[b.key]
    BY <2>2 DEF FreshInv, InForceIndexed
  <2>7. files[b] # Absent => files[b].ver \in Nat
    BY <2>2, VersionTypes
  <2>8. wk[w].key \notin exposed /\ files[b] # Absent => files[b].ver >= wk[w].floor
    BY <1>f, <1>t, <2>2, <2>6, <2>7 DEF Fit
  <2>9. Fit(w)'
    BY <1>f, <1>s, <2>3, <2>4, <2>5, <2>8 DEF Fit, StoringPcs
  <2> QED
    BY <1>3, <1>o, <1>q, <2>3, <2>5, <2>9 DEF LookupHit, Invalidating
<1>4. CASE LookupMiss(w) \/ OpenMissing(w)
  BY <1>4, <1>q, <1>g DEF LookupMiss, OpenMissing, store, Invalidating
<1>5. CASE OpenBad(w)
  BY <1>5, <1>q, <1>g DEF OpenBad, store, Invalidating
<1>6. CASE OpenHit(w)
  <2>1. /\ wk'[w].pc = "done" /\ wk'[w].key = wk[w].key /\ wk'[w].floor = wk[w].floor
        /\ wk'[w].ver = files[Target(w)].ver
    BY <1>6, <1>w DEF OpenHit, WorkerStates
  <2>2. wk[w].pc = "open" /\ files[Target(w)] # Absent
    BY <1>6 DEF OpenHit
  <2>3. Fit(w)'
    BY <1>f, <1>s, <2>1, <2>2 DEF Fit, StoringPcs
  <2> QED
    BY <1>6, <1>o, <1>q, <2>1, <2>3 DEF OpenHit, store, Invalidating
<1>7. CASE DropBadRow(w) \/ DropBadRowFails(w)
  BY <1>7, <1>q, <1>g DEF DropBadRow, DropBadRowFails, Invalidating, store
<1>8. CASE DropBadFile(w) \/ DropBadFileFails(w)
  <2>1. Fades
    BY <1>8, <1>t, RemovalFades DEF DropBadFile, DropBadFileFails
  <2> QED
    BY <1>8, <2>1, <1>g DEF DropBadFile, DropBadFileFails, DroppedFile, Invalidating
<1>9. CASE Fetch(w)
  <2>1. /\ wk'[w].pc = "put" /\ wk'[w].key = wk[w].key /\ wk'[w].floor = wk[w].floor
        /\ wk'[w].ver = s3[wk[w].key]
    BY <1>9, <1>w DEF Fetch, WorkerStates
  <2>2. wk[w].pc \notin Invalidating
    BY <1>9 DEF Fetch, Invalidating
  <2>3. \A v : InForce(wk[w].key, v)' <=> InForce(wk[w].key, v)
    BY <1>s, <1>x, <2>1, <2>2 DEF InForce, Invalidating
  <2>4. Fit(w)'
    BY <1>f, <1>s, <1>t, <2>1, <2>3 DEF Fit
  <2> QED
    BY <1>9, <1>o, <1>q, <2>1, <2>2, <2>4 DEF Fetch, store, Invalidating
<1>10. CASE FetchFails(w) \/ FinishRead(w)
  <2>1. wk'[w] = WorkerIdle
    BY <1>10, WorkerFields DEF FetchFails, FinishRead
  <2>2. wk'[w].pc = "idle" /\ wk'[w].floor = 0 /\ wk'[w].key \in Keys
    BY <2>1, ConstantTypes DEF WorkerIdle, WorkerStates
  <2>3. Fit(w)'
    BY <1>s, <1>t, <2>2 DEF Fit, StoringPcs
  <2> QED
    BY <1>10, <1>o, <1>q, <2>2, <2>3 DEF FetchFails, FinishRead, store, Invalidating
<1> QED
  BY <1>1, <1>2, <1>3, <1>4, <1>5, <1>6, <1>7, <1>8, <1>9, <1>10

LEMMA PutFresh ==
  ASSUME TypeOK, StagedInv, FreshInv, NEW w \in Workers, WorkerStep(w) \/ WorkerFault(w),
         \/ PutCheck(w) \/ PutCreate(w) \/ PutWrite(w) \/ PutRename(w)
         \/ PutFails(w) \/ PutIndex(w) \/ PutRefused(w) \/ PutDrop(w)
         \/ PutIndexFails(w) \/ PutDropFails(w)
  PROVE  FreshInv'
<1>f. Fit(w)
  BY DEF FreshInv
<1>t. /\ \A k \in Keys : settled[k] \in Nat
      /\ wk[w].ver \in Nat /\ wk[w].floor \in Nat
      /\ wk[w].key \in Keys /\ Target(w) \in Blocks
  BY VersionTypes
<1>p. wk[w].pc \in StoringPcs \cup {"dropNew"} /\ wk[w].pc \notin Invalidating
  BY DEF PutCheck, PutCreate, PutWrite, PutRename, PutFails, PutIndex, PutRefused, PutDrop,
         PutIndexFails, PutDropFails, DroppedNew, StoringPcs, Invalidating
<1>g. PICK p \in (StoringPcs \cup {"dropNew", "done"}) \ {"put"} : Goto(w, p)
  BY DEF PutCheck, PutCreate, PutWrite, PutRename, PutFails, PutIndex, PutRefused, PutDrop,
         PutIndexFails, PutDropFails, DroppedNew, StoringPcs
<1>k. /\ wk'[w].pc = p /\ wk'[w].key = wk[w].key /\ wk'[w].ver = wk[w].ver
      /\ wk'[w].floor = wk[w].floor /\ Target(w)' = Target(w)
      /\ wk'[w].pc \notin Invalidating
  BY <1>g, WorkerFields DEF Goto, StoringPcs, Invalidating
<1>s. UNCHANGED <<s3, settled, exposed>>
  BY DEF PutCheck, PutCreate, PutWrite, PutRename, PutFails, PutIndex, PutRefused, PutDrop,
         PutIndexFails, PutDropFails, DroppedNew, store, hist
<1>x. \A x \in Workers : x # w => wk'[x] = wk[x]
  BY WorkerFrame
<1>i. \A k, v : InForce(k, v)' <=> InForce(k, v)
  BY <1>s, <1>x, <1>k, <1>p DEF InForce, Invalidating
<1>j. \A k, v : InForceIndexed(k, v)' <=> InForceIndexed(k, v)
  BY <1>s, <1>x, <1>k, <1>p DEF InForceIndexed, Invalidating
<1>c. wk[w].key \notin exposed /\ wk[w].pc \in StoringPcs =>
          InForce(wk[w].key, wk[w].ver) /\ wk[w].ver >= wk[w].floor
  BY <1>f, <1>t DEF Fit, InForce
<1>d. wk[w].key \notin exposed => wk[w].ver >= wk[w].floor
  BY <1>f, <1>c, <1>p DEF Fit
<1>e. p \in StoringPcs => wk[w].pc \in StoringPcs
  <2>1. CASE wk[w].pc = "dropNew"
    <3>1. PutDrop(w) \/ PutDropFails(w)
      BY <2>1 DEF PutCheck, PutCreate, PutWrite, PutRename, PutFails, PutIndex, PutRefused,
         PutIndexFails
    <3>2. wk'[w].pc = "done"
      BY <3>1, WorkerFields DEF PutDrop, PutDropFails, DroppedNew, Goto
    <3> QED
      BY <1>k, <3>2 DEF StoringPcs
  <2> QED
    BY <1>p, <2>1
\* All but the renaming.
<1>1. ASSUME p # "index", Fades, rows' \subseteq rows PROVE FreshInv'
  <2>1. Fit(w)'
    BY <1>1, <1>c, <1>d, <1>e, <1>f, <1>g, <1>i, <1>k, <1>s DEF Fit, StoringPcs
  <2> QED
    BY <1>1, <1>k, <1>p, <1>s, <1>x, <2>1, OwnStepKeeps
<1>2. ASSUME UNCHANGED files PROVE Fades
  BY <1>2 DEF Fades
<1>3. ASSUME \/ PutCheck(w) \/ PutCreate(w) \/ PutWrite(w) \/ PutFails(w) \/ PutRefused(w)
             \/ PutIndexFails(w)
      PROVE FreshInv'
  <2>1. UNCHANGED <<files, rows>>
    BY <1>3 DEF PutCheck, PutCreate, PutWrite, PutFails, PutRefused, PutIndexFails, store
  <2>2. wk'[w].pc # "index"
    BY <1>3, WorkerFields DEF PutCheck, PutCreate, PutWrite, PutFails, PutRefused,
       PutIndexFails, Goto
  <2> QED
    BY <1>1, <1>2, <1>k, <2>1, <2>2
<1>4. ASSUME PutDrop(w) \/ PutDropFails(w) PROVE FreshInv'
  <2>1. wk'[w].pc # "index"
    BY <1>4, WorkerFields DEF PutDrop, PutDropFails, DroppedNew, Goto
  <2>2. Fades /\ UNCHANGED rows
    BY <1>4, <1>t, RemovalFades DEF PutDrop, PutDropFails, DroppedNew
  <2> QED
    BY <1>1, <1>k, <2>1, <2>2
\* The new file is as recent as what its worker fetched, whoever else is at the block.
<1>5. ASSUME PutRename(w) PROVE FreshInv'
  <2>1. /\ wk[w].pc = "rename" /\ wk'[w].pc = "index" /\ UNCHANGED rows
        /\ files' = [files EXCEPT ![Target(w)] = tmp[w]]
        /\ tmp[w] # Absent /\ tmp[w].ver = wk[w].ver
    BY <1>5, WorkerFields DEF PutRename, Goto, TmpName, StagedInv
  <2>2. /\ files'[Target(w)] = tmp[w]
        /\ \A b \in Blocks : b # Target(w) => files'[b] = files[b]
    BY <1>t, <2>1 DEF TypeOK
  <2>3. Target(w).key = wk[w].key
    BY DEF Target
  <2>4. wk[w].key \notin exposed => InForce(wk[w].key, wk[w].ver)
    BY <1>c, <2>1 DEF StoringPcs
  <2>5. Fit(w)'
    BY <1>f, <1>i, <1>k, <1>s, <2>1, <2>2, <2>4 DEF Fit, StoringPcs
  <2>6. ASSUME NEW x \in Workers, x # w PROVE Fit(x)'
    <3>1. Fit(x) /\ Target(x)' = Target(x) /\ Target(x) \in Blocks /\ wk'[x] = wk[x]
      BY <1>x, <2>6, VersionTypes DEF FreshInv, Target
    <3>2. CASE Target(x) # Target(w)
      BY <1>i, <1>s, <2>2, <3>1, <3>2 DEF Fit
    <3>3. CASE Target(x) = Target(w)
      <4>1. Target(x).key = wk[x].key
        BY DEF Target
      <4>2. wk[x].key = wk[w].key
        BY <2>3, <3>3, <4>1
      <4>3. wk[x].floor <= settled[wk[w].key] /\ wk[x].floor \in Nat
        BY <3>1, <4>2, VersionTypes DEF Fit
      <4>4. wk[w].key \notin exposed => wk[w].ver >= wk[x].floor
        BY <1>t, <2>4, <4>3 DEF InForce
      <4> QED
        BY <1>i, <1>s, <2>1, <2>2, <2>4, <3>1, <3>3, <4>2, <4>4 DEF Fit
    <3> QED
      BY <3>2, <3>3
  <2>7. ASSUME NEW b \in rows', b.key \notin exposed', files'[b] # Absent
        PROVE InForceIndexed(b.key, files'[b].ver)
    <3>0. b \in rows /\ b \in Blocks
      BY <2>1, <2>7 DEF TypeOK
    <3>1. CASE b = Target(w)
      BY <1>s, <2>1, <2>2, <2>3, <2>4, <2>7, <3>1 DEF InForce, InForceIndexed, Invalidating
    <3>2. CASE b # Target(w)
      BY <1>s, <2>2, <2>7, <3>0, <3>2 DEF FreshInv
    <3> QED
      BY <3>1, <3>2
  <2>8. \A b \in rows' : b.key \notin exposed' /\ files'[b] # Absent =>
            InForceIndexed(b.key, files[b].ver)'
    BY <1>j, <2>7
  <2>9. \A k \in Keys : InForce(k, s3[k])'
    BY <1>i, <1>s DEF FreshInv
  <2> QED
    BY <2>5, <2>6, <2>8, <2>9 DEF FreshInv
\* The new row's file was stored by this worker or by another that is as recent.
<1>6. ASSUME PutIndex(w) PROVE FreshInv'
  <2>1. /\ wk[w].pc = "index" /\ wk'[w].pc = "done" /\ UNCHANGED files
        /\ rows' = rows \cup {Target(w)}
    BY <1>6, WorkerFields DEF PutIndex, Goto
  <2>2. Fit(w)'
    BY <1>d, <1>f, <1>k, <1>s, <2>1 DEF Fit, StoringPcs
  <2>3. ASSUME NEW x \in Workers, x # w PROVE Fit(x)'
    <3>1. Fit(x) /\ Target(x)' = Target(x) /\ wk'[x] = wk[x]
      BY <1>x, <2>3 DEF FreshInv, Target
    <3> QED
      BY <1>i, <1>s, <2>1, <3>1 DEF Fit
  <2>4. ASSUME NEW b \in rows', b.key \notin exposed', files'[b] # Absent
        PROVE InForceIndexed(b.key, files'[b].ver)
    <3>1. CASE b = Target(w)
      <4>1. b.key = wk[w].key
        BY <3>1 DEF Target
      <4>2. InForce(wk[w].key, files[Target(w)].ver)
        BY <1>f, <1>s, <2>1, <2>4, <3>1, <4>1 DEF Fit
      <4> QED
        BY <2>1, <3>1, <4>1, <4>2 DEF InForce, InForceIndexed, Invalidating
    <3>2. CASE b # Target(w)
      BY <1>s, <2>1, <2>4, <3>2 DEF FreshInv
    <3> QED
      BY <3>1, <3>2
  <2>5. \A b \in rows' : b.key \notin exposed' /\ files'[b] # Absent =>
            InForceIndexed(b.key, files[b].ver)'
    BY <1>j, <2>4
  <2>6. \A k \in Keys : InForce(k, s3[k])'
    BY <1>i, <1>s DEF FreshInv
  <2> QED
    BY <2>2, <2>3, <2>5, <2>6 DEF FreshInv
<1> QED
  BY <1>3, <1>4, <1>5, <1>6

LEMMA UploadFresh ==
  ASSUME TypeOK, FreshInv, NEW w \in Workers, Upload(w)
  PROVE  FreshInv'
<1>1. PICK k \in Keys :
          /\ s3' = [s3 EXCEPT ![k] = @ + 1]
          /\ wk' = [wk EXCEPT ![w] = [WorkerIdle EXCEPT !.pc = "invRows", !.key = k,
                                                       !.ver = s3[k] + 1]]
          /\ exposed' = IF Storing(k) = {} THEN exposed ELSE exposed \cup {k}
  BY DEF Upload
<1>2. wk[w].pc = "idle" /\ UNCHANGED <<rows, files, settled>>
  BY DEF Upload
<1>3. /\ wk'[w].pc = "invRows" /\ wk'[w].key = k /\ wk'[w].ver = s3[k] + 1
      /\ wk'[w].floor = 0
  <2>1. wk'[w] = [WorkerIdle EXCEPT !.pc = "invRows", !.key = k, !.ver = s3[k] + 1]
    BY <1>1 DEF TypeOK
  <2> QED
    BY <2>1 DEF WorkerIdle
<1>4. \A x \in Workers : x # w => wk'[x] = wk[x]
  BY <1>1
<1>5. s3'[k] = s3[k] + 1 /\ \A l \in Keys : l # k => s3'[l] = s3[l]
  BY <1>1 DEF TypeOK
<1>6. \A l \in Keys : InForce(l, s3[l]) /\ s3[l] \in Nat /\ settled[l] \in Nat
  BY VersionTypes DEF FreshInv
\* The new upload restricts its own key only, and no worker that still has to index
\* something of that key, unless the key counts as exposed.
<1>7. \A l, v : l # k => (InForce(l, v)' <=> InForce(l, v))
  BY <1>2, <1>3, <1>4 DEF InForce, Invalidating
<1>8. \A l, v : InForceIndexed(l, v)' <=> InForceIndexed(l, v)
  BY <1>2, <1>3, <1>4 DEF InForceIndexed
<1>9. InForce(k, s3[k])'
  <2>1. \A u \in Workers : wk[u].ver \in Nat
    BY VersionTypes
  <2> QED
    BY <1>2, <1>3, <1>4, <1>5, <1>6, <2>1 DEF InForce
<1>10. ASSUME NEW l \in Keys PROVE InForce(l, s3[l])'
  <2>1. CASE l # k
    BY <1>5, <1>6, <1>7, <2>1
  <2> QED
    BY <1>9, <2>1
<1>11. exposed \subseteq exposed'
  BY <1>1
<1>12. Fit(w)'
  BY <1>2, <1>3, <1>6 DEF Fit, StoringPcs
<1>13. ASSUME NEW x \in Workers, x # w PROVE Fit(x)'
  <2>1. Fit(x) /\ Target(x)' = Target(x) /\ wk'[x] = wk[x]
    BY <1>4, <1>13 DEF FreshInv, Target
  <2>2. wk[x].key = k /\ k \notin exposed' => wk[x].pc \notin StoringPcs
    BY <1>1 DEF Storing, StoringPcs
  <2>3. wk[x].pc = "index" => wk[x].pc \in StoringPcs
    BY DEF StoringPcs
  <2> HIDE DEF StoringPcs
  <2> QED
    BY <1>2, <1>7, <1>11, <2>1, <2>2, <2>3 DEF Fit
<1>14. \A b \in rows' : b.key \notin exposed' /\ files'[b] # Absent =>
          InForceIndexed(b.key, files'[b].ver)
  BY <1>2, <1>11 DEF FreshInv
<1>15. \A b \in rows' : b.key \notin exposed' /\ files'[b] # Absent =>
          InForceIndexed(b.key, files[b].ver)'
  BY <1>8, <1>14
<1>16. \A l \in Keys : InForce(l, s3[l])'
  BY <1>10
<1> QED
  BY <1>12, <1>13, <1>15, <1>16 DEF FreshInv

LEMMA InvalidateFresh ==
  ASSUME TypeOK, FreshInv, NEW w \in Workers, WorkerStep(w) \/ WorkerFault(w),
         \/ InvalidateRows(w) \/ InvalidateFile(w) \/ InvalidateDone(w)
         \/ InvalidateRowsFail(w) \/ InvalidateFileFails(w)
  PROVE  FreshInv'
<1>f. Fit(w) /\ \A k \in Keys : InForce(k, s3[k])
  BY DEF FreshInv
<1>w. wk \in [Workers -> WorkerStates]
  BY DEF TypeOK
<1>t. /\ \A k \in Keys : settled[k] \in Nat
      /\ wk[w].ver \in Nat /\ wk[w].key \in Keys
  BY VersionTypes
<1>x. \A x \in Workers : x # w => wk'[x] = wk[x]
  BY WorkerFrame
<1>1. CASE InvalidateFile(w) \/ InvalidateFileFails(w)
  <2>1. PICK b \in wk[w].todo : Invalidated(w, b) /\ (Removes(b) \/ RemoveFails(b))
    BY <1>1 DEF InvalidateFile, InvalidateFileFails
  <2>2. /\ wk'[w].pc = wk[w].pc /\ wk'[w].key = wk[w].key /\ wk'[w].ver = wk[w].ver
        /\ wk'[w].floor = wk[w].floor /\ wk[w].pc = "invFiles" /\ b \in Blocks
    BY <2>1, <1>w DEF Invalidated, WorkerStates
  <2>3. UNCHANGED <<s3, rows, settled, exposed>>
    BY <2>1 DEF Invalidated
  <2>4. Fit(w)'
    BY <1>f, <2>2, <2>3 DEF Fit, StoringPcs
  <2>5. Fades
    BY <2>1, <2>2, RemovalFades
  <2> QED
    BY <1>x, <2>2, <2>3, <2>4, <2>5, OwnStepKeeps
\* Either the rows go, or the key counts as exposed.
<1>2. CASE InvalidateRows(w) \/ InvalidateRowsFail(w)
  <2>1. /\ wk'[w].pc = "invFiles" /\ wk'[w].key = wk[w].key /\ wk'[w].ver = wk[w].ver
        /\ wk'[w].floor = wk[w].floor /\ wk[w].pc = "invRows"
    <3>1. CASE InvalidateRows(w)
      BY <3>1, <1>w DEF InvalidateRows, WorkerStates
    <3>2. CASE InvalidateRowsFail(w)
      BY <3>2, <1>w DEF InvalidateRowsFail, WorkerStates
    <3> QED
      BY <1>2, <3>1, <3>2
  <2>2. UNCHANGED <<s3, files, settled>> /\ exposed \subseteq exposed'
    BY <1>2 DEF InvalidateRows, InvalidateRowsFail, hist
  <2>3. /\ rows' \subseteq rows
        /\ rows' = rows \ KeyRows(wk[w].key) \/ wk[w].key \in exposed'
    BY <1>2 DEF InvalidateRows, InvalidateRowsFail
  <2>4. \A k, v : InForce(k, v)' <=> InForce(k, v)
    BY <1>x, <2>1, <2>2 DEF InForce, Invalidating
  <2>5. \A k, v : k # wk[w].key => (InForceIndexed(k, v)' <=> InForceIndexed(k, v))
    BY <1>x, <2>1, <2>2 DEF InForceIndexed
  <2>6. Fit(w)'
    BY <1>f, <2>1, <2>2 DEF Fit, StoringPcs
  <2>7. ASSUME NEW x \in Workers, x # w PROVE Fit(x)'
    <3>1. Fit(x) /\ Target(x)' = Target(x) /\ wk'[x] = wk[x]
      BY <1>x, <2>7 DEF FreshInv, Target
    <3> QED
      BY <2>2, <2>4, <3>1 DEF Fit
  <2>8. \A b \in rows' : b \in rows /\ (b.key \notin exposed' => b.key # wk[w].key)
    BY <2>3 DEF KeyRows
  <2>9. \A b \in rows' : b.key \notin exposed' /\ files'[b] # Absent =>
            InForceIndexed(b.key, files'[b].ver)
    BY <2>2, <2>8 DEF FreshInv
  <2>10. \A b \in rows' : b.key \notin exposed' /\ files'[b] # Absent =>
            InForceIndexed(b.key, files[b].ver)'
    BY <2>5, <2>8, <2>9
  <2>11. \A k \in Keys : InForce(k, s3[k])'
    BY <1>f, <2>2, <2>4
  <2> QED
    BY <2>6, <2>7, <2>10, <2>11 DEF FreshInv
\* What was in force while the upload was invalidating stays in force when it is settled.
<1>3. CASE InvalidateDone(w)
  <2>1. /\ settled' = [settled EXCEPT ![wk[w].key] = IF wk[w].ver > @ THEN wk[w].ver ELSE @]
        /\ wk[w].pc = "invFiles" /\ wk' = [wk EXCEPT ![w] = WorkerIdle]
        /\ UNCHANGED <<s3, rows, files, exposed>>
    BY <1>3 DEF InvalidateDone, store
  <2>2. wk'[w].pc = "idle" /\ wk'[w].key \in Keys /\ wk'[w].floor = 0
    <3>1. wk'[w] = WorkerIdle
      BY <2>1, WorkerFields
    <3> QED
      BY <3>1, ConstantTypes DEF WorkerIdle, WorkerStates
  <2>3. \A k \in Keys : /\ settled'[k] >= settled[k] /\ settled'[k] \in Nat
                        /\ \/ settled'[k] = settled[k]
                           \/ k = wk[w].key /\ settled'[k] = wk[w].ver
    BY <1>t, <2>1 DEF TypeOK
  <2>4. ASSUME NEW k \in Keys, NEW v, InForce(k, v) PROVE InForce(k, v)'
    <3>1. v >= settled'[k]
      BY <2>1, <2>3, <2>4 DEF InForce, Invalidating
    <3>2. \A u \in Workers : wk'[u].pc \in Invalidating /\ wk'[u].key = k => v >= wk'[u].ver
      BY <1>x, <2>2, <2>4 DEF InForce, Invalidating
    <3> QED
      BY <3>1, <3>2 DEF InForce
  <2>5. ASSUME NEW k \in Keys, NEW v, InForceIndexed(k, v) PROVE InForceIndexed(k, v)'
    <3>1. v >= settled'[k]
      BY <2>1, <2>3, <2>5 DEF InForceIndexed
    <3>2. \A u \in Workers : wk'[u].pc = "invFiles" /\ wk'[u].key = k => v >= wk'[u].ver
      BY <1>x, <2>2, <2>5 DEF InForceIndexed
    <3> QED
      BY <3>1, <3>2 DEF InForceIndexed
  <2>6. Fit(w)'
    BY <2>2, <2>3 DEF Fit, StoringPcs
  <2>7. ASSUME NEW x \in Workers, x # w PROVE Fit(x)'
    <3>1. /\ Fit(x) /\ Target(x)' = Target(x) /\ wk'[x] = wk[x]
          /\ wk[x].key \in Keys /\ wk[x].floor \in Nat /\ settled[wk[x].key] \in Nat
      BY <1>x, <2>7, VersionTypes DEF FreshInv, Target
    <3>2. wk[x].floor <= settled'[wk[x].key]
      <4>1. wk[x].floor <= settled[wk[x].key]
        BY <3>1 DEF Fit
      <4> QED
        BY <2>3, <3>1, <4>1
    <3> QED
      BY <2>1, <2>4, <3>1, <3>2 DEF Fit
  <2>8. \A b \in rows : b.key \in Keys
    BY VersionTypes DEF TypeOK
  <2>9. \A b \in rows' : b.key \notin exposed' /\ files'[b] # Absent =>
            InForceIndexed(b.key, files'[b].ver)
    BY <2>1 DEF FreshInv
  <2>10. \A b \in rows' : b.key \notin exposed' /\ files'[b] # Absent =>
            InForceIndexed(b.key, files[b].ver)'
    BY <2>1, <2>5, <2>8, <2>9
  <2>11. \A k \in Keys : InForce(k, s3[k])'
    BY <1>f, <2>1, <2>4
  <2> QED
    BY <2>6, <2>7, <2>10, <2>11 DEF FreshInv
<1> QED
  BY <1>1, <1>2, <1>3

LEMMA FreshNext == TypeOK /\ StagedInv /\ FreshInv /\ [Next]_vars => FreshInv'
<1> SUFFICES ASSUME TypeOK, StagedInv, FreshInv, [Next]_vars PROVE FreshInv'
  OBVIOUS
<1>1. ASSUME NEW w \in Workers, WorkerStep(w) \/ WorkerFault(w) PROVE FreshInv'
  BY <1>1, ReadFresh, PutFresh, UploadFresh, InvalidateFresh DEF WorkerStep, WorkerFault
<1>n. \A k \in Keys : s3[k] \in Nat
  BY VersionTypes
\* Everybody else takes rows and files away, or writes the bucket.
<1>2. ASSUME Fades, rows' \subseteq rows, UNCHANGED <<s3, wk, settled, exposed>>
      PROVE  FreshInv'
  BY <1>2, <1>n, FadingKeeps
<1>3. ASSUME UNCHANGED files PROVE Fades
  BY <1>3 DEF Fades
<1>4. ASSUME NEW c \in Commands, CommandStep(c) \/ CommandFault(c) PROVE FreshInv'
  <2>1. UNCHANGED <<wk, settled, exposed>>
    BY <1>4, OthersFrame
  <2>2. UNCHANGED s3 /\ rows' \subseteq rows
    BY <1>4 DEF CommandStep, ClearStart, ClearRows, ClearFile, ClearDone, SetQuota,
       SetEnabled, Pin, Unpin, CommandFault, ClearRowsFail, ClearFileFails, Cleared, store
  <2>3. Fades
    <3>1. CASE ClearFile(c) \/ ClearFileFails(c)
      BY <3>1, RemovalFades DEF ClearFile, ClearFileFails, TypeOK, CommandStates
    <3>2. CASE ~ClearFile(c) /\ ~ClearFileFails(c)
      <4>1. UNCHANGED files
        BY <1>4, <3>2 DEF CommandStep, ClearStart, ClearRows, ClearDone, SetQuota,
           SetEnabled, Pin, Unpin, CommandFault, ClearRowsFail, store
      <4> QED
        BY <1>3, <4>1
    <3> QED
      BY <3>1, <3>2
  <2> QED
    BY <1>2, <2>1, <2>2, <2>3
<1>5. ASSUME SweeperStep \/ SweeperFault \/ Stop PROVE FreshInv'
  <2>1. UNCHANGED <<wk, settled, exposed>>
    BY <1>5, OthersFrame
  <2>2. UNCHANGED s3 /\ rows' \subseteq rows
    BY <1>5 DEF SweeperStep, SweepStart, SweepFile, SweepRow, SweepDone, SweeperExits,
       SweeperFault, SweepFileFails, SweepRowFails, Swept, Stop, store
  <2>3. Fades
    <3>1. CASE SweepFile \/ SweepFileFails
      BY <3>1, RemovalFades DEF SweepFile, SweepFileFails, TypeOK, SweeperStates
    <3>2. CASE ~SweepFile /\ ~SweepFileFails
      <4>1. UNCHANGED files
        BY <1>5, <3>2 DEF SweeperStep, SweepStart, SweepRow, SweepDone, SweeperExits,
           SweeperFault, SweepRowFails, Stop, store
      <4> QED
        BY <1>3, <4>1
    <3> QED
      BY <3>1, <3>2
  <2> QED
    BY <1>2, <2>1, <2>2, <2>3
<1>6. ASSUME RemoteWrite PROVE FreshInv'
  <2>1. PICK k \in Keys : s3' = [s3 EXCEPT ![k] = @ + 1]
    BY <1>6 DEF RemoteWrite
  <2>2. \A l \in Keys : s3'[l] \in Nat /\ s3'[l] >= s3[l]
    BY <1>n, <2>1 DEF TypeOK
  <2> QED
    BY <1>3, <1>6, <2>2, FadingKeeps DEF RemoteWrite, hist
<1>7. ASSUME Rot PROVE FreshInv'
  <2>1. Fades
    BY <1>7 DEF Rot, Fades, TypeOK, FileStates, Data
  <2> QED
    BY <1>2, <1>7, <2>1 DEF Rot
<1>8. ASSUME UNCHANGED vars PROVE FreshInv'
  BY <1>2, <1>3, <1>8 DEF vars, store, hist
\* What was cached stays as recent when the threads that invalidate are gone.
<1>9. ASSUME Restart PROVE FreshInv'
  <2>1. UNCHANGED <<s3, rows, files, settled, exposed>>
    BY <1>9 DEF Restart
  <2>2. \A w \in Workers : wk'[w].pc = "idle" /\ wk'[w].floor = 0 /\ wk'[w].key \in Keys
    BY <1>9, ConstantTypes DEF Restart, WorkerIdle, WorkerStates
  <2>3. \A k, v : InForce(k, v) => InForce(k, v)'
    BY <2>1, <2>2 DEF InForce, Invalidating
  <2>4. \A k, v : InForceIndexed(k, v) => InForceIndexed(k, v)'
    BY <2>1, <2>2 DEF InForceIndexed
  <2>5. \A k \in Keys : InForce(k, s3[k])'
    BY <2>1, <2>3 DEF FreshInv
  <2>6. \A k \in Keys : settled'[k] \in Nat
    BY <2>1, VersionTypes
  <2>7. \A w \in Workers : Fit(w)'
    BY <2>2, <2>6 DEF Fit, StoringPcs
  <2>8. \A b \in rows' : b.key \notin exposed' /\ files'[b] # Absent =>
            InForceIndexed(b.key, files[b].ver)'
    BY <2>1, <2>4 DEF FreshInv
  <2> QED
    BY <2>5, <2>7, <2>8 DEF FreshInv
<1> QED
  BY <1>1, <1>4, <1>5, <1>6, <1>7, <1>8, <1>9 DEF Next, Step, Fault

\* A read that begins after an upload of its key has returned sees that upload or a later
\* one, whatever clears, sweeps, toggles and other reads run beside it, whatever earlier
\* mounts left and whichever removals fail, provided no block of the key was on its way into
\* the cache when the upload landed and no invalidation of it failed to delete its rows.
THEOREM ReadsAreFresh == Spec => []FreshUnlessExposed
<1>1. Init => FreshInv
  <2> SUFFICES ASSUME Init PROVE FreshInv
    OBVIOUS
  <2>1. \A w \in Workers : wk[w].pc = "idle" /\ wk[w].floor = 0 /\ wk[w].key \in Keys
    BY ConstantTypes DEF Init, WorkerIdle, WorkerStates
  <2>0. TypeOK
    BY TypeInit
  <2>2. \A k \in Keys : s3[k] \in Nat /\ settled[k] = 0
    BY <2>0, VersionTypes DEF Init
  <2>3. \A k \in Keys : InForce(k, s3[k])
    BY <2>1, <2>2 DEF InForce, Invalidating
  <2>4. \A w \in Workers : Fit(w)
    BY <2>1, <2>2 DEF Fit, StoringPcs
  <2>5. ASSUME NEW b \in rows, files[b] # Absent PROVE InForceIndexed(b.key, files[b].ver)
    <3>1. b \in Blocks /\ b.key \in Keys /\ files[b].ver \in Nat
      BY <2>0, <2>5, VersionTypes DEF TypeOK
    <3> QED
      BY <2>1, <2>2, <3>1 DEF InForceIndexed
  <2> QED
    BY <2>3, <2>4, <2>5 DEF FreshInv
<1>2. FreshInv => FreshUnlessExposed
  BY DEF FreshInv, Fit, FreshUnlessExposed
<1> QED
  BY <1>1, <1>2, TypeCorrect, StagedAlways, FreshNext, PTL DEF Spec

-----------------------------------------------------------------------------
(* Pinned keys *)

\* No victim of a sweep belongs to a key that was pinned when the sweep began.
VictimsInv ==
    /\ \A b \in ev.victims : b.key \notin ev.spared
    /\ ev.pc = "sweepRow" => ev.victim.key \notin ev.spared

\* Who but the sweeper touches its state.
LEMMA SweeperFrame ==
  ASSUME \/ \E w \in Workers : (WorkerStep(w) \/ WorkerFault(w)) /\ ~PutIndex(w)
         \/ \E c \in Commands : CommandStep(c) \/ CommandFault(c)
         \/ Stop \/ RemoteWrite \/ Rot \/ UNCHANGED vars
  PROVE  UNCHANGED sweep /\ rows' \subseteq rows
<1>1. ASSUME NEW w \in Workers, WorkerStep(w) \/ WorkerFault(w), ~PutIndex(w)
      PROVE  UNCHANGED sweep /\ rows' \subseteq rows
  BY <1>1 DEF WorkerStep, StartRead, Bypass, LookupHit, LookupMiss,
     OpenMissing, OpenHit, OpenBad, DropBadRow, DropBadFile, Fetch, FetchFails,
     FinishRead, PutCheck, PutCreate, PutWrite, PutRename, PutFails, PutRefused,
     PutDrop, Upload, InvalidateRows, InvalidateFile, InvalidateDone, WorkerFault,
     DropBadRowFails, DropBadFileFails, PutIndexFails, PutDropFails, InvalidateRowsFail,
     InvalidateFileFails, DroppedFile, DroppedNew, Invalidated, sweep, store
<1>2. ASSUME NEW c \in Commands, CommandStep(c) \/ CommandFault(c)
      PROVE  UNCHANGED sweep /\ rows' \subseteq rows
  BY <1>2 DEF CommandStep, ClearStart, ClearRows, ClearFile, ClearDone, SetQuota,
     SetEnabled, Pin, Unpin, CommandFault, ClearRowsFail, ClearFileFails, Cleared, sweep, store
<1> QED
  BY <1>1, <1>2 DEF Stop, RemoteWrite, Rot, vars, sweep, store

LEMMA VictimsNext == TypeOK /\ VictimsInv /\ [Next]_vars => VictimsInv'
<1> SUFFICES ASSUME TypeOK, VictimsInv, [Next]_vars PROVE VictimsInv'
  OBVIOUS
<1>t. ev \in SweeperStates
  BY DEF TypeOK
<1>0. UNCHANGED ev => VictimsInv'
  BY DEF VictimsInv
<1>1. ASSUME NEW w \in Workers, PutIndex(w) PROVE VictimsInv'
  BY <1>1, <1>t DEF PutIndex, VictimsInv, SweeperStates
<1>2. ASSUME \/ \E w \in Workers : (WorkerStep(w) \/ WorkerFault(w)) /\ ~PutIndex(w)
             \/ \E c \in Commands : CommandStep(c) \/ CommandFault(c)
             \/ Stop \/ RemoteWrite \/ Rot \/ UNCHANGED vars
      PROVE  VictimsInv'
  BY <1>0, <1>2, SweeperFrame DEF sweep
<1>3. ASSUME SweepStart PROVE VictimsInv'
  <2>1. ev' = [EvLoop EXCEPT !.pc = "sweep", !.victims = VictimRows, !.spared = pinned]
    BY <1>3 DEF SweepStart
  <2>2. ev'.pc = "sweep" /\ ev'.victims = VictimRows /\ ev'.spared = pinned
    BY <2>1 DEF EvLoop
  <2> QED
    BY <2>2 DEF VictimsInv, VictimRows
<1>4. ASSUME SweepFile \/ SweepFileFails PROVE VictimsInv'
  <2>1. PICK b \in ev.victims : Swept(b)
    BY <1>4 DEF SweepFile, SweepFileFails
  <2> QED
    BY <2>1, <1>t DEF Swept, VictimsInv, SweeperStates
<1>5. ASSUME SweepRow \/ SweepRowFails PROVE VictimsInv'
  <2>1. CASE SweepRow
    BY <2>1, <1>t DEF SweepRow, VictimsInv, SweeperStates
  <2>2. CASE SweepRowFails
    BY <2>2, <1>t DEF SweepRowFails, VictimsInv, SweeperStates
  <2> QED
    BY <1>5, <2>1, <2>2
<1>6. ASSUME SweepDone PROVE VictimsInv'
  BY <1>6 DEF SweepDone, VictimsInv, EvLoop
<1>7. ASSUME SweeperExits PROVE VictimsInv'
  BY <1>7, <1>t DEF SweeperExits, VictimsInv, SweeperStates
<1>8. ASSUME Restart PROVE VictimsInv'
  <2>1. ev'.victims = {} /\ ev'.pc # "sweepRow"
    BY <1>8 DEF Restart, EvLoop
  <2> QED
    BY <2>1 DEF VictimsInv
<1> QED
  BY <1>1, <1>2, <1>3, <1>4, <1>5, <1>6, <1>7, <1>8
  DEF Next, Step, Fault, SweeperStep, SweeperFault

\* However pins, uploads and clears run beside it, the sweeper takes neither row nor file
\* of a key that was pinned when its sweep began.
THEOREM PinnedStay == Spec => PinnedSurviveSweep
<1>1. Init => VictimsInv
  BY DEF Init, VictimsInv, EvLoop
<1>2. TypeOK /\ VictimsInv /\ [Next]_vars =>
        [wk' = wk /\ cmd' = cmd /\ ev' # ev =>
            \A b \in Blocks : b.key \in ev.spared =>
                /\ b \in rows => b \in rows'
                /\ files[b] # Absent => files'[b] # Absent]_vars
  <2> SUFFICES ASSUME TypeOK, VictimsInv, [Next]_vars, wk' = wk, cmd' = cmd, ev' # ev,
                      NEW b \in Blocks, b.key \in ev.spared
               PROVE  /\ b \in rows => b \in rows'
                      /\ files[b] # Absent => files'[b] # Absent
    OBVIOUS
  <2>1. ASSUME NEW w \in Workers, PutIndex(w) PROVE FALSE
    <3>1. wk[w].pc = "index" /\ wk'[w].pc = "done"
      BY <2>1, WorkerFields DEF PutIndex, Goto
    <3> QED
      BY <3>1
  <2>2. ASSUME \/ \E w \in Workers : (WorkerStep(w) \/ WorkerFault(w)) /\ ~PutIndex(w)
               \/ \E c \in Commands : CommandStep(c) \/ CommandFault(c)
               \/ Stop \/ RemoteWrite \/ Rot \/ UNCHANGED vars
        PROVE  FALSE
    BY <2>2, SweeperFrame DEF sweep
  <2>3. CASE SweepFile \/ SweepFileFails
    <3>1. PICK v \in ev.victims : Swept(v) /\ (Removes(v) \/ RemoveFails(v))
      BY <2>3 DEF SweepFile, SweepFileFails
    <3>2. v.key \notin ev.spared /\ v \in Blocks
      BY <3>1 DEF VictimsInv, TypeOK, SweeperStates
    <3>3. \A x \in Blocks : files'[x] = files[x] \/ (x = v /\ files'[x] = Absent)
      BY <3>1, <3>2, Unlinked
    <3> QED
      BY <3>1, <3>2, <3>3 DEF Swept
  <2>4. CASE SweepRow
    BY <2>4 DEF SweepRow, VictimsInv
  <2>5. CASE SweepStart \/ SweepDone \/ SweeperExits \/ SweepRowFails \/ Restart
    BY <2>5 DEF SweepStart, SweepDone, SweeperExits, SweepRowFails, Restart, store
  <2> QED
    BY <2>1, <2>2, <2>3, <2>4, <2>5 DEF Next, Step, Fault, SweeperStep, SweeperFault
<1> QED
  BY <1>1, <1>2, TypeCorrect, VictimsNext, PTL DEF Spec, PinnedSurviveSweep

-----------------------------------------------------------------------------
(* Sums of block sizes.                                                      *)
(*                                                                           *)
(* MapThenSumSet takes the blocks of a set out one by one, in an order it    *)
(* chooses.  That the order is of no account is proved from sets that have   *)
(* no smaller one of their kind.                                             *)

\* Of finite sets of blocks there is always one that has none of the others as a part.
LEMMA SmallestSet ==
    ASSUME NEW T, T \subseteq FiniteSubsetsOf(Blocks), T # {}
    PROVE  \E S \in T : \A R \in T : R \subseteq S => R = S
<1>1. PICK S \in T : \A R \in T : ~(<<R, S>> \in StrictSubsetOrdering(Blocks))
  BY FS_StrictSubsetOrderingWellFounded, WFMin
<1>2. \A R \in T : R \in SUBSET Blocks
  BY DEF FiniteSubsetsOf
<1>3. \A R \in T : R \subseteq S => R = S
  BY <1>1, <1>2 DEF StrictSubsetOrdering
<1> QED
  BY <1>3

UsedBy(S) == MapThenSumSet(DiskLen, S)

\* g is the sum of the sizes, of each part of S.
Sums(g, S) ==
    /\ g \in [SUBSET S -> Nat]
    /\ g[{}] = 0
    /\ \A T \in SUBSET S : \A b \in T : g[T] = DiskLen(b) + g[T \ {b}]

LEMMA DiskLenType == \A b \in Blocks : DiskLen(b) \in Nat
<1>1. \A b \in Blocks : b.len \in Lens
  BY DEF Blocks
<1>2. Lens \subseteq Nat /\ Overhead \in Nat
  BY ConstantTypes, CacheAssumption
<1>3. \A b \in Blocks : b.len \in Nat
  BY <1>1, <1>2
<1> QED
  BY <1>2, <1>3 DEF DiskLen

\* There are such sums.
LEMMA SumsExist ==
    ASSUME NEW S \in FiniteSubsetsOf(Blocks) PROVE \E g : Sums(g, S)
<1> DEFINE Without == {T \in FiniteSubsetsOf(Blocks) : ~\E g : Sums(g, T)}
<1>1. SUFFICES ASSUME Without # {} PROVE FALSE
  OBVIOUS
<1>2. PICK T \in Without : \A R \in Without : R \subseteq T => R = T
  <2>1. Without \subseteq FiniteSubsetsOf(Blocks)
    OBVIOUS
  <2> HIDE DEF Without
  <2> QED
    BY <1>1, <2>1, SmallestSet
<1>3. T \subseteq Blocks /\ IsFiniteSet(T) /\ ~\E g : Sums(g, T)
  BY DEF FiniteSubsetsOf
<1>4. CASE T = {}
  <2>1. Sums([R \in SUBSET {} |-> 0], {})
    BY DEF Sums
  <2> QED
    BY <1>3, <1>4, <2>1
<1>5. CASE T # {}
  <2>1. PICK a \in T : TRUE
    BY <1>5
  <2>2. T \ {a} \in FiniteSubsetsOf(Blocks)
    BY <1>3, FS_RemoveElement DEF FiniteSubsetsOf
  <2>3. PICK g : Sums(g, T \ {a})
    BY <1>2, <2>1, <2>2
  <2> DEFINE h == [R \in SUBSET T |-> IF a \in R THEN DiskLen(a) + g[R \ {a}] ELSE g[R]]
  <2>4. \A R \in SUBSET T : R \ {a} \in SUBSET (T \ {a}) /\ (a \notin R => R \in SUBSET (T \ {a}))
    OBVIOUS
  <2>5. DiskLen(a) \in Nat /\ \A b \in T : DiskLen(b) \in Nat
    BY <1>3, DiskLenType
  <2>6. \A R \in SUBSET (T \ {a}) : g[R] \in Nat
    BY <2>3 DEF Sums
  <2>7. h \in [SUBSET T -> Nat]
    BY <2>4, <2>5, <2>6
  <2>8. h[{}] = 0
    BY <2>3 DEF Sums
  <2>9. ASSUME NEW R \in SUBSET T, NEW b \in R PROVE h[R] = DiskLen(b) + h[R \ {b}]
    <3>0. R \ {b} \in SUBSET T /\ b \in T
      OBVIOUS
    <3>1. CASE a \notin R
      <4>1. h[R] = g[R] /\ h[R \ {b}] = g[R \ {b}]
        BY <3>0, <3>1
      <4> QED
        BY <2>3, <2>4, <3>1, <4>1 DEF Sums
    <3>2. CASE a \in R /\ b = a
      BY <3>0, <3>2
    <3>3. CASE a \in R /\ b # a
      <4>1. h[R] = DiskLen(a) + g[R \ {a}] /\ h[R \ {b}] = DiskLen(a) + g[(R \ {b}) \ {a}]
        BY <3>0, <3>3
      <4>2. R \ {a} \in SUBSET (T \ {a}) /\ b \in R \ {a} /\ (R \ {a}) \ {b} = (R \ {b}) \ {a}
            /\ (R \ {b}) \ {a} \in SUBSET (T \ {a})
        BY <3>3
      <4>3. g[R \ {a}] = DiskLen(b) + g[(R \ {b}) \ {a}]
        <5>1. g[R \ {a}] = DiskLen(b) + g[(R \ {a}) \ {b}]
          BY <2>3, <4>2 DEF Sums
        <5> QED
          BY <4>2, <5>1
      <4>4. g[(R \ {b}) \ {a}] \in Nat /\ DiskLen(a) \in Nat /\ DiskLen(b) \in Nat
        BY <2>5, <2>6, <3>0, <4>2
      <4> HIDE DEF h
      <4> QED
        BY <4>1, <4>3, <4>4
    <3> QED
      BY <3>1, <3>2, <3>3
  <2>10. Sums(h, T)
    <3> HIDE DEF h
    <3> QED
      BY <2>7, <2>8, <2>9 DEF Sums
  <2> QED
    BY <1>3, <2>10
<1> QED
  BY <1>4, <1>5

\* MapThenSumSet is one of them.
LEMMA UsedIs ==
    ASSUME NEW S \in FiniteSubsetsOf(Blocks), NEW g, Sums(g, S) PROVE UsedBy(S) = g[S]
<1> DEFINE Once(f) == [s \in SUBSET S |-> IF s = {} THEN 0
                                         ELSE LET b == CHOOSE b \in s : TRUE
                                              IN  DiskLen(b) + f[s \ {b}]]
           Iter == CHOOSE f : f = Once(f)
<1>1. UsedBy(S) = Iter[S]
  BY DEF UsedBy, MapThenSumSet, MapThenFoldSet
<1>2. g = Once(g)
  <2>1. \A s \in SUBSET S : g[s] = Once(g)[s]
    BY DEF Sums
  <2>2. g = [s \in SUBSET S |-> g[s]]
    BY DEF Sums
  <2>3. Once(g) = [s \in SUBSET S |-> Once(g)[s]]
    OBVIOUS
  <2> HIDE DEF Once
  <2> QED
    BY <2>1, <2>2, <2>3
<1>3. Iter = Once(Iter)
  <2> HIDE DEF Once
  <2> QED
    BY <1>2
<1> HIDE DEF Iter
<1>4. \A s \in SUBSET S : s # {} => LET b == CHOOSE b \in s : TRUE
                                     IN  Iter[s] = DiskLen(b) + Iter[s \ {b}]
  BY <1>3
<1>5. Iter[{}] = 0
  BY <1>3
<1> DEFINE Differ == {s \in SUBSET S : Iter[s] # g[s]}
<1>6. CASE Differ = {}
  BY <1>1, <1>6
<1>7. CASE Differ # {}
  <2>1. PICK s \in Differ : \A r \in Differ : r \subseteq s => r = s
    <3>1. Differ \subseteq FiniteSubsetsOf(Blocks)
      BY FS_Subset DEF FiniteSubsetsOf
    <3> HIDE DEF Differ
    <3> QED
      BY <1>7, <3>1, SmallestSet
  <2>2. s # {}
    BY <1>5 DEF Sums
  <2>3. PICK b \in s : b = CHOOSE c \in s : TRUE
    BY <2>2
  <2>4. s \ {b} \in SUBSET S /\ s \ {b} \notin Differ
    BY <2>1
  <2>5. Iter[s \ {b}] = g[s \ {b}]
    BY <2>4
  <2>6. Iter[s] = DiskLen(b) + Iter[s \ {b}]
    BY <1>4, <2>2, <2>3
  <2>7. g[s] = DiskLen(b) + g[s \ {b}]
    BY <2>3 DEF Sums
  <2> QED
    BY <2>1, <2>5, <2>6, <2>7
<1> QED
  BY <1>6, <1>7

\* So a block more or less is its size more or less, whichever it is.
LEMMA UsedWithout ==
    ASSUME NEW S \in FiniteSubsetsOf(Blocks)
    PROVE  /\ UsedBy(S) \in Nat
           /\ \A b \in S : UsedBy(S \ {b}) \in Nat /\ UsedBy(S) = DiskLen(b) + UsedBy(S \ {b})
<1>1. PICK g : Sums(g, S)
  BY SumsExist
<1>2. UsedBy(S) = g[S] /\ g[S] \in Nat
  BY <1>1, UsedIs DEF Sums
<1>3. ASSUME NEW b \in S PROVE UsedBy(S \ {b}) = g[S \ {b}] /\ g[S \ {b}] \in Nat
  <2> DEFINE R == S \ {b}
             h == [T \in SUBSET R |-> g[T]]
  <2>1. R \in FiniteSubsetsOf(Blocks)
    BY FS_RemoveElement DEF FiniteSubsetsOf
  <2>2. SUBSET R \subseteq SUBSET S
    OBVIOUS
  <2>3. Sums(h, R)
    <3>1. h \in [SUBSET R -> Nat] /\ h[{}] = 0
      BY <1>1, <2>2 DEF Sums
    <3>2. ASSUME NEW T \in SUBSET R, NEW c \in T PROVE h[T] = DiskLen(c) + h[T \ {c}]
      <4>1. T \in SUBSET S /\ T \ {c} \in SUBSET R
        OBVIOUS
      <4> QED
        BY <1>1, <4>1 DEF Sums
    <3> HIDE DEF h
    <3> QED
      BY <3>1, <3>2 DEF Sums
  <2>4. UsedBy(R) = h[R]
    <3> HIDE DEF h, R
    <3> QED
      BY <2>1, <2>3, UsedIs
  <2> QED
    BY <1>1, <2>4 DEF Sums
<1>4. \A b \in S : g[S] = DiskLen(b) + g[S \ {b}]
  BY <1>1 DEF Sums
<1> QED
  BY <1>2, <1>3, <1>4

\* And a part takes no more than the whole.
LEMMA UsedByPart ==
    ASSUME NEW S \in FiniteSubsetsOf(Blocks), NEW T \in SUBSET S
    PROVE  UsedBy(T) <= UsedBy(S)
<1> DEFINE Less == {R \in FiniteSubsetsOf(Blocks) : T \subseteq R /\ ~(UsedBy(T) <= UsedBy(R))}
<1>1. SUFFICES ASSUME Less # {} PROVE FALSE
  OBVIOUS
<1>2. PICK R \in Less : \A Q \in Less : Q \subseteq R => Q = R
  <2>1. Less \subseteq FiniteSubsetsOf(Blocks)
    OBVIOUS
  <2> HIDE DEF Less
  <2> QED
    BY <1>1, <2>1, SmallestSet
<1>3. R \in FiniteSubsetsOf(Blocks) /\ R \subseteq Blocks /\ T \in FiniteSubsetsOf(Blocks)
  BY FS_Subset DEF FiniteSubsetsOf
<1>4. R # T
  BY <1>3, UsedWithout
<1>5. PICK b \in R \ T : TRUE
  BY <1>4
<1>6. R \ {b} \in FiniteSubsetsOf(Blocks) /\ T \subseteq R \ {b} /\ R \ {b} # R
  BY <1>3, <1>5, FS_RemoveElement DEF FiniteSubsetsOf
<1>7. UsedBy(T) <= UsedBy(R \ {b})
  BY <1>2, <1>6
<1>8. UsedBy(R) = DiskLen(b) + UsedBy(R \ {b}) /\ UsedBy(R \ {b}) \in Nat /\ UsedBy(T) \in Nat
  BY <1>3, <1>5, UsedWithout
<1>9. DiskLen(b) \in Nat
  BY <1>3, <1>5, DiskLenType
<1>10. ~(UsedBy(T) <= UsedBy(R))
  OBVIOUS
<1> HIDE DEF Less
<1> QED
  BY <1>7, <1>8, <1>9, <1>10

-----------------------------------------------------------------------------
(* The sweep                                                                 *)

\* While a sweep is under way the rows and the victims together, counted once, take no
\* more than what the sweep believes is left; and unless a block was added, what is neither
\* a victim nor gone was pinned.
SweepInv ==
    /\ rows \in FiniteSubsetsOf(Blocks) /\ ev.victims \in FiniteSubsetsOf(Blocks)
    /\ budget \in [total : Int, cap : Nat]
    /\ ev.pc = "sweepRow" => ev.victim \in ev.victims
    /\ ev.pc \in {"sweep", "sweepRow"} /\ ~ev.skewed =>
          /\ \A b \in rows : b \in ev.victims \/ b.key \in ev.spared
          /\ UsedBy(rows \cup ev.victims) <= budget.total

\* Two finite sets of blocks are one.
LEMMA FiniteBoth ==
    ASSUME NEW S \in FiniteSubsetsOf(Blocks), NEW T \in FiniteSubsetsOf(Blocks)
    PROVE  S \cup T \in FiniteSubsetsOf(Blocks)
BY FS_Union DEF FiniteSubsetsOf

LEMMA FinitePart ==
    ASSUME NEW S \in FiniteSubsetsOf(Blocks), NEW T, T \subseteq S
    PROVE  T \in FiniteSubsetsOf(Blocks)
BY FS_Subset DEF FiniteSubsetsOf

\* A step of somebody else that adds no row.
LEMMA RowsShrink ==
    ASSUME SweepInv, rows' \subseteq rows, UNCHANGED sweep PROVE SweepInv'
<1>1. /\ rows' \in FiniteSubsetsOf(Blocks)
      /\ rows \cup ev.victims \in FiniteSubsetsOf(Blocks)
      /\ rows' \cup ev.victims \in FiniteSubsetsOf(Blocks)
  BY FiniteBoth, FinitePart DEF SweepInv
<1>2. UsedBy(rows' \cup ev.victims) <= UsedBy(rows \cup ev.victims)
  BY <1>1, UsedByPart
<1>3. UsedBy(rows' \cup ev.victims) \in Nat /\ UsedBy(rows \cup ev.victims) \in Nat
  BY <1>1, UsedWithout
<1>4. budget.total \in Int
  BY DEF SweepInv
<1> QED
  BY <1>1, <1>2, <1>3, <1>4 DEF SweepInv, sweep

LEMMA SweepNext == TypeOK /\ SweepInv /\ [Next]_vars => SweepInv'
<1> SUFFICES ASSUME TypeOK, SweepInv, [Next]_vars PROVE SweepInv'
  OBVIOUS
<1>t. ev \in SweeperStates /\ rows \subseteq Blocks /\ maxBytes \in Nat
  BY DEF TypeOK
<1>f. rows \in FiniteSubsetsOf(Blocks) /\ ev.victims \in FiniteSubsetsOf(Blocks)
  BY DEF SweepInv
<1>1. ASSUME NEW w \in Workers, PutIndex(w) PROVE SweepInv'
  <2>1. /\ rows' = rows \cup {Target(w)} /\ UNCHANGED budget
        /\ ev' = [ev EXCEPT !.skewed = (ev.pc # "loop" /\ ev.pc # "exited")]
    BY <1>1 DEF PutIndex
  <2>2. Target(w) \in Blocks
    BY TargetType
  <2>3. rows' \in FiniteSubsetsOf(Blocks)
    BY <1>f, <2>1, <2>2, FS_AddElement DEF FiniteSubsetsOf
  <2>4. /\ ev'.pc = ev.pc /\ ev'.victims = ev.victims /\ ev'.victim = ev.victim
        /\ ev.pc \in {"sweep", "sweepRow"} => ev'.skewed
    BY <1>t, <2>1 DEF SweeperStates
  <2> QED
    BY <2>1, <2>3, <2>4 DEF SweepInv
<1>2. ASSUME \/ \E w \in Workers : (WorkerStep(w) \/ WorkerFault(w)) /\ ~PutIndex(w)
             \/ \E c \in Commands : CommandStep(c) \/ CommandFault(c)
             \/ Stop \/ RemoteWrite \/ Rot \/ UNCHANGED vars
      PROVE  SweepInv'
  BY <1>2, SweeperFrame, RowsShrink
<1>3. ASSUME SweepStart PROVE SweepInv'
  <2>1. /\ ev' = [EvLoop EXCEPT !.pc = "sweep", !.victims = VictimRows, !.spared = pinned]
        /\ budget' = [total |-> Used, cap |-> maxBytes] /\ UNCHANGED rows
    BY <1>3 DEF SweepStart, store
  <2>2. ev'.pc = "sweep" /\ ev'.victims = VictimRows /\ ev'.spared = pinned
    BY <2>1 DEF EvLoop
  <2>3. VictimRows \in FiniteSubsetsOf(Blocks) /\ rows \cup VictimRows = rows
    BY <1>f, FinitePart DEF VictimRows
  <2>4. Used = UsedBy(rows) /\ UsedBy(rows) \in Nat
    BY <1>f, UsedWithout DEF Used, UsedBy
  <2>5. budget' \in [total : Int, cap : Nat] /\ budget'.total = UsedBy(rows)
    BY <1>t, <2>1, <2>4
  <2>6. \A b \in rows : b \in VictimRows \/ b.key \in pinned
    BY DEF VictimRows
  <2>7. UsedBy(rows' \cup ev'.victims) <= budget'.total
    <3>1. rows' \cup ev'.victims = rows
      BY <2>1, <2>2, <2>3
    <3> QED
      BY <2>4, <2>5, <3>1
  <2> QED
    BY <1>f, <2>1, <2>2, <2>3, <2>5, <2>6, <2>7 DEF SweepInv
<1>4. ASSUME SweepFile \/ SweepFileFails PROVE SweepInv'
  <2>1. PICK b \in ev.victims : Swept(b)
    BY <1>4 DEF SweepFile, SweepFileFails
  <2> QED
    BY <2>1, <1>t DEF Swept, SweepInv, SweeperStates
<1>5. ASSUME SweepRow PROVE SweepInv'
  <2> DEFINE v == ev.victim
  <2>1. /\ ev.pc = "sweepRow" /\ v \in ev.victims /\ rows' = rows \ {v}
        /\ budget' = [budget EXCEPT !.total = @ - DiskLen(v)]
        /\ ev' = [ev EXCEPT !.pc = "sweep", !.victims = @ \ {v}, !.victim = Absent]
    BY <1>5 DEF SweepRow, SweepInv
  <2>2. /\ ev'.pc = "sweep" /\ ev'.victims = ev.victims \ {v}
        /\ ev'.skewed = ev.skewed /\ ev'.spared = ev.spared
    BY <1>t, <2>1 DEF SweeperStates
  <2>3. DiskLen(v) \in Nat
    BY <1>f, <2>1, DiskLenType DEF FiniteSubsetsOf
  <2>4. /\ budget' \in [total : Int, cap : Nat] /\ budget'.total = budget.total - DiskLen(v)
        /\ budget.total \in Int
    BY <2>1, <2>3 DEF SweepInv
  <2>5. rows' \in FiniteSubsetsOf(Blocks) /\ ev'.victims \in FiniteSubsetsOf(Blocks)
    BY <1>f, <2>1, <2>2, FinitePart
  <2>6. ASSUME ~ev.skewed
        PROVE  /\ \A b \in rows' : b \in ev'.victims \/ b.key \in ev'.spared
               /\ UsedBy(rows' \cup ev'.victims) <= budget'.total
    <3> DEFINE S == rows \cup ev.victims
    <3>1. S \in FiniteSubsetsOf(Blocks) /\ v \in S
      BY <1>f, <2>1, FiniteBoth
    <3>2. rows' \cup ev'.victims = S \ {v}
      BY <2>1, <2>2
    <3>3. (\A b \in rows : b \in ev.victims \/ b.key \in ev.spared) /\ UsedBy(S) <= budget.total
      BY <2>1, <2>6 DEF SweepInv
    <3> HIDE DEF S
    <3>4. UsedBy(S \ {v}) \in Nat /\ UsedBy(S) = DiskLen(v) + UsedBy(S \ {v})
      BY <3>1, UsedWithout
    <3>5. UsedBy(S \ {v}) <= budget'.total
      BY <2>3, <2>4, <3>3, <3>4
    <3> QED
      BY <2>1, <2>2, <3>2, <3>3, <3>5
  <2> QED
    BY <2>2, <2>4, <2>5, <2>6 DEF SweepInv
<1>6. ASSUME SweepDone PROVE SweepInv'
  <2>1. ev' = EvLoop /\ UNCHANGED <<rows, budget>>
    BY <1>6 DEF SweepDone, store
  <2>2. ev'.pc = "loop" /\ ev'.victims = {}
    BY <2>1 DEF EvLoop
  <2>3. {} \in FiniteSubsetsOf(Blocks)
    BY <1>f, FinitePart
  <2> QED
    BY <2>1, <2>2, <2>3 DEF SweepInv
<1>7. ASSUME SweeperExits PROVE SweepInv'
  BY <1>7, <1>t DEF SweeperExits, SweepInv, SweeperStates, store
\* A row that would not go leaves the sweep without a claim.
<1>8. ASSUME SweepRowFails PROVE SweepInv'
  <2>1. /\ ev.pc = "sweepRow" /\ ev.victim \in ev.victims /\ rows' = rows
        /\ budget' = [budget EXCEPT !.total = @ - DiskLen(ev.victim)]
    BY <1>8 DEF SweepRowFails, SweepInv, store
  <2>2. ev'.pc = "sweep" /\ ev'.victims = ev.victims \ {ev.victim} /\ ev'.skewed
    BY <1>8, <1>t DEF SweepRowFails, SweeperStates
  <2>3. DiskLen(ev.victim) \in Nat
    BY <1>f, <2>1, DiskLenType DEF FiniteSubsetsOf
  <2>4. budget' \in [total : Int, cap : Nat]
    BY <2>1, <2>3 DEF SweepInv
  <2>5. ev'.victims \in FiniteSubsetsOf(Blocks)
    BY <1>f, <2>2, FinitePart
  <2> QED
    BY <1>f, <2>1, <2>2, <2>4, <2>5 DEF SweepInv
<1>9. ASSUME Restart PROVE SweepInv'
  <2>1. UNCHANGED <<rows, budget>> /\ ev'.victims = {} /\ ev'.pc \notin {"sweep", "sweepRow"}
    BY <1>9 DEF Restart, EvLoop
  <2>2. {} \in FiniteSubsetsOf(Blocks)
    BY <1>f, FinitePart
  <2> QED
    BY <2>1, <2>2 DEF SweepInv
<1> QED
  BY <1>1, <1>2, <1>3, <1>4, <1>5, <1>6, <1>7, <1>8, <1>9
  DEF Next, Step, Fault, SweeperStep, SweeperFault

\* A sweep to which nothing was added and of which no row failed to go ends within the cap it read, or with nothing left
\* but what was pinned when it began, however many uploads, clears and pins ran beside it
\* and however many blocks of whatever sizes there are (cache.rs evict_if_needed).
THEOREM SweepsMeetCap == Spec => []SweepMeetsCap
<1>1. Init => SweepInv
  <2> SUFFICES ASSUME Init PROVE SweepInv
    OBVIOUS
  <2>1. {} \in FiniteSubsetsOf(Blocks) /\ rows \in FiniteSubsetsOf(Blocks)
    BY FS_EmptySet DEF FiniteSubsetsOf, Init, LeftBehind
  <2>2. ev.pc \notin {"sweep", "sweepRow"} /\ ev.victims = {}
    BY DEF Init, EvLoop
  <2> QED
    BY <2>1, <2>2 DEF Init, SweepInv
<1>2. SweepInv => SweepMeetsCap
  <2> SUFFICES ASSUME SweepInv, SweepOver, ~ev.skewed, ~(Used <= budget.cap)
               PROVE  \A b \in rows : b.key \in ev.spared
    BY DEF SweepMeetsCap
  <2>1. /\ rows \in FiniteSubsetsOf(Blocks) /\ ev.victims \in FiniteSubsetsOf(Blocks)
        /\ budget.total \in Int /\ budget.cap \in Nat
        /\ \A b \in rows : b \in ev.victims \/ b.key \in ev.spared
        /\ UsedBy(rows \cup ev.victims) <= budget.total
    BY DEF SweepInv, SweepOver
  <2>2. rows \cup ev.victims \in FiniteSubsetsOf(Blocks)
    BY <2>1, FiniteBoth
  <2>3. UsedBy(rows) <= UsedBy(rows \cup ev.victims)
    BY <2>2, UsedByPart
  <2>4. UsedBy(rows) \in Nat /\ UsedBy(rows \cup ev.victims) \in Nat
    BY <2>1, <2>2, UsedWithout
  <2>5. ~(UsedBy(rows) <= budget.cap)
    BY DEF Used, UsedBy
  <2>6. ~(budget.total <= budget.cap)
    BY <2>1, <2>3, <2>4, <2>5
  <2>7. ev.victims = {}
    BY <2>6 DEF SweepOver, WithinCap
  <2> QED
    BY <2>1, <2>7
<1> QED
  BY <1>1, <1>2, TypeCorrect, SweepNext, PTL DEF Spec
=============================================================================
