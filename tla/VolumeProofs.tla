---------------------------- MODULE VolumeProofs ----------------------------
(***************************************************************************)
(* Theorems about the files of a volume: the lock of a file, for any       *)
(* number of machines and handles, and the names of files and directories, *)
(* for any names and any number of calls.                                  *)
(***************************************************************************)
EXTENDS FileLock, NameSpace, WellFoundedInduction, FiniteSetTheorems, SequenceTheorems, TLAPS

-----------------------------------------------------------------------------
(***************************************************************************)
(* The lock of a file.                                                     *)
(*                                                                         *)
(* Claims is what local_writers and the handles have to do with each       *)
(* other, whatever happens.  As long as guarded is true, a handle that     *)
(* acquired its sentinel finds it in the bucket until it has released it   *)
(* (Standing), because no other handle of its machine is between claim and *)
(* release (Single) and no other machine is past its check (Apart): a call *)
(* is past its check only if it saw no foreign sentinel.                   *)
(***************************************************************************)

Claiming == {"check", "acquire", "held"}
Owning   == {"held", "release"}

Claims ==
    /\ \A h \in Handles : pc[h] \in Claiming => Ours(h) \in writers
    /\ \A m \in writers : \E h \in Handles : Ours(h) = m /\ pc[h] \in Claiming
    /\ \A h, g \in Handles :
          Ours(h) = Ours(g) /\ pc[h] \in Claiming /\ pc[g] \in Claiming => h = g

Standing ==
    guarded => \A h \in Handles : pc[h] \in Owning =>
                   /\ sentinel # NoLock
                   /\ sentinel.machine = Ours(h)
                   /\ sentinel.left = lease[h]

Single ==
    guarded => \A h, g \in Handles :
                   /\ Ours(h) = Ours(g)
                   /\ pc[h] \in Claiming \cup Owning
                   /\ pc[g] \in Claiming \cup Owning
                   => h = g

Apart ==
    guarded => \A h, g \in Handles : Ours(h) # Ours(g) =>
                   /\ pc[h] = "acquire" => pc[g] \notin Claiming \cup Owning
                   /\ pc[h] = "check" => pc[g] \notin {"check", "acquire"}

\* A rival that was found is open still, or it is no rival any more.
RivalsOpen ==
    guarded => \A h, g \in Handles :
                   /\ g \in rivals[h] => Ours(g) # Ours(h) /\ pc[g] = "held"
                   /\ pc[h] # "editing"

LockInv == LockTypeOK /\ Claims /\ Standing /\ Single /\ Apart /\ RivalsOpen /\ LaterWriterRefused

-----------------------------------------------------------------------------
\* A sentinel in force is not NoLock.
LEMMA Sentinels ==
    /\ \A m \in Machines, n \in 1..TTL : [machine |-> m, left |-> n] # NoLock
    /\ TTL \in 1..TTL /\ TTL \in Nat
    /\ \A h \in Handles : Ours(h) \in Machines
BY LockAssumption DEF Ours

LEMMA LockInvStarts == LockInit => LockInv
<1> SUFFICES ASSUME LockInit PROVE LockInv
  OBVIOUS
<1>1. lockfile \in BOOLEAN
  BY LockAssumption DEF LockInit
<1>2. /\ sentinel = NoLock /\ writers = {} /\ guarded = TRUE
      /\ pc = [h \in Handles |-> "idle"]
      /\ lease = [h \in Handles |-> 0]
      /\ rivals = [h \in Handles |-> {}]
  BY DEF LockInit
<1>3. LockTypeOK
  BY <1>1, <1>2, LockAssumption DEF LockTypeOK
<1> QED
  BY <1>2, <1>3 DEF LockInv, Claims, Standing, Single, Apart, RivalsOpen,
      LaterWriterRefused, OpenElsewhereRefused, Claiming, Owning

\* A claim is taken when the machine has none.
LEMMA ClaimKeeps == ASSUME LockInv, NEW h \in Handles, Claim(h) PROVE LockInv'
<1> USE DEF LockInv, LockTypeOK
<1>1. /\ pc[h] = "idle" /\ Ours(h) \notin writers
      /\ writers' = writers \cup {Ours(h)}
      /\ pc' = [pc EXCEPT ![h] = "check"]
      /\ rivals' = [rivals EXCEPT ![h] = OpenElsewhere(h)]
      /\ guarded' = (guarded /\ Alone(h) /\ ~HandingOver(h))
      /\ sentinel' = sentinel /\ lease' = lease
      /\ lockfile' = lockfile
  BY DEF Claim, Guarded
<1>2. LockTypeOK'
  <2>1. OpenElsewhere(h) \subseteq Handles
    BY DEF OpenElsewhere, Rest
  <2>2. guarded' \in BOOLEAN
    BY <1>1
  <2> QED
    BY <1>1, <2>1, <2>2, Sentinels
<1>3. Claims'
  BY <1>1 DEF Claims, Claiming, Ours
<1>4. guarded' => guarded /\ Alone(h) /\ ~HandingOver(h)
  BY <1>1
<1>5. Standing'
  BY <1>1, <1>4 DEF Standing, Owning, Ours
<1>6. Single'
  BY <1>1, <1>4 DEF Single, Claims, Claiming, Owning, Ours, HandingOver
<1>7. Apart'
  BY <1>1, <1>4 DEF Apart, Claiming, Owning, Ours, Alone, Rest
<1>8. RivalsOpen'
  BY <1>1, <1>4 DEF RivalsOpen, OpenElsewhere, Rest, Ours
<1>9. LaterWriterRefused'
  BY <1>1, <1>4 DEF LaterWriterRefused, OpenElsewhereRefused
<1> QED
  BY <1>2, <1>3, <1>5, <1>6, <1>7, <1>8, <1>9

\* A call past its check has seen no foreign sentinel, hence no rival.
LEMMA CheckFreeKeeps == ASSUME LockInv, NEW h \in Handles, CheckFree(h) PROVE LockInv'
<1> USE DEF LockInv, LockTypeOK
<1>1. /\ pc[h] = "check" /\ pc' = [pc EXCEPT ![h] = "acquire"]
      /\ guarded' = (guarded /\ ~Foreign(h))
      /\ sentinel' = sentinel /\ writers' = writers /\ lease' = lease /\ rivals' = rivals
      /\ lockfile' = lockfile
  BY DEF CheckFree, Guarded
<1>2. LockTypeOK'
  <2>1. guarded' \in BOOLEAN
    BY <1>1
  <2> QED
    BY <1>1, <2>1
<1>3. Claims'
  BY <1>1 DEF Claims, Claiming, Ours
<1>4. guarded' => /\ guarded
                  /\ \A g \in Handles : Ours(g) # Ours(h) => pc[g] \notin Owning
  BY <1>1 DEF Standing, Foreign, Owning
<1>5. Standing'
  BY <1>1, <1>4 DEF Standing, Owning, Ours
<1>6. Single'
  BY <1>1, <1>4 DEF Single, Claiming, Owning, Ours
<1>7. Apart'
  BY <1>1, <1>4 DEF Apart, Claiming, Owning, Ours
<1>8. RivalsOpen'
  BY <1>1, <1>4 DEF RivalsOpen, Ours
<1>9. LaterWriterRefused'
  <2>1. guarded' => rivals[h] = {}
    BY <1>1, <1>4 DEF RivalsOpen, Owning
  <2> QED
    BY <1>1, <1>4, <2>1 DEF LaterWriterRefused, OpenElsewhereRefused
<1> QED
  BY <1>2, <1>3, <1>5, <1>6, <1>7, <1>8, <1>9

\* A refused call gives its claim back.
LEMMA CheckForeignKeeps == ASSUME LockInv, NEW h \in Handles, CheckForeign(h) PROVE LockInv'
<1> USE DEF LockInv, LockTypeOK
<1>1. /\ pc[h] = "check" /\ pc' = [pc EXCEPT ![h] = "idle"]
      /\ writers' = writers \ {Ours(h)}
      /\ rivals' = [rivals EXCEPT ![h] = {}]
      /\ sentinel' = sentinel /\ lease' = lease /\ guarded' = guarded
      /\ lockfile' = lockfile
  BY DEF CheckForeign
<1>2. LockTypeOK'
  BY <1>1
<1>3. Claims'
  BY <1>1 DEF Claims, Claiming, Ours
<1>5. Standing'
  BY <1>1 DEF Standing, Owning, Ours
<1>6. Single'
  BY <1>1 DEF Single, Claiming, Owning, Ours
<1>7. Apart'
  BY <1>1 DEF Apart, Claiming, Owning, Ours
<1>8. RivalsOpen'
  BY <1>1 DEF RivalsOpen, Ours
<1>9. LaterWriterRefused'
  BY <1>1 DEF LaterWriterRefused, OpenElsewhereRefused
<1> QED
  BY <1>2, <1>3, <1>5, <1>6, <1>7, <1>8, <1>9

\* Nobody else is past the check when a sentinel is put.
LEMMA AcquireKeeps == ASSUME LockInv, NEW h \in Handles, Acquire(h) PROVE LockInv'
<1> USE DEF LockInv, LockTypeOK
<1>1. /\ pc[h] = "acquire" /\ pc' = [pc EXCEPT ![h] = "held"]
      /\ writers' = writers /\ rivals' = rivals
      /\ \/ /\ sentinel' = [machine |-> Ours(h), left |-> TTL]
            /\ lease' = [lease EXCEPT ![h] = TTL] /\ guarded' = guarded
         \/ sentinel' = sentinel /\ lease' = lease /\ guarded' = FALSE
      /\ lockfile' = lockfile
  BY DEF Acquire, Acquired, Guarded
<1>2. LockTypeOK'
  <2>1. /\ TTL \in 0..TTL
        /\ [machine |-> Ours(h), left |-> TTL] \in [machine : Machines, left : 1..TTL]
    BY Sentinels
  <2>2. sentinel' \in {NoLock} \cup [machine : Machines, left : 1..TTL]
    BY <1>1, <2>1
  <2>3. lease' \in [Handles -> 0..TTL]
    BY <1>1, <2>1
  <2>4. guarded' \in BOOLEAN
    BY <1>1
  <2> QED
    BY <1>1, <2>2, <2>3, <2>4
<1>3. Claims'
  BY <1>1 DEF Claims, Claiming, Ours
<1>4. guarded' => /\ guarded
                  /\ sentinel' = [machine |-> Ours(h), left |-> TTL]
                  /\ lease' = [lease EXCEPT ![h] = TTL]
                  /\ \A g \in Handles : pc[g] \in Owning => FALSE
  BY <1>1 DEF Apart, Single, Claiming, Owning
<1>5. Standing'
  BY <1>1, <1>4, Sentinels DEF Standing, Owning, Ours
<1>6. Single'
  BY <1>1, <1>4 DEF Single, Claiming, Owning, Ours
<1>7. Apart'
  BY <1>1, <1>4 DEF Apart, Claiming, Owning, Ours
<1>8. RivalsOpen'
  BY <1>1, <1>4 DEF RivalsOpen, Ours
<1>9. LaterWriterRefused'
  BY <1>1, <1>4 DEF LaterWriterRefused, OpenElsewhereRefused
<1> QED
  BY <1>2, <1>3, <1>5, <1>6, <1>7, <1>8, <1>9

\* The claim goes before the sentinel does.
LEMMA CloseLocalKeeps == ASSUME LockInv, NEW h \in Handles, CloseLocal(h) PROVE LockInv'
<1> USE DEF LockInv, LockTypeOK
<1>1. /\ pc[h] = "held" /\ pc' = [pc EXCEPT ![h] = "release"]
      /\ writers' = writers \ {Ours(h)}
      /\ rivals' = [g \in Handles |-> rivals[g] \ {h}]
      /\ sentinel' = sentinel /\ lease' = lease /\ guarded' = guarded
      /\ lockfile' = lockfile
  BY DEF CloseLocal, Forget
<1>2. LockTypeOK'
  BY <1>1
<1>3. Claims'
  BY <1>1 DEF Claims, Claiming, Ours
<1>5. Standing'
  BY <1>1 DEF Standing, Owning, Ours
<1>6. Single'
  BY <1>1 DEF Single, Claiming, Owning, Ours
<1>7. Apart'
  BY <1>1 DEF Apart, Claiming, Owning, Ours
<1>8. RivalsOpen'
  BY <1>1 DEF RivalsOpen, Ours
<1>9. LaterWriterRefused'
  BY <1>1 DEF LaterWriterRefused, OpenElsewhereRefused
<1> QED
  BY <1>2, <1>3, <1>5, <1>6, <1>7, <1>8, <1>9

\* Whoever releases deletes its own sentinel, and nobody else's.
LEMMA ReleaseKeeps == ASSUME LockInv, NEW h \in Handles, Release(h) PROVE LockInv'
<1> USE DEF LockInv, LockTypeOK
<1>1. /\ pc[h] = "release" /\ pc' = [pc EXCEPT ![h] = "idle"]
      /\ writers' = writers
      /\ rivals' = [rivals EXCEPT ![h] = {}]
      /\ lease' = [lease EXCEPT ![h] = 0] /\ guarded' = guarded
      /\ sentinel' \in {NoLock, sentinel}
      /\ lockfile' = lockfile
  BY DEF Release
<1>2. LockTypeOK'
  <2>1. 0 \in 0..TTL
    BY LockAssumption
  <2> QED
    BY <1>1, <2>1
<1>3. Claims'
  BY <1>1 DEF Claims, Claiming, Ours
<1>4. guarded => \A g \in Handles \ {h} : pc[g] \notin Owning
  BY <1>1 DEF Standing, Single, Owning
<1>5. Standing'
  BY <1>1, <1>4 DEF Standing, Owning, Ours
<1>6. Single'
  BY <1>1 DEF Single, Claiming, Owning, Ours
<1>7. Apart'
  BY <1>1 DEF Apart, Claiming, Owning, Ours
<1>8. RivalsOpen'
  BY <1>1 DEF RivalsOpen, Ours
<1>9. LaterWriterRefused'
  BY <1>1 DEF LaterWriterRefused, OpenElsewhereRefused
<1> QED
  BY <1>2, <1>3, <1>5, <1>6, <1>7, <1>8, <1>9

\* A rename reads the sentinel and leaves it alone.
LEMMA RenameStartKeeps == ASSUME LockInv, NEW h \in Handles, RenameStart(h) PROVE LockInv'
<1> USE DEF LockInv, LockTypeOK
<1>1. /\ pc[h] = "idle" /\ pc' = [pc EXCEPT ![h] = "renCheck"]
      /\ rivals' = [rivals EXCEPT ![h] = OpenElsewhere(h) \cup EditedElsewhere(h)]
      /\ guarded' = (guarded /\ Alone(h))
      /\ sentinel' = sentinel /\ writers' = writers /\ lease' = lease
      /\ lockfile' = lockfile
  BY DEF RenameStart, Guarded
<1>2. LockTypeOK'
  <2>1. OpenElsewhere(h) \cup EditedElsewhere(h) \subseteq Handles
    BY DEF OpenElsewhere, EditedElsewhere, Rest
  <2>2. guarded' \in BOOLEAN
    BY <1>1
  <2> QED
    BY <1>1, <2>1, <2>2
<1>3. Claims'
  BY <1>1 DEF Claims, Claiming, Ours
<1>5. Standing'
  BY <1>1 DEF Standing, Owning, Ours
<1>6. Single'
  BY <1>1 DEF Single, Claiming, Owning, Ours
<1>7. Apart'
  BY <1>1 DEF Apart, Claiming, Owning, Ours
<1>8. RivalsOpen'
  BY <1>1 DEF RivalsOpen, OpenElsewhere, EditedElsewhere, Rest, Ours
<1>9. LaterWriterRefused'
  BY <1>1 DEF LaterWriterRefused, OpenElsewhereRefused
<1> QED
  BY <1>2, <1>3, <1>5, <1>6, <1>7, <1>8, <1>9

\* A rename that proceeds has seen no foreign sentinel, hence no rival.
LEMMA RenameProceedsKeeps == ASSUME LockInv, NEW h \in Handles, RenameProceeds(h) PROVE LockInv'
<1> USE DEF LockInv, LockTypeOK
<1>1. /\ pc[h] = "renCheck" /\ pc' = [pc EXCEPT ![h] = "renCopy"]
      /\ guarded' = (guarded /\ ~Foreign(h))
      /\ sentinel' = sentinel /\ writers' = writers /\ lease' = lease /\ rivals' = rivals
      /\ lockfile' = lockfile
  BY DEF RenameProceeds, Guarded
<1>2. LockTypeOK'
  <2>1. guarded' \in BOOLEAN
    BY <1>1
  <2> QED
    BY <1>1, <2>1
<1>3. Claims'
  BY <1>1 DEF Claims, Claiming, Ours
<1>4. guarded' => /\ guarded
                  /\ \A g \in Handles : Ours(g) # Ours(h) => pc[g] \notin Owning
  BY <1>1 DEF Standing, Foreign, Owning
<1>5. Standing'
  BY <1>1, <1>4 DEF Standing, Owning, Ours
<1>6. Single'
  BY <1>1, <1>4 DEF Single, Claiming, Owning, Ours
<1>7. Apart'
  BY <1>1, <1>4 DEF Apart, Claiming, Owning, Ours
<1>8. RivalsOpen'
  BY <1>1, <1>4 DEF RivalsOpen, Ours
<1>9. LaterWriterRefused'
  <2>1. guarded' => rivals[h] = {}
    BY <1>1, <1>4 DEF RivalsOpen, Owning
  <2> QED
    BY <1>1, <1>4, <2>1 DEF LaterWriterRefused, OpenElsewhereRefused
<1> QED
  BY <1>2, <1>3, <1>5, <1>6, <1>7, <1>8, <1>9

\* And its end concerns nobody else.
LEMMA RenameEndKeeps ==
    ASSUME LockInv, NEW h \in Handles, RenameDiverts(h) \/ RenameCopy(h)
    PROVE  LockInv'
<1> USE DEF LockInv, LockTypeOK
<1>1. /\ pc[h] \in {"renCheck", "renCopy"} /\ pc' = [pc EXCEPT ![h] = "idle"]
      /\ rivals' = [rivals EXCEPT ![h] = {}]
      /\ sentinel' = sentinel /\ writers' = writers /\ lease' = lease /\ guarded' = guarded
      /\ lockfile' = lockfile
  BY DEF RenameDiverts, RenameCopy
<1>2. LockTypeOK'
  BY <1>1
<1>3. Claims'
  BY <1>1 DEF Claims, Claiming, Ours
<1>5. Standing'
  BY <1>1 DEF Standing, Owning, Ours
<1>6. Single'
  BY <1>1 DEF Single, Claiming, Owning, Ours
<1>7. Apart'
  BY <1>1 DEF Apart, Claiming, Owning, Ours
<1>8. RivalsOpen'
  BY <1>1 DEF RivalsOpen, Ours
<1>9. LaterWriterRefused'
  BY <1>1 DEF LaterWriterRefused, OpenElsewhereRefused
<1> QED
  BY <1>2, <1>3, <1>5, <1>6, <1>7, <1>8, <1>9

\* From what the protocol does not guard against, the claims are all that is left.
LEMMA UnguardedKeeps ==
    ASSUME LockInv, LockTypeOK', Claims', ~guarded'
    PROVE  LockInv'
BY DEF LockInv, Standing, Single, Apart, RivalsOpen, LaterWriterRefused

\* The lockfile in the bucket is nothing to the others.
LEMMA ToLockfileKeeps ==
    ASSUME LockInv, lockfile' \in BOOLEAN,
           UNCHANGED <<sentinel, writers, pc, lease, rivals, guarded>>
    PROVE  LockInv'
BY DEF LockInv, LockTypeOK, Claims, Standing, Single, Apart, RivalsOpen,
       LaterWriterRefused, OpenElsewhereRefused, Ours

\* Lockfiles of editors.
LEMMA LockfileKeeps ==
    ASSUME LockInv, NEW h \in Handles,
           LockfileCreated(h) \/ LockfileStored(h) \/ LockfileOpened(h) \/ LockfileClosed(h)
    PROVE  LockInv'
<1> USE DEF LockInv, LockTypeOK
<1>1. CASE LockfileCreated(h)
  <2>1. /\ pc[h] = "idle" /\ pc' = [pc EXCEPT ![h] = "editing"] /\ guarded' = FALSE
        /\ sentinel' = sentinel /\ writers' = writers /\ lease' = lease /\ rivals' = rivals
        /\ lockfile' = lockfile
    BY <1>1 DEF LockfileCreated, Guarded
  <2>2. LockTypeOK' /\ Claims'
    <3>1. LockTypeOK'
      BY <2>1
    <3>2. \A g \in Handles : pc'[g] \in Claiming <=> pc[g] \in Claiming
      BY <2>1 DEF Claiming
    <3>3. Claims'
      BY <2>1, <3>2, Zenon DEF Claims, Ours
    <3> QED
      BY <3>1, <3>3
  <2> QED
    BY <2>1, <2>2, UnguardedKeeps
<1>2. CASE LockfileOpened(h)
  <2>1. /\ sentinel' = [machine |-> Ours(h), left |-> TTL] /\ guarded' = FALSE
        /\ pc' = pc /\ writers' = writers /\ lease' = lease /\ rivals' = rivals
        /\ lockfile' = lockfile
    BY <1>2 DEF LockfileOpened, Guarded, Acquired
  <2>2. LockTypeOK' /\ Claims'
    BY <2>1, Sentinels DEF Claims, Claiming, Ours
  <2> QED
    BY <2>1, <2>2, UnguardedKeeps
<1>3. CASE LockfileClosed(h)
  <2>1. /\ pc[h] = "editing" /\ pc' = [pc EXCEPT ![h] = "idle"]
        /\ rivals' = [g \in Handles |-> rivals[g] \ {h}]
        /\ sentinel' = sentinel /\ writers' = writers /\ lease' = lease
        /\ guarded' = guarded /\ lockfile' \in {lockfile, FALSE}
    BY <1>3 DEF LockfileClosed, Forget
  <2>2. ~guarded
    BY <2>1 DEF RivalsOpen
  <2>3. LockTypeOK' /\ Claims'
    BY <2>1 DEF Claims, Claiming, Ours
  <2> QED
    BY <2>1, <2>2, <2>3, UnguardedKeeps
<1>4. CASE LockfileStored(h)
  BY <1>4, ToLockfileKeeps DEF LockfileStored
<1> QED
  BY <1>1, <1>2, <1>3, <1>4

\* A sentinel and the lease of the handle that put it age together.
LEMMA TickKeeps == ASSUME LockInv, Tick PROVE LockInv'
<1> USE DEF LockInv, LockTypeOK
<1>1. /\ sentinel' = IF sentinel = NoLock THEN NoLock ELSE Aged(sentinel)
      /\ lease' = [h \in Handles |-> IF lease[h] = 0 THEN 0 ELSE lease[h] - 1]
      /\ \A h \in Handles : rivals'[h] \subseteq rivals[h]
      /\ rivals' \in [Handles -> SUBSET Handles]
      /\ guarded' = (guarded /\ \A h \in Handles : pc[h] \in Owning => lease[h] # 1)
      /\ writers' = writers /\ pc' = pc
      /\ lockfile' = lockfile
  BY DEF Tick, Forget, Guarded, Owning
<1>2. LockTypeOK'
  <2>1. sentinel' \in {NoLock} \cup [machine : Machines, left : 1..TTL]
    BY <1>1, LockAssumption DEF Aged
  <2>2. lease' \in [Handles -> 0..TTL]
    BY <1>1, LockAssumption
  <2>3. guarded' \in BOOLEAN
    BY <1>1
  <2> QED
    BY <1>1, <2>1, <2>2, <2>3
<1>3. Claims'
  BY <1>1 DEF Claims, Claiming, Ours
<1>4. guarded' => guarded /\ \A h \in Handles : pc[h] \in Owning => lease[h] # 1
  BY <1>1
<1>5. Standing'
  <2> SUFFICES ASSUME guarded', NEW h \in Handles, pc[h] \in Owning
               PROVE  /\ sentinel' # NoLock
                      /\ sentinel'.machine = Ours(h) /\ sentinel'.left = lease'[h]
    BY <1>1 DEF Standing, Ours
  <2>1. /\ sentinel # NoLock /\ sentinel.machine = Ours(h)
        /\ sentinel.left = lease[h] /\ lease[h] # 1
    BY <1>4 DEF Standing
  <2>2. /\ sentinel \in [machine : Machines, left : 1..TTL]
        /\ sentinel' = [sentinel EXCEPT !.left = @ - 1]
    BY <1>1, <2>1 DEF Aged
  <2>3. sentinel'.machine = Ours(h) /\ sentinel'.left = lease'[h]
    BY <1>1, <2>1, <2>2, LockAssumption
  <2>4. sentinel' # NoLock
    BY <1>2, <2>1, <2>2, LockAssumption
  <2> QED
    BY <2>3, <2>4
<1>6. Single'
  BY <1>1, <1>4 DEF Single, Claiming, Owning, Ours
<1>7. Apart'
  BY <1>1, <1>4 DEF Apart, Claiming, Owning, Ours
<1>8. RivalsOpen'
  BY <1>1, <1>4 DEF RivalsOpen, Ours
<1>9. LaterWriterRefused'
  BY <1>1, <1>4 DEF LaterWriterRefused, OpenElsewhereRefused
<1> QED
  BY <1>2, <1>3, <1>5, <1>6, <1>7, <1>8, <1>9

\* A crash takes claims and handles and leaves the sentinel.
LEMMA CrashKeeps == ASSUME LockInv, NEW m \in Machines, Crash(m) PROVE LockInv'
<1> USE DEF LockInv, LockTypeOK
<1> DEFINE gone == {h \in Handles : Ours(h) = m}
<1>1. /\ pc' = [h \in Handles |-> IF h \in gone THEN "idle" ELSE pc[h]]
      /\ lease' = [h \in Handles |-> IF h \in gone THEN 0 ELSE lease[h]]
      /\ rivals' = [h \in Handles |-> IF h \in gone THEN {} ELSE rivals[h] \ gone]
      /\ writers' = writers \ {m} /\ sentinel' = sentinel /\ guarded' = guarded
      /\ lockfile' = lockfile
  BY DEF Crash, Ours
<1>2. LockTypeOK'
  <2>1. 0 \in 0..TTL
    BY LockAssumption
  <2> QED
    BY <1>1, <2>1
<1>3. Claims'
  BY <1>1 DEF Claims, Claiming, Ours
<1>5. Standing'
  BY <1>1 DEF Standing, Owning, Ours
<1>6. Single'
  BY <1>1 DEF Single, Claiming, Owning, Ours
<1>7. Apart'
  BY <1>1 DEF Apart, Claiming, Owning, Ours
<1>8. RivalsOpen'
  BY <1>1 DEF RivalsOpen, Ours
<1>9. LaterWriterRefused'
  BY <1>1 DEF LaterWriterRefused, OpenElsewhereRefused
<1> QED
  BY <1>2, <1>3, <1>5, <1>6, <1>7, <1>8, <1>9

LEMMA BreakKeeps == ASSUME LockInv, Break PROVE LockInv'
<1> USE DEF LockInv, LockTypeOK
<1>1. /\ sentinel' = NoLock /\ guarded' = FALSE
      /\ writers' = writers /\ pc' = pc /\ lease' = lease /\ rivals' = rivals
      /\ lockfile' = lockfile
  BY DEF Break, Guarded
<1>2. LockTypeOK' /\ Claims'
  BY <1>1 DEF Claims, Claiming, Ours
<1> QED
  BY <1>1, <1>2, UnguardedKeeps

-----------------------------------------------------------------------------
LEMMA LockInvHolds == LockSpec => []LockInv
<1>1. LockInv /\ [LockNext]_lockVars => LockInv'
  <2> SUFFICES ASSUME LockInv, [LockNext]_lockVars PROVE LockInv'
    OBVIOUS
  <2>1. CASE UNCHANGED lockVars
    BY <2>1 DEF lockVars, LockInv, LockTypeOK, Claims, Standing, Single, Apart, RivalsOpen,
        LaterWriterRefused, OpenElsewhereRefused, Ours
  <2>2. ASSUME NEW h \in Handles, Step(h) PROVE LockInv'
    BY <2>2, ClaimKeeps, CheckFreeKeeps, CheckForeignKeeps, AcquireKeeps, CloseLocalKeeps,
        ReleaseKeeps, RenameStartKeeps, RenameProceedsKeeps, RenameEndKeeps, LockfileKeeps
        DEF Step
  <2>3. CASE LockfileRemoved
    BY <2>3, ToLockfileKeeps DEF LockfileRemoved
  <2> QED
    BY <2>1, <2>2, <2>3, TickKeeps, CrashKeeps, BreakKeeps DEF LockNext
<1> QED
  BY <1>1, LockInvStarts, PTL DEF LockSpec

\* "Subsequent writer-opens from other machines ... are rejected" (file_lock.rs), on any
\* number of machines with any number of handles, as long as nothing happened that the
\* protocol does not guard against.
THEOREM LaterIsRefused == LockSpec => []LaterWriterRefused
<1>1. LockInv => LaterWriterRefused
  BY DEF LockInv
<1> QED
  BY <1>1, LockInvHolds, PTL

\* No open, refusal, close or crash of any machine takes the sentinel of an open handle
\* away (file_lock.rs acquire and release, winfsp_vfs.rs close).
THEOREM SentinelIsKept == LockSpec => []SentinelStands
<1>1. LockInv => SentinelStands
  BY DEF LockInv, Standing, SentinelStands, Owning
<1> QED
  BY <1>1, LockInvHolds, PTL

\* The claims in local_writers are those of the calls and handles, one for each, in
\* spite of refusals, failed requests and crashes (winfsp_vfs.rs open, create, close).
THEOREM ClaimsAreKept == LockSpec => []ClaimsMatchHandles
<1>1. LockInv => ClaimsMatchHandles
  <2> SUFFICES ASSUME LockInv, NEW m \in Machines
               PROVE  Cardinality({h \in Handles : MachineOf[h] = m /\ pc[h] \in Claiming})
                          = IF m \in writers THEN 1 ELSE 0
    BY DEF LockInv, ClaimsMatchHandles, Claiming
  <2> DEFINE S == {h \in Handles : MachineOf[h] = m /\ pc[h] \in Claiming}
  <2>1. CASE m \in writers
    <3>1. PICK h \in Handles : Ours(h) = m /\ pc[h] \in Claiming
      BY <2>1 DEF LockInv, Claims
    <3>2. S = {h}
      BY <3>1 DEF LockInv, Claims, Ours
    <3> QED
      BY <2>1, <3>2, FS_Singleton
  <2>2. CASE m \notin writers
    <3>1. S = {}
      BY <2>2 DEF LockInv, Claims, Ours
    <3> QED
      BY <2>2, <3>1, FS_EmptySet
  <2> QED
    BY <2>1, <2>2
<1> QED
  BY <1>1, LockInvHolds, PTL

-----------------------------------------------------------------------------
(***************************************************************************)
(* The names of files and directories.                                     *)
(*                                                                         *)
(* What this machine cached for a name is right unless the name goes       *)
(* through a directory in odd, and that is what Right says of each entry:  *)
(* a listing is the one of the bucket, and what a path led to is what it   *)
(* leads to, or at least not itself if it is not there (TopRight,          *)
(* InnerRight).  That an entry fits the path it was cached under (Fit) is  *)
(* needed whatever is odd: it says which entries a step can disturb.       *)
(* Resolve preserves both and answers what they say; each call is then     *)
(* shown to drop every entry that its change of the bucket makes wrong, or *)
(* to make its directory odd.                                              *)
(***************************************************************************)

-----------------------------------------------------------------------------
(* Names and paths *)

LEMMA Numbers == Top \subseteq Nat /\ Inner \subseteq Nat /\ Names \subseteq Nat /\ Keep \notin Names
BY NameSpaceAssumption DEF Names

\* Of three names at most two have the same fold.
LEMMA Pairs ==
    ASSUME NEW a \in Nat, NEW b \in Nat, NEW n \in Nat, Fold(a) = Fold(n), Fold(b) = Fold(n), a # n, b # n
    PROVE  a = b
BY DEF Fold

LEMMA Tops ==
    ASSUME NEW n \in Top
    PROVE  /\ <<n>> \in Paths /\ <<n>> \in Objects /\ <<n>> \in Dirs /\ <<n>> # Root /\ Root \in Dirs
           /\ Append(Root, n) = <<n>> /\ Parent(<<n>>) = Root /\ Name(<<n>>) = n
           /\ Len(<<n>>) = 1 /\ <<n>>[1] = n
BY DEF Paths, Objects, Dirs, Root, Parent, Name

LEMMA Inners ==
    ASSUME NEW d, NEW n
    PROVE  /\ Append(<<d>>, n) = <<d, n>> /\ Parent(<<d, n>>) = <<d>> /\ Name(<<d, n>>) = n
           /\ Len(<<d, n>>) = 2 /\ <<d, n>>[1] = d /\ <<d, n>>[2] = n /\ <<d, n>> # Root
           /\ (d \in Top /\ n \in Inner => <<d, n>> \in Files /\ <<d, n>> \in Paths)
           /\ (d \in Top /\ n \in Inner \cup {Keep} => <<d, n>> \in Objects)
           /\ \A x : <<x>> # <<d, n>>
<1>1. Append(<<d>>, n) = <<d, n>>
  <2>1. <<d>> \in Seq({d, n}) /\ n \in {d, n} /\ <<d, n>> \in Seq({d, n})
    OBVIOUS
  <2>2. /\ Append(<<d>>, n) \in Seq({d, n}) /\ Len(Append(<<d>>, n)) = 2
        /\ Append(<<d>>, n)[1] = d /\ Append(<<d>>, n)[2] = n
    BY <2>1
  <2>3. Len(<<d, n>>) = 2 /\ <<d, n>>[1] = d /\ <<d, n>>[2] = n /\ 1..2 = {1, 2}
    OBVIOUS
  <2> QED
    BY <2>1, <2>2, <2>3, SeqEqual, Zenon
<1>6. Len(<<d, n>>) = 2 /\ <<d, n>>[1] = d /\ <<d, n>>[2] = n
  OBVIOUS
<1>2. <<d, n>> # <<>>
  OBVIOUS
<1>3. \A x : <<x>> # <<d, n>>
  OBVIOUS
<1>4. d \in Top /\ n \in Inner => <<d, n>> \in Files
  BY DEF Files
<1>5. d \in Top /\ n \in Inner \cup {Keep} => <<d, n>> \in Objects
  BY <1>4 DEF Objects, Paths, Files
<1> QED
  BY <1>1, <1>2, <1>3, <1>4, <1>5, <1>6 DEF Paths, Root, Parent, Name

LEMMA PathCases ==
    /\ \A k \in Paths : \/ \E n \in Top : k = <<n>>
                        \/ \E d \in Top, n \in Inner : k = <<d, n>>
    /\ \A k \in Objects : \/ \E n \in Top : k = <<n>>
                          \/ \E d \in Top, n \in Inner \cup {Keep} : k = <<d, n>>
    /\ \A k \in Dirs : k = Root \/ \E n \in Top : k = <<n>>
BY DEF Paths, Objects, Files, Dirs

LEMMA AllPaths == (\A n \in Top : <<n>> \in Paths) /\ (\A d \in Top, n \in Inner : <<d, n>> \in Paths)
BY DEF Paths, Files

LEMMA Parents == \A k \in Paths : Parent(k) \in Dirs
<1> TAKE k \in Paths
<1>1. ASSUME NEW n \in Top, k = <<n>> PROVE Parent(k) \in Dirs
  BY <1>1, Tops
<1>2. ASSUME NEW d \in Top, NEW n \in Inner, k = <<d, n>> PROVE Parent(k) \in Dirs
  <2>1. Parent(<<d, n>>) = <<d>>
    BY Inners, Zenon
  <2> QED
    BY <1>2, <2>1, Tops
<1> QED
  BY <1>1, <1>2, PathCases

\* What a rename makes of a file, and of what is in a directory.
LEMMA MovedIs ==
    /\ \A k \in Paths, to \in Paths : Moved(k, k, to) = to
    /\ \A a, b, n : Moved(<<a, n>>, <<a>>, <<b>>) = <<b, n>>
<1>1. ASSUME NEW k \in Paths, NEW to \in Paths PROVE Moved(k, k, to) = to
  <2>1. Len(k) \in Nat /\ to \in Seq(Names)
    <3>1. Len(k) \in Nat
      BY PathCases, Tops, Inners
    <3>2. ASSUME NEW n \in Top, to = <<n>> PROVE to \in Seq(Names)
      BY <3>2 DEF Names
    <3>3. ASSUME NEW d \in Top, NEW n \in Inner, to = <<d, n>> PROVE to \in Seq(Names)
      BY <3>3 DEF Names
    <3> QED
      BY <3>1, <3>2, <3>3, PathCases
  <2>2. SubSeq(k, Len(k) + 1, Len(k)) = <<>>
    BY <2>1, SubSeqEmpty
  <2> QED
    BY <2>1, <2>2, ConcatEmptySeq DEF Moved
<1>2. ASSUME NEW a, NEW b, NEW n PROVE Moved(<<a, n>>, <<a>>, <<b>>) = <<b, n>>
  <2> DEFINE S == {a, b, n}
             t == SubSeq(<<a, n>>, 2, 2)
  <2>1. \A i \in 2..2 : <<a, n>>[i] \in S
    BY Inners
  <2>2. t \in Seq(S) /\ Len(t) = 1 /\ t[1] = n
    BY <2>1, SubSeqProperties, Inners
  <2>3. <<b>> \in Seq(S) /\ Len(<<b>>) = 1 /\ <<b>>[1] = b /\ <<b, n>> \in Seq(S)
    OBVIOUS
  <2>4. Len(<<b, n>>) = 2 /\ <<b, n>>[1] = b /\ <<b, n>>[2] = n /\ 1..2 = {1, 2}
    OBVIOUS
  <2> HIDE DEF t, S
  <2>5. /\ <<b>> \o t \in Seq(S) /\ Len(<<b>> \o t) = 2
        /\ (<<b>> \o t)[1] = b /\ (<<b>> \o t)[2] = n
    BY <2>2, <2>3, ConcatProperties
  <2>6. <<b>> \o t = <<b, n>>
    BY <2>3, <2>4, <2>5, SeqEqual, Zenon
  <2>7. Len(<<a>>) + 1 = 2 /\ Len(<<a, n>>) = 2
    OBVIOUS
  <2> QED
    BY <2>6, <2>7 DEF Moved, t
<1> QED
  BY <1>1, <1>2

-----------------------------------------------------------------------------
(* What the caches may hold, and when it is right *)

ListsOf(d) == {l \in Listing : IF d = Root THEN l.files \subseteq Top
                               ELSE l.dirs = {} /\ l.files \subseteq Inner}

TopFound(n) == {f \in Found : \E m \in Top : f.real = <<m>> /\ Fold(m) = Fold(n)}

InnerFound(d, n) ==
    {f \in Found : /\ ~f.dir
                   /\ \E a \in Top, m \in Inner :
                         f.real = <<a, m>> /\ Fold(a) = Fold(d) /\ Fold(m) = Fold(n)}

\* A cache holds what a directory can list and what a path can lead to: whatever is found
\* has the name that was asked for but for its case.
Fit(c) ==
    /\ c \in Caches
    /\ \A d \in Dirs : {c.mem[d], c.disk[d]} \subseteq ListsOf(d) \cup {None}
    /\ \A n \in Top : c.meta[<<n>>] \in TopFound(n) \cup {Absent, None}
    /\ \A d \in Top, n \in Inner : c.meta[<<d, n>>] \in InnerFound(d, n) \cup {Absent, None}

\* Nothing that a path of which n is the first name goes through is in O.
Sure(n, O) == Root \notin O /\ \A m \in Top : <<m>> \in O => Fold(m) # Fold(n)

\* The directory to which the name n leads among objects B.
Leads(n, a, B) ==
    /\ a \in Top /\ IsDir(<<a>>, B) /\ Fold(a) = Fold(n)
    /\ IsDir(<<n>>, B) => a = n

\* What is cached for a name in the root is right among objects B.
TopRight(e, n, B) ==
    /\ e = Absent => \A m \in Top : Fold(m) = Fold(n) => ~IsDir(<<m>>, B) /\ <<m>> \notin B
    /\ e \notin {Absent, None} =>
          /\ /\ Present(<<n>>, B)
             /\ \A m \in Top : Fold(m) = Fold(n) /\ IsDir(<<m>>, B) => m = n
             => e.real = <<n>>
          /\ e.real = <<n>> => Present(<<n>>, B)
          /\ e.dir => Leads(n, e.real[1], B)

\* What is cached for a file in a directory is right among objects B.
InnerRight(e, d, n, B) ==
    /\ e = Absent => \A a \in Top, m \in Inner :
                        Leads(d, a, B) /\ Fold(m) = Fold(n) => <<a, m>> \notin B
    /\ e \notin {Absent, None} => (e.real = <<d, n>> <=> <<d, n>> \in B)

Right(c, B, O) ==
    /\ \A d \in Dirs \ O : {c.mem[d], c.disk[d]} \subseteq {None, ListOf(d, B)}
    /\ \A n \in Top : Sure(n, O) => TopRight(c.meta[<<n>>], n, B)
    /\ \A d \in Top, n \in Inner : Sure(d, O) => InnerRight(c.meta[<<d, n>>], d, n, B)

-----------------------------------------------------------------------------
(* Listings *)

LEMMA ListOfIs ==
    ASSUME NEW B \in SUBSET Objects
    PROVE  /\ \A d \in Dirs : ListOf(d, B) \in ListsOf(d) /\ ListOf(d, B) # None
           /\ ListOf(Root, B).dirs = {n \in Top : IsDir(<<n>>, B)}
           /\ ListOf(Root, B).files = {n \in Top : <<n>> \in B}
           /\ \A a \in Top : /\ ListOf(<<a>>, B).dirs = {}
                             /\ ListOf(<<a>>, B).files = {n \in Inner : <<a, n>> \in B}
<1>1. ListOf(Root, B).dirs = {n \in Top : IsDir(<<n>>, B)}
  BY Tops DEF ListOf, IsDir
<1>2. ListOf(Root, B).files = {n \in Top : <<n>> \in B}
  <2>1. ListOf(Root, B).files = {n \in Names : Append(Root, n) \in B}
    BY DEF ListOf
  <2>2. \A n : Append(Root, n) \in B <=> <<n>> \in B
    <3>1. \A n : Append(Root, n) = <<n>>
      BY DEF Root
    <3> QED
      BY <3>1, Zenon
  <2>3. \A n : <<n>> \in B => n \in Top
    BY PathCases, Inners
  <2>4. ListOf(Root, B).files = {n \in Names : <<n>> \in B}
    BY <2>1, <2>2
  <2> QED
    BY <2>3, <2>4 DEF Names
<1>3. ASSUME NEW a \in Top
      PROVE  /\ ListOf(<<a>>, B).dirs = {}
             /\ ListOf(<<a>>, B).files = {n \in Inner : <<a, n>> \in B}
  <2>1. ListOf(<<a>>, B).dirs = {}
    BY Tops DEF ListOf
  <2>2. ListOf(<<a>>, B).files = {n \in Names : <<a, n>> \in B}
    <3>1. \A n : Append(<<a>>, n) \in B <=> <<a, n>> \in B
      <4>1. \A n : Append(<<a>>, n) = <<a, n>>
        BY Inners
      <4> QED
        BY <4>1, Zenon
    <3>2. ListOf(<<a>>, B).files = {n \in Names : Append(<<a>>, n) \in B}
      BY DEF ListOf
    <3> QED
      BY <3>1, <3>2
  <2>3. \A n \in Names : <<a, n>> \in B => n \in Inner
    <3> TAKE n \in Names
    <3> HAVE <<a, n>> \in B
    <3>1. PICK d \in Top, m \in Inner \cup {Keep} : <<a, n>> = <<d, m>>
      BY PathCases, Inners
    <3>2. n = m
      BY <3>1, Inners
    <3> QED
      BY <3>1, <3>2, Numbers
  <2> QED
    BY <2>1, <2>2, <2>3 DEF Names
<1>4. \A d \in Dirs : ListOf(d, B) \in Listing
  BY DEF ListOf, Listing
<1>5. ListOf(Root, B) \in ListsOf(Root)
  BY <1>2, <1>4, Tops DEF ListsOf, Dirs
<1>6. \A a \in Top : ListOf(<<a>>, B) \in ListsOf(<<a>>)
  BY <1>3, <1>4, Tops DEF ListsOf
<1> QED
  BY <1>1, <1>2, <1>3, <1>4, <1>5, <1>6, PathCases, NothingAssumption

LEMMA ListHas ==
    ASSUME NEW B \in SUBSET Objects
    PROVE  /\ \A n \in Top : /\ n \in ListOf(Root, B).dirs <=> IsDir(<<n>>, B)
                             /\ n \in ListOf(Root, B).files <=> <<n>> \in B
           /\ \A a \in Top, n \in Inner : n \in ListOf(<<a>>, B).files <=> <<a, n>> \in B
<1>1. ASSUME NEW n \in Top
      PROVE  /\ n \in ListOf(Root, B).dirs <=> IsDir(<<n>>, B)
             /\ n \in ListOf(Root, B).files <=> <<n>> \in B
  BY ListOfIs
<1>2. ASSUME NEW a \in Top, NEW n \in Inner
      PROVE  n \in ListOf(<<a>>, B).files <=> <<a, n>> \in B
  <2>1. ListOf(<<a>>, B).files = {m \in Inner : <<a, m>> \in B}
    BY ListOfIs
  <2>2. n \in {m \in Inner : <<a, m>> \in B} <=> <<a, n>> \in B
    OBVIOUS
  <2> QED
    BY <2>1, <2>2, Zenon
<1> QED
  BY <1>1, <1>2

LEMMA SeededIs ==
    ASSUME NEW c \in Caches, NEW d \in Dirs, NEW list \in Listing
    PROVE  /\ Seeded(c, d, list) \in Caches
           /\ Seeded(c, d, list).mem[d] = list
           /\ \A e \in Dirs \ {d} : Seeded(c, d, list).mem[e] = c.mem[e]
           /\ Seeded(c, d, list).disk = c.disk
           /\ \A k \in Paths :
                  IF Parent(k) = d /\ Name(k) \in list.dirs \cup list.files
                  THEN LET e == Seeded(c, d, list).meta[k]
                       IN  e \in Found /\ e.real = k /\ (e.dir <=> Name(k) \notin list.files)
                  ELSE Seeded(c, d, list).meta[k] = c.meta[k]
<1> DEFINE meta == [k \in Paths |->
                      IF Parent(k) = d /\ Name(k) \in list.dirs \cup list.files
                      THEN [real |-> k, dir |-> Name(k) \notin list.files] ELSE c.meta[k]]
<1>1. meta \in [Paths -> Found \cup {Absent, None}]
  <2>1. \A k \in Paths : [real |-> k, dir |-> Name(k) \notin list.files] \in Found
    BY DEF Found
  <2> QED
    BY <2>1 DEF Caches
<1> HIDE DEF meta
<1>2. Seeded(c, d, list) = [c EXCEPT !.mem[d] = list, !.meta = meta]
  BY DEF Seeded, meta
<1>3. Seeded(c, d, list) = [mem |-> [c.mem EXCEPT ![d] = list], disk |-> c.disk, meta |-> meta]
  BY <1>2 DEF Caches
<1>4. [c.mem EXCEPT ![d] = list] \in [Dirs -> Listing \cup {None}]
  BY DEF Caches
<1>5. Seeded(c, d, list) \in Caches
  BY <1>1, <1>3, <1>4 DEF Caches
<1>6. Seeded(c, d, list).mem[d] = list /\ \A e \in Dirs \ {d} : Seeded(c, d, list).mem[e] = c.mem[e]
  BY <1>3 DEF Caches
<1>7. ASSUME NEW k \in Paths, Parent(k) = d, Name(k) \in list.dirs \cup list.files
      PROVE  /\ Seeded(c, d, list).meta[k] \in Found /\ Seeded(c, d, list).meta[k].real = k
             /\ Seeded(c, d, list).meta[k].dir <=> Name(k) \notin list.files
  <2>1. Seeded(c, d, list).meta[k] = [real |-> k, dir |-> Name(k) \notin list.files]
    BY <1>3, <1>7 DEF meta
  <2>2. PICK b \in BOOLEAN : b <=> Name(k) \notin list.files
    BY Zenon
  <2>3. b = (Name(k) \notin list.files)
    BY <2>2, Zenon
  <2>4. Seeded(c, d, list).meta[k] = [real |-> k, dir |-> b]
    BY <2>1, <2>3, Zenon
  <2> QED
    BY <2>2, <2>4 DEF Found
<1>8. \A k \in Paths : ~(Parent(k) = d /\ Name(k) \in list.dirs \cup list.files)
                       => Seeded(c, d, list).meta[k] = c.meta[k]
  BY <1>3 DEF meta
<1> QED
  BY <1>3, <1>5, <1>6, <1>7, <1>8

\* What is learnt about paths is right of any part of a listing.
LEMMA SeedsRight ==
    ASSUME NEW c, NEW d \in Dirs, NEW list \in ListsOf(d),
           NEW B \in SUBSET Objects, NEW O, Fit(c), Right(c, B, O),
           d \notin O => list.dirs \subseteq ListOf(d, B).dirs /\ list.files \subseteq ListOf(d, B).files
    PROVE  LET s == Seeded(c, d, list)
           IN  /\ Fit(s)
               /\ \A n \in Top : Sure(n, O) => TopRight(s.meta[<<n>>], n, B)
               /\ \A a \in Top, n \in Inner : Sure(a, O) => InnerRight(s.meta[<<a, n>>], a, n, B)
<1> DEFINE s == Seeded(c, d, list)
<1>1. c \in Caches /\ list \in Listing
  BY DEF Fit, ListsOf
<1>2. /\ s \in Caches /\ s.mem[d] = list /\ \A e \in Dirs \ {d} : s.mem[e] = c.mem[e]
      /\ s.disk = c.disk
      /\ \A k \in Paths :
            IF Parent(k) = d /\ Name(k) \in list.dirs \cup list.files
            THEN /\ s.meta[k] \in Found /\ s.meta[k].real = k
                 /\ s.meta[k].dir <=> Name(k) \notin list.files
            ELSE s.meta[k] = c.meta[k]
  BY <1>1, SeededIs
<1> HIDE DEF s
<1>3. \A e \in Dirs : {s.mem[e], s.disk[e]} \subseteq ListsOf(e) \cup {None}
  BY <1>2 DEF Fit
<1>4. ASSUME NEW n \in Top, s.meta[<<n>>] # c.meta[<<n>>]
      PROVE  /\ s.meta[<<n>>] \in TopFound(n)
             /\ Sure(n, O) => TopRight(s.meta[<<n>>], n, B)
  <2>1. /\ d = Root /\ n \in list.dirs \cup list.files
        /\ s.meta[<<n>>] \in Found /\ s.meta[<<n>>].real = <<n>>
        /\ s.meta[<<n>>].dir <=> n \notin list.files
    BY <1>2, <1>4, Tops
  <2>2. s.meta[<<n>>] \in TopFound(n) /\ s.meta[<<n>>] \notin {Absent, None}
    BY <2>1, NothingAssumption DEF TopFound
  <2>3. ASSUME Sure(n, O) PROVE TopRight(s.meta[<<n>>], n, B)
    <3>1. list.dirs \subseteq ListOf(Root, B).dirs /\ list.files \subseteq ListOf(Root, B).files
      BY <2>1, <2>3 DEF Sure
    <3>2. IsDir(<<n>>, B) \/ <<n>> \in B
      BY <2>1, <3>1, ListHas
    <3>3. s.meta[<<n>>].dir => IsDir(<<n>>, B)
      BY <2>1, <3>1, ListHas
    <3>4. s.meta[<<n>>].real = <<n>> /\ <<n>>[1] = n
      BY <2>1
    <3> QED
      BY <2>2, <3>2, <3>3, <3>4, Tops DEF TopRight, Present, Leads
  <2> QED
    BY <2>2, <2>3
<1>5. ASSUME NEW a \in Top, NEW n \in Inner, s.meta[<<a, n>>] # c.meta[<<a, n>>]
      PROVE  /\ s.meta[<<a, n>>] \in InnerFound(a, n)
             /\ Sure(a, O) => InnerRight(s.meta[<<a, n>>], a, n, B)
  <2>1. /\ d = <<a>> /\ n \in list.dirs \cup list.files
        /\ s.meta[<<a, n>>] \in Found /\ s.meta[<<a, n>>].real = <<a, n>>
        /\ s.meta[<<a, n>>].dir <=> n \notin list.files
    <3>1. <<a, n>> \in Paths /\ Parent(<<a, n>>) = <<a>> /\ Name(<<a, n>>) = n
      BY Inners
    <3> QED
      BY <1>2, <1>5, <3>1
  <2>2. list.dirs = {} /\ d # Root
    BY <2>1, Tops DEF ListsOf
  <2>3. ~s.meta[<<a, n>>].dir
    BY <2>1, <2>2
  <2>4. s.meta[<<a, n>>] \in InnerFound(a, n) /\ s.meta[<<a, n>>] \notin {Absent, None}
    BY <2>1, <2>3, NothingAssumption DEF InnerFound
  <2>5. ASSUME Sure(a, O) PROVE <<a, n>> \in B
    <3>1. <<a>> \notin O
      BY <2>5 DEF Sure
    <3>2. n \in ListOf(<<a>>, B).files
      BY <2>1, <2>2, <3>1
    <3> QED
      BY <3>2, ListHas
  <2> QED
    BY <2>1, <2>4, <2>5 DEF InnerRight
<1>6. Fit(s)
  BY <1>2, <1>3, <1>4, <1>5 DEF Fit
<1>7. \A n \in Top : Sure(n, O) => TopRight(s.meta[<<n>>], n, B)
  BY <1>4 DEF Right
<1>8. \A a \in Top, n \in Inner : Sure(a, O) => InnerRight(s.meta[<<a, n>>], a, n, B)
  BY <1>5 DEF Right
<1> QED
  BY <1>6, <1>7, <1>8 DEF s

LEMMA SeededKeeps ==
    ASSUME NEW c, NEW d \in Dirs, NEW list \in ListsOf(d),
           NEW B \in SUBSET Objects, NEW O, Fit(c), Right(c, B, O),
           d \notin O => list = ListOf(d, B)
    PROVE  Fit(Seeded(c, d, list)) /\ Right(Seeded(c, d, list), B, O)
<1> DEFINE s == Seeded(c, d, list)
<1>1. s.mem[d] = list /\ (\A e \in Dirs \ {d} : s.mem[e] = c.mem[e]) /\ s.disk = c.disk
  BY SeededIs DEF Fit, ListsOf
<1>2. /\ Fit(s)
      /\ \A n \in Top : Sure(n, O) => TopRight(s.meta[<<n>>], n, B)
      /\ \A a \in Top, n \in Inner : Sure(a, O) => InnerRight(s.meta[<<a, n>>], a, n, B)
  BY SeedsRight
<1> HIDE DEF s
<1>3. \A e \in Dirs \ O : {s.mem[e], s.disk[e]} \subseteq {None, ListOf(e, B)}
  BY <1>1 DEF Right
<1>4. Fit(s) /\ Right(s, B, O)
  BY <1>2, <1>3 DEF Right
<1> QED
  BY <1>4 DEF s

\* A listing that fails after some pages.
LEMMA TaughtKeeps ==
    ASSUME NEW c, NEW d \in Dirs, NEW list \in ListsOf(d),
           NEW B \in SUBSET Objects, NEW O, Fit(c), Right(c, B, O),
           d \notin O => list.dirs \subseteq ListOf(d, B).dirs /\ list.files \subseteq ListOf(d, B).files
    PROVE  LET s == [c EXCEPT !.meta = Seeded(c, d, list).meta]
           IN  Fit(s) /\ Right(s, B, O)
<1> DEFINE t == Seeded(c, d, list)
           s == [c EXCEPT !.meta = t.meta]
<1>1. /\ Fit(t)
      /\ \A n \in Top : Sure(n, O) => TopRight(t.meta[<<n>>], n, B)
      /\ \A a \in Top, n \in Inner : Sure(a, O) => InnerRight(t.meta[<<a, n>>], a, n, B)
  BY SeedsRight
<1> HIDE DEF t
<1>2. s \in Caches /\ s.mem = c.mem /\ s.disk = c.disk /\ s.meta = t.meta
  BY <1>1 DEF Fit, Caches
<1> HIDE DEF s
<1>3. Fit(s) /\ Right(s, B, O)
  BY <1>1, <1>2 DEF Fit, Right
<1> QED
  BY <1>3 DEF s, t

LEMMA ListedKeeps ==
    ASSUME NEW c, NEW d \in Dirs, NEW O, bucket \in SUBSET Objects, Fit(c), Right(c, bucket, O)
    PROVE  /\ Fit(Listed(c, d)) /\ Right(Listed(c, d), bucket, O)
           /\ Listed(c, d).mem[d] \in ListsOf(d)
           /\ d \notin O => Listed(c, d).mem[d] = ListOf(d, bucket)
<1>1. /\ ListOf(d, bucket) \in ListsOf(d) /\ ListsOf(d) \subseteq Listing
      /\ {c.mem[d], c.disk[d]} \subseteq ListsOf(d) \cup {None}
      /\ d \notin O => {c.mem[d], c.disk[d]} \subseteq {None, ListOf(d, bucket)}
  BY ListOfIs DEF ListsOf, Fit, Right
<1>2. CASE c.mem[d] # None
  BY <1>1, <1>2 DEF Listed
<1>3. CASE c.mem[d] = None /\ OnDisk(c, d)
  <2>1. c.disk[d] \in ListsOf(d) /\ (d \notin O => c.disk[d] = ListOf(d, bucket))
    BY <1>1, <1>3 DEF OnDisk
  <2>2. Listed(c, d) = Seeded(c, d, c.disk[d])
    BY <1>3 DEF Listed
  <2>3. Listed(c, d).mem[d] = c.disk[d]
    BY <1>1, <2>1, <2>2, SeededIs DEF Fit
  <2> QED
    BY <2>1, <2>2, <2>3, SeededKeeps
<1>4. CASE c.mem[d] = None /\ ~OnDisk(c, d) /\ IsEmpty(ListOf(d, bucket))
  <2>1. Listed(c, d) = Seeded(c, d, ListOf(d, bucket))
    BY <1>4 DEF Listed
  <2>2. Listed(c, d).mem[d] = ListOf(d, bucket)
    BY <1>1, <2>1, SeededIs DEF Fit
  <2> QED
    BY <1>1, <2>1, <2>2, SeededKeeps
<1>5. CASE c.mem[d] = None /\ ~OnDisk(c, d) /\ ~IsEmpty(ListOf(d, bucket))
  <2> DEFINE s == [c EXCEPT !.disk[d] = ListOf(d, bucket)]
  <2>1. Listed(c, d) = Seeded(s, d, ListOf(d, bucket))
    BY <1>5 DEF Listed
  <2>2. /\ s \in Caches /\ s.mem = c.mem /\ s.meta = c.meta
        /\ s.disk[d] = ListOf(d, bucket) /\ \A e \in Dirs \ {d} : s.disk[e] = c.disk[e]
    BY <1>1 DEF Fit, Caches
  <2> HIDE DEF s
  <2>3. Fit(s) /\ Right(s, bucket, O)
    BY <1>1, <2>2 DEF Fit, Right
  <2>4. Listed(c, d).mem[d] = ListOf(d, bucket)
    BY <1>1, <2>1, <2>2, SeededIs
  <2> QED
    BY <1>1, <2>1, <2>3, <2>4, SeededKeeps
<1> QED
  BY <1>2, <1>3, <1>4, <1>5

-----------------------------------------------------------------------------
(* Lookups *)

\* Of the alike, the one in exact case, or the only other one.
LEMMA BestIs ==
    ASSUME NEW S \in SUBSET Nat, NEW n \in Nat, Alike(S, n) # {}
    PROVE  /\ Best(S, n) \in S /\ Fold(Best(S, n)) = Fold(n)
           /\ n \in S => Best(S, n) = n
<1>1. CASE n \in S
  BY <1>1 DEF Best
<1>2. CASE n \notin S
  <2>1. PICK a \in S : Fold(a) = Fold(n)
    BY DEF Alike
  <2>2. Alike(S, n) = {a}
    BY <1>2, <2>1, Pairs DEF Alike
  <2>3. Min({a}) = a
    BY <2>1 DEF Min
  <2> QED
    BY <1>2, <2>1, <2>2, <2>3 DEF Best
<1> QED
  BY <1>1, <1>2

LEMMA RootMatch ==
    ASSUME NEW n \in Top, NEW list \in ListsOf(Root)
    PROVE  /\ Match(Root, list, n) \in TopFound(n) \cup {Absent}
           /\ \A B \in SUBSET Objects : list = ListOf(Root, B) => TopRight(Match(Root, list, n), n, B)
<1> DEFINE e == Match(Root, list, n)
           bd == Best(list.dirs, n)
           bf == Best(list.files, n)
<1>1. list.dirs \subseteq Top /\ list.files \subseteq Top /\ Top \subseteq Nat
  BY Numbers DEF ListsOf, Listing
<1>2. CASE Alike(list.dirs, n) # {}
  <2>1. bd \in list.dirs /\ Fold(bd) = Fold(n) /\ (n \in list.dirs => bd = n)
    BY <1>1, <1>2, BestIs
  <2>2. e = [real |-> <<bd>>, dir |-> TRUE]
    BY <1>1, <1>2, <2>1, Tops DEF Match
  <2> HIDE DEF bd, e
  <2>3. e \in TopFound(n) /\ e \notin {Absent, None}
    <3>1. bd \in Top /\ <<bd>> \in Paths
      BY <1>1, <2>1, Tops
    <3>2. e \in Found /\ e.real = <<bd>>
      BY <2>2, <3>1 DEF Found
    <3> QED
      BY <2>1, <3>1, <3>2, NothingAssumption DEF TopFound
  <2>4. ASSUME NEW B \in SUBSET Objects, list = ListOf(Root, B) PROVE TopRight(e, n, B)
    <3>1. \A m \in Top : m \in list.dirs <=> IsDir(<<m>>, B)
      BY <2>4, ListHas
    <3>2. Leads(n, bd, B) /\ <<bd>>[1] = bd
      BY <1>1, <2>1, <3>1 DEF Leads
    <3>3. <<bd>> = <<n>> => IsDir(<<n>>, B)
      BY <3>2 DEF Leads
    <3>4. (\A m \in Top : Fold(m) = Fold(n) /\ IsDir(<<m>>, B) => m = n) => bd = n
      BY <3>2 DEF Leads
    <3> QED
      BY <2>2, <2>3, <3>2, <3>3, <3>4, Tops DEF TopRight, Present
  <2> QED
    BY <2>3, <2>4 DEF e
<1>3. CASE Alike(list.dirs, n) = {} /\ Alike(list.files, n) # {}
  <2>1. bf \in list.files /\ Fold(bf) = Fold(n) /\ (n \in list.files => bf = n)
    BY <1>1, <1>3, BestIs
  <2>2. e = [real |-> <<bf>>, dir |-> FALSE]
    BY <1>1, <1>3, <2>1, Tops DEF Match
  <2> HIDE DEF bf, e
  <2>3. e \in TopFound(n) /\ e \notin {Absent, None}
    <3>1. bf \in Top /\ <<bf>> \in Paths
      BY <1>1, <2>1, Tops
    <3>2. e \in Found /\ e.real = <<bf>>
      BY <2>2, <3>1 DEF Found
    <3> QED
      BY <2>1, <3>1, <3>2, NothingAssumption DEF TopFound
  <2>4. ASSUME NEW B \in SUBSET Objects, list = ListOf(Root, B) PROVE TopRight(e, n, B)
    <3>1. \A m \in Top : /\ m \in list.dirs <=> IsDir(<<m>>, B)
                         /\ m \in list.files <=> <<m>> \in B
      BY <2>4, ListHas
    <3>2. \A m \in Top : Fold(m) = Fold(n) => ~IsDir(<<m>>, B)
      BY <1>1, <1>3, <3>1 DEF Alike
    <3>3. <<bf>> = <<n>> => <<n>> \in B
      BY <2>1, <3>1
    <3>4. Present(<<n>>, B) => <<n>> \in B
      BY <3>2 DEF Present
    <3>5. <<n>> \in B => bf = n
      BY <2>1, <3>1
    <3> QED
      BY <2>2, <2>3, <3>3, <3>4, <3>5 DEF TopRight, Present
  <2> QED
    BY <2>3, <2>4 DEF e
<1>4. CASE Alike(list.dirs, n) = {} /\ Alike(list.files, n) = {}
  <2>1. e = Absent
    BY <1>4 DEF Match
  <2>2. ASSUME NEW B \in SUBSET Objects, list = ListOf(Root, B),
               NEW m \in Top, Fold(m) = Fold(n)
        PROVE  ~IsDir(<<m>>, B) /\ <<m>> \notin B
    <3>1. m \notin list.dirs /\ m \notin list.files
      BY <1>4, <2>2 DEF Alike
    <3> QED
      BY <2>2, <3>1, ListHas
  <2> QED
    BY <2>1, <2>2, NothingAssumption DEF TopRight
<1> QED
  BY <1>2, <1>3, <1>4

LEMMA InnerMatch ==
    ASSUME NEW d \in Top, NEW a \in Top, Fold(a) = Fold(d), NEW n \in Inner,
           NEW list \in ListsOf(<<a>>)
    PROVE  /\ Match(<<a>>, list, n) \in InnerFound(d, n) \cup {Absent}
           /\ \A B \in SUBSET Objects :
                 list = ListOf(<<a>>, B) /\ Leads(d, a, B) => InnerRight(Match(<<a>>, list, n), d, n, B)
<1> DEFINE e == Match(<<a>>, list, n)
           bf == Best(list.files, n)
<1>1. list.dirs = {} /\ list.files \subseteq Inner /\ Inner \subseteq Nat
  BY Numbers, Tops DEF ListsOf
<1>2. Alike(list.dirs, n) = {}
  BY <1>1 DEF Alike
<1>3. ASSUME NEW B \in SUBSET Objects, list = ListOf(<<a>>, B), Leads(d, a, B)
      PROVE  /\ \A m \in Inner : m \in list.files <=> <<a, m>> \in B
             /\ \A b \in Top : Leads(d, b, B) => b = a
             /\ \A m \in Inner : <<d, m>> \in B => d = a
  <2>1. \A m \in Inner : m \in list.files <=> <<a, m>> \in B
    BY <1>3, ListHas
  <2>2. \A b \in Top : Leads(d, b, B) => b = a
    BY <1>3, Pairs, Numbers DEF Leads
  <2>3. \A m \in Inner : <<d, m>> \in B => IsDir(<<d>>, B)
    BY Inners, Tops DEF IsDir
  <2> QED
    BY <1>3, <2>1, <2>2, <2>3 DEF Leads
<1>4. CASE Alike(list.files, n) # {}
  <2>1. bf \in list.files /\ Fold(bf) = Fold(n) /\ (n \in list.files => bf = n)
    BY <1>1, <1>4, BestIs
  <2>2. e = [real |-> <<a, bf>>, dir |-> FALSE]
    <3>1. e = [real |-> Append(<<a>>, bf), dir |-> FALSE]
      BY <1>2, <1>4 DEF Match
    <3>2. Append(<<a>>, bf) = <<a, bf>>
      BY Inners, Zenon
    <3> QED
      BY <3>1, <3>2, Zenon
  <2> HIDE DEF bf, e
  <2>3. <<a, bf>> \in Paths
    BY <1>1, <2>1, Inners
  <2>4. e \in InnerFound(d, n) /\ e \notin {Absent, None}
    <3>1. e \in Found /\ e.real = <<a, bf>> /\ ~e.dir
      BY <2>2, <2>3 DEF Found
    <3> QED
      BY <1>1, <2>1, <3>1, NothingAssumption DEF InnerFound
  <2>5. ASSUME NEW B \in SUBSET Objects, list = ListOf(<<a>>, B), Leads(d, a, B)
        PROVE  <<a, bf>> = <<d, n>> <=> <<d, n>> \in B
    <3>1. <<a, bf>> = <<d, n>> => <<d, n>> \in B
      BY <1>1, <1>3, <2>1, <2>5
    <3>2. ASSUME <<d, n>> \in B PROVE a = d /\ bf = n
      BY <1>3, <2>1, <2>5, <3>2
    <3> QED
      BY <3>1, <3>2
  <2> QED
    BY <2>2, <2>4, <2>5 DEF InnerRight, e
<1>5. CASE Alike(list.files, n) = {}
  <2>1. e = Absent
    BY <1>2, <1>5 DEF Match
  <2>2. \A m \in Inner : Fold(m) = Fold(n) => m \notin list.files
    BY <1>5 DEF Alike
  <2>3. ASSUME NEW B \in SUBSET Objects, list = ListOf(<<a>>, B), Leads(d, a, B)
        PROVE  InnerRight(e, d, n, B)
    BY <1>3, <2>1, <2>2, <2>3, NothingAssumption DEF InnerRight
  <2> QED
    BY <2>1, <2>3
<1> QED
  BY <1>4, <1>5

\* A file is found only where no directory is.
LEMMA DirsFirst ==
    ASSUME NEW d, NEW list, NEW n, ~Match(d, list, n).dir, Match(d, list, n) # Absent
    PROVE  Alike(list.dirs, n) = {}
BY DEF Match

\* What a lookup found is remembered.
LEMMA RememberTop ==
    ASSUME NEW c, NEW B, NEW O, NEW n \in Top, NEW e \in TopFound(n) \cup {Absent},
           Fit(c), Right(c, B, O), Sure(n, O) => TopRight(e, n, B)
    PROVE  Fit([c EXCEPT !.meta[<<n>>] = e]) /\ Right([c EXCEPT !.meta[<<n>>] = e], B, O)
<1> DEFINE r == [c EXCEPT !.meta[<<n>>] = e]
<1>1. <<n>> \in Paths /\ e \in Found \cup {Absent} /\ c \in Caches
  BY Tops DEF TopFound, Fit
<1>2. /\ r \in Caches /\ r.mem = c.mem /\ r.disk = c.disk
      /\ r.meta[<<n>>] = e /\ \A k \in Paths \ {<<n>>} : r.meta[k] = c.meta[k]
  BY <1>1 DEF Caches
<1> HIDE DEF r
<1>3. \A m \in Top : /\ m = n => r.meta[<<m>>] = e
                     /\ m # n => r.meta[<<m>>] = c.meta[<<m>>]
  BY <1>2, Tops
<1>4. \A d \in Top, m \in Inner : r.meta[<<d, m>>] = c.meta[<<d, m>>]
  BY <1>2, Inners
<1>5. Fit(r)
  BY <1>2, <1>3, <1>4 DEF Fit
<1>6. Right(r, B, O)
  BY <1>2, <1>3, <1>4 DEF Right
<1> QED
  BY <1>5, <1>6 DEF r

LEMMA RememberInner ==
    ASSUME NEW c, NEW B, NEW O, NEW d \in Top, NEW n \in Inner, NEW e \in InnerFound(d, n) \cup {Absent},
           Fit(c), Right(c, B, O), Sure(d, O) => InnerRight(e, d, n, B)
    PROVE  Fit([c EXCEPT !.meta[<<d, n>>] = e]) /\ Right([c EXCEPT !.meta[<<d, n>>] = e], B, O)
<1> DEFINE r == [c EXCEPT !.meta[<<d, n>>] = e]
<1>1. <<d, n>> \in Paths /\ e \in Found \cup {Absent} /\ c \in Caches
  BY Inners DEF InnerFound, Fit
<1>2. /\ r \in Caches /\ r.mem = c.mem /\ r.disk = c.disk
      /\ r.meta[<<d, n>>] = e /\ \A k \in Paths \ {<<d, n>>} : r.meta[k] = c.meta[k]
  BY <1>1 DEF Caches
<1> HIDE DEF r
<1>3. \A m \in Top : r.meta[<<m>>] = c.meta[<<m>>]
  BY <1>2, Tops, Inners
<1>4. \A a \in Top, m \in Inner : /\ a = d /\ m = n => r.meta[<<a, m>>] = e
                                  /\ ~(a = d /\ m = n) => r.meta[<<a, m>>] = c.meta[<<a, m>>]
  <2> TAKE a \in Top, m \in Inner
  <2>1. CASE a = d /\ m = n
    BY <1>2, <2>1
  <2>2. CASE ~(a = d /\ m = n)
    <3>1. <<a, m>> \in Paths /\ <<a, m>> # <<d, n>>
      BY <2>2, Inners
    <3> QED
      BY <1>2, <2>2, <3>1
  <2> QED
    BY <2>1, <2>2
<1>5. Fit(r)
  BY <1>2, <1>3, <1>4 DEF Fit
<1>6. Right(r, B, O)
  BY <1>2, <1>3, <1>4 DEF Right
<1> QED
  BY <1>5, <1>6 DEF r

LEMMA ResolveTop ==
    ASSUME NEW c, NEW O, NEW n \in Top, bucket \in SUBSET Objects, Fit(c), Right(c, bucket, O)
    PROVE  /\ Fit(Resolve(c, <<n>>).c) /\ Right(Resolve(c, <<n>>).c, bucket, O)
           /\ Resolve(c, <<n>>).is \in TopFound(n) \cup {Absent}
           /\ Sure(n, O) => TopRight(Resolve(c, <<n>>).is, n, bucket)
<1>1. CASE c.meta[<<n>>] # None
  <2>1. Resolve(c, <<n>>) = [c |-> c, is |-> c.meta[<<n>>]]
    BY <1>1, Tops DEF Resolve
  <2>2. c.meta[<<n>>] \in TopFound(n) \cup {Absent}
    BY <1>1 DEF Fit
  <2>3. Sure(n, O) => TopRight(c.meta[<<n>>], n, bucket)
    BY DEF Right
  <2> QED
    BY <2>1, <2>2, <2>3
<1>2. CASE c.meta[<<n>>] = None
  <2> DEFINE l == Listed(c, Root)
             e == Match(Root, l.mem[Root], n)
  <2>1. /\ Fit(l) /\ Right(l, bucket, O) /\ l.mem[Root] \in ListsOf(Root)
        /\ Root \notin O => l.mem[Root] = ListOf(Root, bucket)
    BY ListedKeeps, Tops
  <2>2. Resolve(c, <<n>>) = [c |-> [l EXCEPT !.meta[<<n>>] = e], is |-> e]
    BY <1>2, Tops DEF Resolve, Walk
  <2>3. e \in TopFound(n) \cup {Absent} /\ (Sure(n, O) => TopRight(e, n, bucket))
    BY <2>1, RootMatch DEF Sure
  <2> HIDE DEF l, e
  <2> QED
    BY <2>1, <2>2, <2>3, RememberTop
<1> QED
  BY <1>1, <1>2

LEMMA ResolveInner ==
    ASSUME NEW c, NEW O, NEW d \in Top, NEW n \in Inner,
           bucket \in SUBSET Objects, Fit(c), Right(c, bucket, O)
    PROVE  /\ Fit(Resolve(c, <<d, n>>).c) /\ Right(Resolve(c, <<d, n>>).c, bucket, O)
           /\ Resolve(c, <<d, n>>).is \in InnerFound(d, n) \cup {Absent}
           /\ Sure(d, O) => InnerRight(Resolve(c, <<d, n>>).is, d, n, bucket)
<1> DEFINE k == <<d, n>>
<1>0. k # Root /\ Len(k) # 1 /\ k[1] = d /\ k[2] = n
  <2>1. Len(k) = 2 /\ k[1] = d /\ k[2] = n /\ k # Root
    BY Inners, Zenon
  <2> QED
    BY <2>1
<1>1. CASE c.meta[k] # None
  <2>1. Resolve(c, k) = [c |-> c, is |-> c.meta[k]]
    BY <1>0, <1>1 DEF Resolve
  <2>2. c.meta[k] \in InnerFound(d, n) \cup {Absent}
    BY <1>1 DEF Fit
  <2>3. Sure(d, O) => InnerRight(c.meta[k], d, n, bucket)
    BY DEF Right
  <2> QED
    BY <2>1, <2>2, <2>3
<1>2. CASE c.meta[k] = None
  <2> DEFINE l  == Listed(c, Root)
             f  == Match(Root, l.mem[Root], d)
             l2 == Listed(l, f.real)
             e  == Match(f.real, l2.mem[f.real], n)
  <2>1. /\ Fit(l) /\ Right(l, bucket, O) /\ l.mem[Root] \in ListsOf(Root)
        /\ Root \notin O => l.mem[Root] = ListOf(Root, bucket)
    BY ListedKeeps, Tops
  <2>2. f \in TopFound(d) \cup {Absent} /\ (Sure(d, O) => TopRight(f, d, bucket))
    BY <2>1, RootMatch DEF Sure
  <2>3. Walk(c, k) = IF f = Absent THEN [c |-> l, is |-> f]
                     ELSE IF f.dir THEN [c |-> l2, is |-> e] ELSE [c |-> l, is |-> Absent]
    BY <1>0 DEF Walk
  <2>4. Resolve(c, k) = [c |-> [Walk(c, k).c EXCEPT !.meta[k] = Walk(c, k).is], is |-> Walk(c, k).is]
    BY <1>0, <1>2 DEF Resolve
  <2>5. CASE f = Absent \/ ~f.dir
    <3>1. Walk(c, k) = [c |-> l, is |-> Absent]
      BY <2>3, <2>5
    <3>2. ASSUME Sure(d, O) PROVE InnerRight(Absent, d, n, bucket)
      <4>1. ASSUME NEW a \in Top, Leads(d, a, bucket) PROVE FALSE
        <5>1. CASE f = Absent
          BY <2>2, <3>2, <4>1, <5>1 DEF TopRight, Leads
        <5>2. CASE f # Absent /\ ~f.dir
          <6>1. Alike(l.mem[Root].dirs, d) = {}
            BY <5>2, DirsFirst
          <6>2. a \in ListOf(Root, bucket).dirs /\ Root \notin O
            BY <3>2, <4>1, ListHas DEF Leads, Sure
          <6> QED
            BY <2>1, <4>1, <6>1, <6>2 DEF Alike, Leads
        <5> QED
          BY <2>5, <5>1, <5>2
      <4> QED
        BY <4>1 DEF InnerRight
    <3> QED
      BY <2>1, <2>4, <3>1, <3>2, RememberInner
  <2>6. CASE f # Absent /\ f.dir
    <3>1. PICK a \in Top : f.real = <<a>> /\ Fold(a) = Fold(d)
      BY <2>2, <2>6 DEF TopFound
    <3>2. /\ Fit(l2) /\ Right(l2, bucket, O) /\ l2.mem[<<a>>] \in ListsOf(<<a>>)
          /\ <<a>> \notin O => l2.mem[<<a>>] = ListOf(<<a>>, bucket)
      BY <2>1, <3>1, ListedKeeps, Tops
    <3>3. e \in InnerFound(d, n) \cup {Absent}
      BY <3>1, <3>2, InnerMatch
    <3>4. ASSUME Sure(d, O) PROVE InnerRight(e, d, n, bucket)
      <4>1. Leads(d, a, bucket)
        <5>1. f \notin {Absent, None} /\ f.real[1] = a
          BY <2>2, <2>6, <3>1, NothingAssumption DEF TopFound
        <5> QED
          BY <2>2, <2>6, <3>4, <5>1 DEF TopRight
      <4>2. <<a>> \notin O
        BY <3>1, <3>4 DEF Sure
      <4> QED
        BY <3>1, <3>2, <4>1, <4>2, InnerMatch
    <3>5. Walk(c, k) = [c |-> l2, is |-> e]
      BY <2>3, <2>6
    <3> HIDE DEF l2, e
    <3> QED
      BY <2>4, <3>2, <3>3, <3>4, <3>5, RememberInner
  <2> QED
    BY <2>5, <2>6
<1> QED
  BY <1>1, <1>2

-----------------------------------------------------------------------------
(* Objects change, and something is dropped *)

LEMMA DirIs ==
    ASSUME NEW B \in SUBSET Objects, NEW a \in Top
    PROVE  IsDir(<<a>>, B) <=> \E m \in Inner \cup {Keep} : <<a, m>> \in B
<1>1. ASSUME NEW o \in B, Len(o) = 2, o[1] = a PROVE \E m \in Inner \cup {Keep} : <<a, m>> \in B
  BY <1>1, PathCases, Tops, Inners
<1>2. ASSUME NEW m \in Inner \cup {Keep}, <<a, m>> \in B
      PROVE  \E o \in B : Len(o) = 2 /\ o[1] = a
  BY <1>2, Inners
<1> QED
  BY <1>1, <1>2, Tops DEF IsDir

LEMMA SameList ==
    ASSUME NEW B \in SUBSET Objects, NEW C \in SUBSET Objects
    PROVE  /\ (\A n \in Top : (IsDir(<<n>>, B) <=> IsDir(<<n>>, C)) /\ (<<n>> \in B <=> <<n>> \in C))
              => ListOf(Root, B) = ListOf(Root, C)
           /\ \A a \in Top : (\A n \in Inner : <<a, n>> \in B <=> <<a, n>> \in C)
              => ListOf(<<a>>, B) = ListOf(<<a>>, C)
<1>1. \A d \in Dirs : /\ ListOf(d, B) = [dirs |-> ListOf(d, B).dirs, files |-> ListOf(d, B).files]
                      /\ ListOf(d, C) = [dirs |-> ListOf(d, C).dirs, files |-> ListOf(d, C).files]
  BY DEF ListOf
<1>2. ASSUME \A n \in Top : (IsDir(<<n>>, B) <=> IsDir(<<n>>, C)) /\ (<<n>> \in B <=> <<n>> \in C)
      PROVE  ListOf(Root, B) = ListOf(Root, C)
  <2>1. {n \in Top : IsDir(<<n>>, B)} = {n \in Top : IsDir(<<n>>, C)}
    BY <1>2
  <2>2. {n \in Top : <<n>> \in B} = {n \in Top : <<n>> \in C}
    BY <1>2
  <2>3. ListOf(Root, B).dirs = ListOf(Root, C).dirs /\ ListOf(Root, B).files = ListOf(Root, C).files
    <3>1. /\ ListOf(Root, B).dirs = {n \in Top : IsDir(<<n>>, B)}
          /\ ListOf(Root, B).files = {n \in Top : <<n>> \in B}
          /\ ListOf(Root, C).dirs = {n \in Top : IsDir(<<n>>, C)}
          /\ ListOf(Root, C).files = {n \in Top : <<n>> \in C}
      BY ListOfIs
    <3> QED
      BY <2>1, <2>2, <3>1, Zenon
  <2> QED
    BY <1>1, <2>3, Tops DEF Dirs
<1>3. ASSUME NEW a \in Top, \A n \in Inner : <<a, n>> \in B <=> <<a, n>> \in C
      PROVE  ListOf(<<a>>, B) = ListOf(<<a>>, C)
  <2>1. ListOf(<<a>>, B).dirs = {} /\ ListOf(<<a>>, C).dirs = {}
    BY ListOfIs
  <2>2. ListOf(<<a>>, B).files \subseteq Inner /\ ListOf(<<a>>, C).files \subseteq Inner
    BY ListOfIs, Tops DEF ListsOf
  <2>3. \A n \in Inner : n \in ListOf(<<a>>, B).files <=> n \in ListOf(<<a>>, C).files
    BY <1>3, ListHas
  <2>4. ListOf(<<a>>, B).files = ListOf(<<a>>, C).files
    BY <2>2, <2>3
  <2> QED
    BY <1>1, <2>1, <2>4, Tops
<1> QED
  BY <1>2, <1>3

\* s is c after some of its entries were dropped.
Less(s, c) ==
    /\ s \in Caches
    /\ \A d \in Dirs : s.mem[d] \in {None, c.mem[d]} /\ s.disk[d] \in {None, c.disk[d]}
    /\ \A k \in Paths : s.meta[k] \in {None, c.meta[k]}

LEMMA LessFits == ASSUME NEW c, NEW s, Fit(c), Less(s, c) PROVE Fit(s)
<1>1. \A n \in Top : <<n>> \in Paths
  BY Tops
<1>2. \A d \in Top, n \in Inner : <<d, n>> \in Paths
  BY Inners
<1> QED
  BY <1>1, <1>2 DEF Fit, Less

\* What is left must still be right.
LEMMA ChangeKeeps ==
    ASSUME NEW c, NEW s, NEW B, NEW C, NEW O, NEW P, Right(c, B, O), Less(s, c), O \subseteq P,
           \A d \in Dirs \ P : s.mem[d] # None \/ s.disk[d] # None => ListOf(d, C) = ListOf(d, B),
           \A n \in Top : Sure(n, P) /\ s.meta[<<n>>] # None /\ TopRight(s.meta[<<n>>], n, B)
                          => TopRight(s.meta[<<n>>], n, C),
           \A d \in Top, n \in Inner :
                Sure(d, P) /\ s.meta[<<d, n>>] # None /\ InnerRight(s.meta[<<d, n>>], d, n, B)
                => InnerRight(s.meta[<<d, n>>], d, n, C)
    PROVE  Right(s, C, P)
<1>1. \A d \in Dirs \ P : {s.mem[d], s.disk[d]} \subseteq {None, ListOf(d, C)}
  BY DEF Right, Less
<1>2. \A n \in Top : <<n>> \in Paths /\ (Sure(n, P) => Sure(n, O))
  BY Tops DEF Sure
<1>3. \A n \in Top : TopRight(None, n, C) /\ \A d \in Top, m \in Inner : InnerRight(None, d, m, C)
  BY NothingAssumption DEF TopRight, InnerRight
<1>4. \A n \in Top : Sure(n, P) => TopRight(s.meta[<<n>>], n, C)
  BY <1>2, <1>3 DEF Right, Less
<1>5. \A d \in Top, n \in Inner : <<d, n>> \in Paths
  BY Inners
<1>6. \A d \in Top, n \in Inner : Sure(d, P) => InnerRight(s.meta[<<d, n>>], d, n, C)
  BY <1>2, <1>3, <1>5 DEF Right, Less
<1> QED
  BY <1>1, <1>4, <1>6 DEF Right

\* Nothing changes but that something is dropped and more is doubted.
LEMMA LessKeeps ==
    ASSUME NEW c, NEW s, NEW B, NEW O, NEW P, Right(c, B, O), Less(s, c), O \subseteq P
    PROVE  Right(s, B, P)
BY ChangeKeeps

LEMMA DropIs ==
    ASSUME NEW c \in Caches, NEW k \in Paths
    PROVE  /\ Less(Drop(c, k), c)
           /\ Drop(c, k).mem[Parent(k)] = None /\ Drop(c, k).disk[Parent(k)] = None
           /\ Drop(c, k).meta[k] = None
           /\ \A p \in Paths \cap Under(Parent(k)) : Drop(c, k).meta[p] # Absent
<1> DEFINE m == [p \in Paths |-> IF c.meta[p] = Absent /\ p \in Under(Parent(k)) THEN None ELSE c.meta[p]]
           s == DropParent(c, k)
<1>1. Parent(k) \in Dirs
  BY Parents
<1>2. m \in [Paths -> Found \cup {Absent, None}]
  BY DEF Caches
<1>3. /\ \A p \in Paths : m[p] \in {None, c.meta[p]}
      /\ \A p \in Paths \cap Under(Parent(k)) : m[p] # Absent
  BY NothingAssumption
<1> HIDE DEF m
<1>4. s = [mem |-> [c.mem EXCEPT ![Parent(k)] = None], disk |-> [c.disk EXCEPT ![Parent(k)] = None],
           meta |-> m]
  <2>1. s = [c EXCEPT !.mem[Parent(k)] = None, !.disk[Parent(k)] = None, !.meta = m]
    BY DEF DropParent, m, s
  <2>2. c = [mem |-> c.mem, disk |-> c.disk, meta |-> c.meta]
    BY DEF Caches
  <2> QED
    BY <2>1, <2>2
<1> HIDE DEF s
<1>5. Drop(c, k) = [mem |-> s.mem, disk |-> s.disk, meta |-> [m EXCEPT ![k] = None]]
  BY <1>4 DEF Drop, s
<1>6. Drop(c, k) \in Caches
  BY <1>1, <1>2, <1>4, <1>5 DEF Caches
<1>7. /\ Drop(c, k).mem[Parent(k)] = None /\ Drop(c, k).disk[Parent(k)] = None
      /\ \A d \in Dirs : /\ Drop(c, k).mem[d] \in {None, c.mem[d]}
                         /\ Drop(c, k).disk[d] \in {None, c.disk[d]}
  BY <1>1, <1>4, <1>5 DEF Caches
<1>8. /\ Drop(c, k).meta[k] = None
      /\ \A p \in Paths : Drop(c, k).meta[p] \in {None, m[p]}
  BY <1>2, <1>5
<1> QED
  BY <1>3, <1>6, <1>7, <1>8, NothingAssumption DEF Less

LEMMA DropTop ==
    ASSUME NEW c \in Caches, NEW n \in Top
    PROVE  /\ Less(Drop(c, <<n>>), c)
           /\ Drop(c, <<n>>).mem[Root] = None /\ Drop(c, <<n>>).disk[Root] = None
           /\ Drop(c, <<n>>).meta[<<n>>] = None
           /\ \A k \in Paths : Drop(c, <<n>>).meta[k] # Absent
<1>1. <<n>> \in Paths /\ Parent(<<n>>) = Root /\ Paths \subseteq Under(Root)
  BY Tops DEF Under, Objects
<1> QED
  BY <1>1, DropIs

LEMMA DropInner ==
    ASSUME NEW c \in Caches, NEW d \in Top, NEW n \in Inner
    PROVE  /\ Less(Drop(c, <<d, n>>), c)
           /\ Drop(c, <<d, n>>).mem[<<d>>] = None /\ Drop(c, <<d, n>>).disk[<<d>>] = None
           /\ Drop(c, <<d, n>>).meta[<<d, n>>] = None
           /\ \A m \in Inner : Drop(c, <<d, n>>).meta[<<d, m>>] # Absent
<1>1. <<d, n>> \in Paths /\ Parent(<<d, n>>) = <<d>>
  BY Inners
<1>2. \A m \in Inner : <<d, m>> \in Paths \cap Under(<<d>>)
  BY Inners, Tops DEF Under
<1> QED
  BY <1>1, <1>2, DropIs

LEMMA LessTwice == ASSUME NEW r, NEW s, NEW c, Less(r, s), Less(s, c) PROVE Less(r, c)
BY DEF Less

-----------------------------------------------------------------------------
(* What each call leaves *)

Scans == [pc : {"none", "on", "done"}, dir : Dirs, at : Names \cup {None},
          seen : SUBSET Names, again : BOOLEAN, must : SUBSET Names]

Typed ==
    /\ bucket \in SUBSET Objects /\ pending \in SUBSET Paths /\ scan \in Scans
    /\ changes \in 0..MaxChanges /\ odd \in SUBSET Dirs

CacheInv == Fit(cache) /\ Right(cache, bucket, odd)

\* The same, after a step that leaves objects O, caches c and doubts P.
LEMMA ChangeTyped ==
    ASSUME Typed, NEW B \in SUBSET Objects, NEW W \in SUBSET Dirs, Change(B, W), pending' \in SUBSET Paths
    PROVE  Typed' /\ bucket' = B /\ odd' = odd \cup W
<1>1. scan' = [scan EXCEPT !.must = {n \in @ : Lone(scan.dir, n, B)}]
  BY DEF Change
<1>2. scan' \in Scans
  <2>1. {n \in scan.must : Lone(scan.dir, n, B)} \in SUBSET Names
    BY DEF Typed, Scans
  <2> QED
    BY <1>1, <2>1 DEF Typed, Scans
<1>3. changes' \in 0..MaxChanges
  BY NameSpaceAssumption DEF Typed, Change
<1> QED
  BY <1>2, <1>3 DEF Typed, Change

LEMMA ResolveKeeps ==
    ASSUME Typed, NEW c, Fit(c), Right(c, bucket, odd), NEW k \in Paths \cup Dirs
    PROVE  Fit(Resolve(c, k).c) /\ Right(Resolve(c, k).c, bucket, odd)
<1>1. ASSUME NEW n \in Top, k = <<n>>
      PROVE  Fit(Resolve(c, k).c) /\ Right(Resolve(c, k).c, bucket, odd)
  BY <1>1, ResolveTop DEF Typed
<1>2. ASSUME NEW d \in Top, NEW n \in Inner, k = <<d, n>>
      PROVE  Fit(Resolve(c, k).c) /\ Right(Resolve(c, k).c, bucket, odd)
  BY <1>2, ResolveInner DEF Typed
<1>3. ASSUME k = Root
      PROVE  Fit(Resolve(c, k).c) /\ Right(Resolve(c, k).c, bucket, odd)
  BY <1>3 DEF Resolve
<1> QED
  BY <1>1, <1>2, <1>3, PathCases

\* A lookup finds a directory or a file of the depth of its path.
LEMMA FoundCases ==
    ASSUME Typed, NEW c, Fit(c), Right(c, bucket, odd), NEW k \in Paths, Resolve(c, k).is # Absent
    PROVE  /\ Resolve(c, k).is.dir => \E a \in Top : Resolve(c, k).is.real = <<a>>
           /\ \/ \E n \in Top, a \in Top : k = <<n>> /\ Resolve(c, k).is.real = <<a>>
              \/ \E d \in Top, n \in Inner, a \in Top, m \in Inner :
                    k = <<d, n>> /\ Resolve(c, k).is.real = <<a, m>>
<1>1. ASSUME NEW n \in Top, k = <<n>>
      PROVE  \E a \in Top : Resolve(c, k).is.real = <<a>>
  <2>1. Resolve(c, <<n>>).is \in TopFound(n)
    BY <1>1, ResolveTop DEF Typed
  <2> QED
    BY <1>1, <2>1 DEF TopFound
<1>2. ASSUME NEW d \in Top, NEW n \in Inner, k = <<d, n>>
      PROVE  ~Resolve(c, k).is.dir /\ \E a \in Top, m \in Inner : Resolve(c, k).is.real = <<a, m>>
  <2>1. Resolve(c, <<d, n>>).is \in InnerFound(d, n)
    BY <1>2, ResolveInner DEF Typed
  <2> QED
    BY <1>2, <2>1 DEF InnerFound
<1> QED
  BY <1>1, <1>2, PathCases

LEMMA LookupKeeps ==
    ASSUME Typed, CacheInv, NEW k \in Paths, Lookup(k)
    PROVE  Typed' /\ CacheInv'
<1>1. cache' = Resolve(cache, k).c /\ UNCHANGED <<bucket, changes, scan, odd, pending>>
  BY DEF Lookup, Same
<1>2. Typed'
  BY <1>1 DEF Typed
<1> QED
  BY <1>1, <1>2, ResolveKeeps DEF CacheInv

LEMMA RefusedKeeps ==
    ASSUME Typed, NEW c, Fit(c), Right(c, bucket, odd), NEW k, NEW x \in Refused(c, k)
    PROVE  Fit(x) /\ Right(x, bucket, odd)
<1>1. x = c \/ x = Listed(c, Root)
  BY DEF Refused
<1>2. Fit(Listed(c, Root)) /\ Right(Listed(c, Root), bucket, odd)
  BY ListedKeeps DEF Dirs, Typed
<1> QED
  BY <1>1, <1>2

LEMMA LookupFailsKeeps ==
    ASSUME Typed, CacheInv, NEW k \in Paths, LookupFails(k)
    PROVE  Typed' /\ CacheInv'
<1>1. cache' \in Refused(cache, k) /\ UNCHANGED <<bucket, changes, scan, odd, pending>>
  BY DEF LookupFails, Same
<1>2. Fit(cache') /\ Right(cache', bucket, odd)
  BY <1>1, RefusedKeeps DEF CacheInv
<1> QED
  BY <1>1, <1>2 DEF Typed, CacheInv

\* What a create makes whose lookups fail, and where.
LEMMA CreateBlindIs ==
    ASSUME Typed, CacheInv, NEW k \in Paths, CreateBlind(k)
    PROVE  \E key, c :
              /\ key \in Paths /\ Fit(c) /\ Right(c, bucket, odd) /\ cache' = Drop(c, key)
              /\ \/ pending' = pending \cup {key} /\ UNCHANGED <<bucket, changes, scan, odd>>
                 \/ /\ \E n \in Top : key = <<n>>
                    /\ Change(bucket \cup {Append(key, Keep)}, {}) /\ UNCHANGED pending
<1> DEFINE lost(r, p) == p \in Unheard(r.c, Parent(k))
           key(r, p)  == IF lost(r, p) THEN k ELSE Anchored(p.is.real, k)
<1>1. PICK r \in {Resolve(cache, k)} \cup Unheard(cache, k) :
        \E p \in {Resolve(r.c, Parent(k))} \cup Unheard(r.c, Parent(k)) :
           /\ lost(r, p) \/ (p.is # Absent /\ p.is.dir)
           /\ cache' = Drop(p.c, key(r, p))
           /\ \/ pending' = pending \cup {key(r, p)} /\ UNCHANGED <<bucket, changes, scan, odd>>
              \/ /\ Len(k) = 1 /\ Change(bucket \cup {Append(key(r, p), Keep)}, {})
                 /\ UNCHANGED pending
  BY DEF CreateBlind, Same
<1>2. PICK p \in {Resolve(r.c, Parent(k))} \cup Unheard(r.c, Parent(k)) :
           /\ lost(r, p) \/ (p.is # Absent /\ p.is.dir)
           /\ cache' = Drop(p.c, key(r, p))
           /\ \/ pending' = pending \cup {key(r, p)} /\ UNCHANGED <<bucket, changes, scan, odd>>
              \/ /\ Len(k) = 1 /\ Change(bucket \cup {Append(key(r, p), Keep)}, {})
                 /\ UNCHANGED pending
  BY <1>1
<1>3. Fit(r.c) /\ Right(r.c, bucket, odd)
  <2>1. CASE r = Resolve(cache, k)
    BY <2>1, ResolveKeeps DEF CacheInv
  <2>2. CASE r \in Unheard(cache, k)
    BY <2>2, RefusedKeeps DEF Unheard, CacheInv
  <2> QED
    BY <1>1, <2>1, <2>2
<1>4. Fit(p.c) /\ Right(p.c, bucket, odd)
  <2>1. CASE p = Resolve(r.c, Parent(k))
    BY <1>3, <2>1, Parents, ResolveKeeps
  <2>2. CASE p \in Unheard(r.c, Parent(k))
    BY <1>3, <2>2, RefusedKeeps DEF Unheard
  <2> QED
    BY <1>2, <2>1, <2>2
<1>5. ASSUME NEW n \in Top, k = <<n>> PROVE key(r, p) = <<n>>
  <2>1. CASE lost(r, p)
    BY <1>5, <2>1
  <2>2. CASE ~lost(r, p)
    <3>1. p.is.real = Root
      BY <1>2, <1>5, <2>2, Tops DEF Resolve
    <3>2. Anchored(p.is.real, k) = <<n>>
      BY <1>5, <3>1, Tops DEF Anchored
    <3> QED
      BY <2>2, <3>2
  <2> QED
    BY <2>1, <2>2
<1>6. ASSUME NEW d \in Top, NEW n \in Inner, k = <<d, n>> PROVE key(r, p) \in Paths
  <2>1. Parent(k) = <<d>> /\ Name(k) = n
    BY <1>6, Inners
  <2>2. CASE ~lost(r, p)
    <3>1. p.is \in TopFound(d)
      BY <1>2, <1>3, <2>1, <2>2, ResolveTop DEF Typed
    <3>2. PICK a \in Top : p.is.real = <<a>>
      BY <3>1 DEF TopFound
    <3>3. Anchored(p.is.real, k) = Append(<<a>>, n)
      BY <2>1, <3>2, Zenon DEF Anchored
    <3>4. Append(<<a>>, n) = <<a, n>> /\ <<a, n>> \in Paths
      BY Inners, Zenon
    <3> QED
      BY <2>2, <3>3, <3>4
  <2> QED
    BY <2>2
<1>7. key(r, p) \in Paths
  BY <1>5, <1>6, Tops, PathCases
<1>8. Len(k) = 1 => \E n \in Top : key(r, p) = <<n>>
  BY <1>5, PathCases, Inners
<1> HIDE DEF key, lost
<1> QED
  BY <1>2, <1>4, <1>7, <1>8

LEMMA MissedIs ==
    ASSUME NEW c, NEW f \in Paths
    PROVE  /\ Missed(c, f) \in SUBSET Dirs
           /\ \A d \in Top, n \in Inner, e \in Top, m \in Inner :
                 /\ f = <<d, n>> /\ <<e, m>> # f /\ c.meta[<<e, m>>] = Absent
                 /\ Fold(e) = Fold(d) /\ Fold(m) = Fold(n)
                 => <<d>> \in Missed(c, f)
<1>1. Missed(c, f) \in SUBSET Dirs
  BY Parents DEF Missed
<1>2. ASSUME NEW d \in Top, NEW n \in Inner, NEW e \in Top, NEW m \in Inner,
             f = <<d, n>>, <<e, m>> # f, c.meta[<<e, m>>] = Absent, Fold(e) = Fold(d), Fold(m) = Fold(n)
      PROVE  <<d>> \in Missed(c, f)
  <2>1. /\ <<e, m>> \in Files \ {f} /\ Len(f) = 2 /\ f[1] = d /\ f[2] = n
        /\ <<e, m>>[1] = e /\ <<e, m>>[2] = m
    BY <1>2, Inners
  <2>2. Parent(f) = <<d>>
    BY <1>2, Inners
  <2>3. \E k \in Files \ {f} : /\ Len(f) = 2 /\ c.meta[k] = Absent
                               /\ Fold(k[1]) = Fold(f[1]) /\ Fold(k[2]) = Fold(f[2])
    BY <1>2, <2>1
  <2> QED
    BY <2>2, <2>3 DEF Missed
<1> QED
  BY <1>1, <1>2

\* A new file: which it is, and that no other is like it.
LEMMA CreateFileIs ==
    ASSUME Typed, CacheInv, NEW k \in Paths, CreateFile(k)
    PROVE  \E key, c :
              /\ key \in Paths /\ Fit(c) /\ Right(c, bucket, odd)
              /\ pending' = pending \cup {key} /\ cache' = Drop(c, key)
              /\ odd' = odd \cup Missed(cache', key) /\ UNCHANGED <<bucket, changes, scan>>
              /\ \/ \E n \in Top : /\ key = <<n>>
                                   /\ Sure(n, odd) => TopRight(Absent, n, bucket)
                 \/ \E d \in Top, a \in Top, n \in Inner :
                       /\ key = <<a, n>> /\ Fold(a) = Fold(d)
                       /\ Sure(d, odd) => Leads(d, a, bucket) /\ InnerRight(Absent, d, n, bucket)
<1> DEFINE p   == Resolve(cache, Parent(k))
           r   == Resolve(p.c, k)
           key == Anchored(p.is.real, k)
<1>1. /\ p.is # Absent /\ p.is.dir /\ r.is = Absent
      /\ pending' = pending \cup {key} /\ cache' = Drop(r.c, key)
      /\ odd' = odd \cup Missed(cache', key) /\ UNCHANGED <<bucket, changes, scan>>
  BY DEF CreateFile
<1>2. Fit(p.c) /\ Right(p.c, bucket, odd)
  BY Parents, ResolveKeeps DEF CacheInv
<1>3. Fit(r.c) /\ Right(r.c, bucket, odd)
  BY <1>2, ResolveKeeps
<1>4. ASSUME NEW n \in Top, k = <<n>>
      PROVE  /\ key = <<n>>
             /\ Sure(n, odd) => TopRight(Absent, n, bucket)
  <2>1. p.is.real = Root
    BY <1>4, Tops DEF Resolve
  <2>2. key = <<n>>
    BY <1>4, <2>1, Tops DEF Anchored
  <2>3. Sure(n, odd) => TopRight(r.is, n, bucket)
    BY <1>2, <1>4, ResolveTop DEF Typed
  <2> QED
    BY <1>1, <2>2, <2>3
<1>5. ASSUME NEW d \in Top, NEW n \in Inner, k = <<d, n>>
      PROVE  \E a \in Top :
                /\ key = <<a, n>> /\ Fold(a) = Fold(d)
                /\ Sure(d, odd) => Leads(d, a, bucket) /\ InnerRight(Absent, d, n, bucket)
  <2>1. Parent(k) = <<d>> /\ Name(k) = n
    BY <1>5, Inners
  <2>2. /\ p.is \in TopFound(d) \cup {Absent}
        /\ Sure(d, odd) => TopRight(p.is, d, bucket)
    BY <2>1, ResolveTop DEF CacheInv, Typed
  <2>3. PICK a \in Top : p.is.real = <<a>> /\ Fold(a) = Fold(d)
    BY <1>1, <2>2 DEF TopFound
  <2>4. key = <<a, n>>
    <3>1. key = Append(<<a>>, n)
      BY <2>1, <2>3, Zenon DEF Anchored
    <3> QED
      BY <3>1, Inners, Zenon
  <2>5. p.is \notin {Absent, None} /\ <<a>>[1] = a
    BY <1>1, <2>2, NothingAssumption DEF TopFound
  <2>6. Sure(d, odd) => Leads(d, a, bucket)
    BY <1>1, <2>2, <2>3, <2>5 DEF TopRight
  <2>7. Sure(d, odd) => InnerRight(r.is, d, n, bucket)
    BY <1>2, <1>5, ResolveInner DEF Typed
  <2> QED
    BY <1>1, <2>3, <2>4, <2>6, <2>7
<1> HIDE DEF p, r, key
<1>6. key \in Paths
  <2>1. \A a \in Top, n \in Inner : <<a, n>> \in Paths
    BY Inners
  <2>2. \A n \in Top : <<n>> \in Paths
    BY Tops
  <2> QED
    BY <1>4, <1>5, <2>1, <2>2, PathCases
<1> QED
  BY <1>1, <1>3, <1>4, <1>5, <1>6, PathCases

LEMMA CreateFileKeeps ==
    ASSUME Typed, CacheInv, NEW k \in Paths, CreateFile(k)
    PROVE  Typed' /\ CacheInv'
<1>1. PICK key, c :
              /\ key \in Paths
              /\ Fit(c) /\ Right(c, bucket, odd)
              /\ pending' = pending \cup {key} /\ cache' = Drop(c, key)
              /\ odd' = odd \cup Missed(cache', key) /\ UNCHANGED <<bucket, changes, scan>>
  BY CreateFileIs
<1>2. Typed'
  BY <1>1, MissedIs DEF Typed
<1>3. Less(cache', c)
  BY <1>1, DropIs DEF Fit
<1> QED
  BY <1>1, <1>2, <1>3, LessFits, LessKeeps DEF CacheInv

\* A new directory, whether or not there is another like it.
LEMMA DirMade ==
    ASSUME Typed, NEW c, Fit(c), Right(c, bucket, odd), NEW n \in Top,
           Change(bucket \cup {Append(<<n>>, Keep)}, {}), cache' = Drop(c, <<n>>), UNCHANGED pending
    PROVE  Typed' /\ CacheInv'
<1> DEFINE B == bucket \cup {Append(<<n>>, Keep)}
<1>1. Change(B, {}) /\ UNCHANGED pending
  OBVIOUS
<1>3. B = bucket \cup {<<n, Keep>>}
  BY Inners, Zenon
<1>5. /\ Less(cache', c) /\ cache'.mem[Root] = None /\ cache'.disk[Root] = None
      /\ cache'.meta[<<n>>] = None /\ \A p \in Paths : cache'.meta[p] # Absent
  BY DropTop DEF Fit
<1> HIDE DEF B
<1>6. B \in SUBSET Objects /\ bucket \in SUBSET Objects
  BY <1>3, Inners DEF Typed
<1>7. Typed' /\ bucket' = B /\ odd' = odd
  <2>1. {} \in SUBSET Dirs /\ pending' \in SUBSET Paths
    BY <1>1 DEF Typed
  <2>2. Typed' /\ bucket' = B /\ odd' = odd \cup {}
    BY <1>1, <1>6, <2>1, ChangeTyped, Zenon
  <2> QED
    BY <2>2
<1>8. /\ \A m \in Top : <<m>> \in B <=> <<m>> \in bucket
      /\ \A d \in Top, m \in Inner : <<d, m>> \in B <=> <<d, m>> \in bucket
      /\ \A m \in Top \ {n} : IsDir(<<m>>, B) <=> IsDir(<<m>>, bucket)
  <2>1. \A m \in Top : <<m>> \in B <=> <<m>> \in bucket
    BY <1>3, Inners
  <2>2. \A d \in Top, m \in Inner \cup {Keep} : d # n \/ m # Keep => (<<d, m>> \in B <=> <<d, m>> \in bucket)
    BY <1>3, Inners
  <2>3. \A m \in Top \ {n} : IsDir(<<m>>, B) <=> IsDir(<<m>>, bucket)
    BY <1>6, <2>2, DirIs
  <2> QED
    BY <2>1, <2>2, <2>3, Numbers DEF Names
<1>9. ASSUME NEW d \in Dirs \ odd, cache'.mem[d] # None \/ cache'.disk[d] # None
      PROVE  ListOf(d, B) = ListOf(d, bucket)
  <2>1. d # Root
    BY <1>5, <1>9
  <2>2. PICK a \in Top : d = <<a>>
    BY <2>1, PathCases
  <2>3. \A m \in Inner : <<a, m>> \in B <=> <<a, m>> \in bucket
    BY <1>8
  <2>4. bucket \in SUBSET Objects
    BY DEF Typed
  <2> HIDE DEF B
  <2> QED
    BY <1>6, <2>2, <2>3, <2>4, SameList
<1>10. ASSUME NEW m \in Top, Sure(m, odd), cache'.meta[<<m>>] # None,
              TopRight(cache'.meta[<<m>>], m, bucket)
       PROVE  TopRight(cache'.meta[<<m>>], m, B)
  <2> DEFINE e == cache'.meta[<<m>>]
  <2>1. m # n /\ e \notin {Absent, None}
    BY <1>5, <1>10, Tops
  <2>2. /\ IsDir(<<m>>, B) <=> IsDir(<<m>>, bucket)
        /\ \A a \in Top : IsDir(<<a>>, bucket) => IsDir(<<a>>, B)
    BY <1>6, <1>8, <2>1 DEF B, IsDir
  <2>3. e.dir => Leads(m, e.real[1], B)
    BY <1>10, <2>1, <2>2 DEF TopRight, Leads
  <2>4. Present(<<m>>, B) <=> Present(<<m>>, bucket)
    BY <1>8, <2>2 DEF Present
  <2> QED
    BY <1>10, <2>1, <2>2, <2>3, <2>4 DEF TopRight
<1>11. ASSUME NEW d \in Top, NEW m \in Inner, cache'.meta[<<d, m>>] # None,
              InnerRight(cache'.meta[<<d, m>>], d, m, bucket)
       PROVE  InnerRight(cache'.meta[<<d, m>>], d, m, B)
  <2>1. cache'.meta[<<d, m>>] # Absent
    BY <1>5, Inners
  <2> QED
    BY <1>8, <1>11, <2>1 DEF InnerRight
<1>12. Right(cache', B, odd)
  BY <1>5, <1>9, <1>10, <1>11, ChangeKeeps
<1> QED
  BY <1>5, <1>7, <1>12, LessFits DEF CacheInv

LEMMA CreateDirKeeps ==
    ASSUME Typed, CacheInv, NEW k \in Paths, CreateDir(k)
    PROVE  Typed' /\ CacheInv'
<1> DEFINE r == Resolve(cache, k)
<1>1. /\ Len(k) = 1 /\ Change(bucket \cup {Append(k, Keep)}, {})
      /\ cache' = Drop(r.c, k) /\ UNCHANGED pending
  BY DEF CreateDir
<1>2. PICK n \in Top : k = <<n>>
  BY <1>1, PathCases, Inners
<1>3. Fit(r.c) /\ Right(r.c, bucket, odd)
  BY ResolveKeeps DEF CacheInv
<1> QED
  BY <1>1, <1>2, <1>3, DirMade

LEMMA CreateBlindKeeps ==
    ASSUME Typed, CacheInv, NEW k \in Paths, CreateBlind(k)
    PROVE  Typed' /\ CacheInv'
<1>1. PICK key, c :
              /\ key \in Paths /\ Fit(c) /\ Right(c, bucket, odd) /\ cache' = Drop(c, key)
              /\ \/ pending' = pending \cup {key} /\ UNCHANGED <<bucket, changes, scan, odd>>
                 \/ /\ \E n \in Top : key = <<n>>
                    /\ Change(bucket \cup {Append(key, Keep)}, {}) /\ UNCHANGED pending
  BY CreateBlindIs
<1>2. CASE pending' = pending \cup {key} /\ UNCHANGED <<bucket, changes, scan, odd>>
  <2>1. Typed'
    BY <1>1, <1>2 DEF Typed
  <2>2. Less(cache', c)
    BY <1>1, DropIs DEF Fit
  <2> QED
    BY <1>1, <1>2, <2>1, <2>2, LessFits, LessKeeps DEF CacheInv
<1>3. ASSUME NEW n \in Top, key = <<n>>, Change(bucket \cup {Append(key, Keep)}, {}), UNCHANGED pending
      PROVE  Typed' /\ CacheInv'
  BY <1>1, <1>3, DirMade
<1> QED
  BY <1>1, <1>2, <1>3

\* The root changes by a file, and its directories stay.
LEMMA TopFileKeeps ==
    ASSUME NEW B \in SUBSET Objects, NEW C \in SUBSET Objects, NEW F \in SUBSET Top,
           \A d \in Top, m \in Inner \cup {Keep} : <<d, m>> \in C <=> <<d, m>> \in B,
           \A m \in Top \ F : <<m>> \in C <=> <<m>> \in B,
           NEW c, NEW s, NEW O, Right(c, B, O), Less(s, c),
           s.mem[Root] = None, s.disk[Root] = None, \A p \in Paths : s.meta[p] # Absent,
           \A n \in F : s.meta[<<n>>] = None
    PROVE  Right(s, C, O)
<1>1. \A m \in Top : IsDir(<<m>>, C) <=> IsDir(<<m>>, B)
  BY DirIs
<1>2. ASSUME NEW d \in Dirs \ O, s.mem[d] # None \/ s.disk[d] # None
      PROVE  ListOf(d, C) = ListOf(d, B)
  BY <1>2, PathCases, SameList
<1>3. ASSUME NEW m \in Top, s.meta[<<m>>] # None, TopRight(s.meta[<<m>>], m, B)
      PROVE  TopRight(s.meta[<<m>>], m, C)
  <2>1. m \notin F /\ s.meta[<<m>>] # Absent
    BY <1>3, Tops
  <2> QED
    BY <1>1, <1>3, <2>1 DEF TopRight, Present, Leads
<1>4. ASSUME NEW d \in Top, NEW m \in Inner, s.meta[<<d, m>>] # None,
             InnerRight(s.meta[<<d, m>>], d, m, B)
      PROVE  InnerRight(s.meta[<<d, m>>], d, m, C)
  <2>1. s.meta[<<d, m>>] # Absent
    BY Inners
  <2> QED
    BY <1>4, <2>1 DEF InnerRight
<1> QED
  BY <1>2, <1>3, <1>4, ChangeKeeps

\* Objects B and C differ in the files F of directory a only.
OnlyIn(a, F, B, C) ==
    /\ F \subseteq Inner
    /\ \A d \in Top, m \in Inner \cup {Keep} : d # a \/ m \notin F => (<<d, m>> \in C <=> <<d, m>> \in B)
    /\ \A m \in Top : <<m>> \in C <=> <<m>> \in B

\* s holds neither the listing of directory a, nor the files F, nor that a file of it is absent.
Forgets(s, a, F) ==
    /\ s.mem[<<a>>] = None /\ s.disk[<<a>>] = None
    /\ \A m \in Inner : s.meta[<<a, m>>] # Absent /\ (m \in F => s.meta[<<a, m>>] = None)

\* What s may have wrong after B became C is in P: the directory comes or goes, or a new
\* file of it is absent under another name of the directory.
Doubts(P, s, a, B, C) ==
    /\ Root \notin P => (IsDir(<<a>>, C) <=> IsDir(<<a>>, B))
    /\ \A n \in Inner, d \in Top, m \in Inner :
          /\ <<a, n>> \in C \ B /\ <<d, m>> # <<a, n>> /\ s.meta[<<d, m>>] = Absent
          /\ Fold(d) = Fold(a) /\ Fold(m) = Fold(n)
          => <<a>> \in P

LEMMA InnerFileKeeps ==
    ASSUME NEW B \in SUBSET Objects, NEW C \in SUBSET Objects, NEW a \in Top, NEW F,
           NEW c, NEW s, NEW O, NEW P, Right(c, B, O), Less(s, c), O \subseteq P,
           OnlyIn(a, F, B, C), Forgets(s, a, F), Doubts(P, s, a, B, C)
    PROVE  Right(s, C, P)
<1>1. Root \notin P => \A d \in Top : IsDir(<<d>>, C) <=> IsDir(<<d>>, B)
  <2>1. \A d \in Top \ {a} : IsDir(<<d>>, C) <=> IsDir(<<d>>, B)
    BY DirIs DEF OnlyIn
  <2> QED
    BY <2>1 DEF Doubts
<1>2. ASSUME NEW d \in Dirs \ P, s.mem[d] # None \/ s.disk[d] # None
      PROVE  ListOf(d, C) = ListOf(d, B)
  <2>1. CASE d = Root
    BY <1>1, <1>2, <2>1, SameList DEF OnlyIn
  <2>2. ASSUME NEW e \in Top, d = <<e>> PROVE ListOf(d, C) = ListOf(d, B)
    <3>1. e # a
      BY <1>2, <2>2 DEF Forgets
    <3> QED
      BY <2>2, <3>1, SameList DEF OnlyIn
  <2> QED
    BY <2>1, <2>2, PathCases
<1>3. ASSUME NEW m \in Top, Sure(m, P), TopRight(s.meta[<<m>>], m, B)
      PROVE  TopRight(s.meta[<<m>>], m, C)
  BY <1>1, <1>3 DEF OnlyIn, Sure, TopRight, Present, Leads
<1>4. ASSUME NEW d \in Top, NEW m \in Inner, Sure(d, P), s.meta[<<d, m>>] # None,
             InnerRight(s.meta[<<d, m>>], d, m, B)
      PROVE  InnerRight(s.meta[<<d, m>>], d, m, C)
  <2>1. d # a \/ m \notin F
    BY <1>4 DEF Forgets
  <2>2. CASE s.meta[<<d, m>>] # Absent
    BY <1>4, <2>1, <2>2 DEF OnlyIn, InnerRight
  <2>3. CASE s.meta[<<d, m>>] = Absent
    <3>1. ASSUME NEW b \in Top, NEW x \in Inner, Leads(d, b, C), Fold(x) = Fold(m), <<b, x>> \in C
          PROVE  FALSE
      <4>1. Leads(d, b, B)
        BY <1>1, <1>4, <3>1 DEF Leads, Sure
      <4>2. <<b, x>> \notin B
        BY <1>4, <2>3, <3>1, <4>1 DEF InnerRight
      <4>3. b = a /\ x \in F
        BY <3>1, <4>2 DEF OnlyIn
      <4>4. d # a /\ Fold(d) = Fold(a)
        BY <2>3, <3>1, <4>3 DEF Forgets, Leads
      <4>5. <<d, m>> # <<a, x>>
        BY <4>4
      <4>6. <<a>> \in P
        BY <2>3, <3>1, <4>2, <4>3, <4>4, <4>5 DEF Doubts
      <4> QED
        BY <1>4, <4>4, <4>6 DEF Sure
    <3> QED
      BY <2>3, <3>1, NothingAssumption DEF InnerRight
  <2> QED
    BY <2>2, <2>3
<1> QED
  BY <1>2, <1>3, <1>4, ChangeKeeps

LEMMA MoreDoubt == ASSUME NEW c, NEW B, NEW O, NEW P, Right(c, B, O), O \subseteq P PROVE Right(c, B, P)
BY DEF Right, Sure

LEMMA UnexpectedIs ==
    ASSUME NEW k, NEW B
    PROVE  /\ Unexpected(k, B) \in SUBSET Dirs
           /\ Root \notin Unexpected(k, B) => (IsDir(Parent(k), bucket) <=> IsDir(Parent(k), B))
<1>1. Unexpected(k, B) \in {{}, {Root}}
  BY DEF Unexpected
<1>2. Root \notin Unexpected(k, B) => IsDir(Parent(k), bucket) = IsDir(Parent(k), B)
  BY DEF Unexpected
<1> QED
  BY <1>1, <1>2 DEF Dirs

LEMMA CloseKeeps ==
    ASSUME Typed, CacheInv, NEW k \in Paths, Close(k)
    PROVE  Typed' /\ CacheInv'
<1> DEFINE B == bucket \cup {k}
           W == Unexpected(k, B) \cup Missed(cache', k)
<1>1. pending' = pending \ {k} /\ cache' = Drop(cache, k) /\ Change(B, W)
  BY DEF Close
<1>2. B \in SUBSET Objects /\ bucket \in SUBSET Objects /\ W \in SUBSET Dirs /\ pending' \in SUBSET Paths
  BY <1>1, UnexpectedIs, MissedIs DEF Typed, Objects
<1> HIDE DEF W, B
<1>3. Typed' /\ bucket' = B /\ odd' = odd \cup W
  BY <1>1, <1>2, ChangeTyped
<1>4. Fit(cache) /\ cache \in Caches /\ Right(cache, bucket, odd)
  BY DEF CacheInv, Fit
<1>5. ASSUME NEW n \in Top, k = <<n>> PROVE Right(cache', B, odd \cup W)
  <2>1. /\ Less(cache', cache) /\ cache'.mem[Root] = None /\ cache'.disk[Root] = None
        /\ cache'.meta[<<n>>] = None /\ \A p \in Paths : cache'.meta[p] # Absent
    BY <1>1, <1>4, <1>5, DropTop
  <2>2. /\ \A d \in Top, m \in Inner \cup {Keep} : <<d, m>> \in B <=> <<d, m>> \in bucket
        /\ \A m \in Top \ {n} : <<m>> \in B <=> <<m>> \in bucket
    BY <1>5, Inners DEF B
  <2>3. Right(cache', B, odd)
    BY <1>2, <1>4, <2>1, <2>2, TopFileKeeps, {n} \in SUBSET Top
  <2> QED
    BY <2>3, MoreDoubt
<1>6. ASSUME NEW a \in Top, NEW n \in Inner, k = <<a, n>> PROVE Right(cache', B, odd \cup W)
  <2>1. Less(cache', cache) /\ Forgets(cache', a, {n})
    BY <1>1, <1>4, <1>6, DropInner DEF Forgets
  <2>2. OnlyIn(a, {n}, bucket, B)
    BY <1>6, Inners DEF B, OnlyIn
  <2>3. Root \notin odd \cup W => (IsDir(<<a>>, B) <=> IsDir(<<a>>, bucket))
    BY <1>6, UnexpectedIs, Inners DEF W
  <2>4. \A x \in Inner, d \in Top, m \in Inner :
           /\ <<a, x>> \in B \ bucket /\ <<d, m>> # <<a, x>> /\ cache'.meta[<<d, m>>] = Absent
           /\ Fold(d) = Fold(a) /\ Fold(m) = Fold(x)
           => <<a>> \in odd \cup W
    BY <1>6, MissedIs DEF W, B
  <2>5. Doubts(odd \cup W, cache', a, bucket, B)
    BY <2>3, <2>4 DEF Doubts
  <2>6. odd \subseteq odd \cup W
    OBVIOUS
  <2> QED
    BY <1>2, <1>4, <2>1, <2>2, <2>5, <2>6, InnerFileKeeps
<1>7. Right(cache', B, odd \cup W)
  BY <1>5, <1>6, PathCases
<1>8. Fit(cache')
  BY <1>1, <1>4, DropIs, LessFits
<1> QED
  BY <1>3, <1>7, <1>8 DEF CacheInv

LEMMA DeleteFileKeeps ==
    ASSUME Typed, CacheInv, NEW k \in Paths, DeleteFile(k)
    PROVE  Typed' /\ CacheInv'
<1> DEFINE r == Resolve(cache, k)
           f == r.is.real
           B == bucket \ {f}
           W == Unexpected(f, B)
<1>1. r.is # Absent /\ ~r.is.dir /\ Change(B, W) /\ cache' = Drop(r.c, f) /\ UNCHANGED pending
  BY DEF DeleteFile
<1>2. Fit(r.c) /\ r.c \in Caches /\ Right(r.c, bucket, odd)
  BY ResolveKeeps DEF CacheInv, Fit
<1>3. \/ \E a \in Top : f = <<a>>
      \/ \E a \in Top, m \in Inner : f = <<a, m>>
  BY <1>1, FoundCases DEF CacheInv
<1> HIDE DEF r, f
<1>4. f \in Paths
  BY <1>3, AllPaths
<1>5. B \in SUBSET Objects /\ bucket \in SUBSET Objects /\ W \in SUBSET Dirs /\ pending' \in SUBSET Paths
  BY <1>1, <1>4, UnexpectedIs DEF Typed
<1> HIDE DEF W, B
<1>6. Typed' /\ bucket' = B /\ odd' = odd \cup W
  BY <1>1, <1>5, ChangeTyped
<1>7. ASSUME NEW n \in Top, f = <<n>> PROVE Right(cache', B, odd \cup W)
  <2>1. /\ Less(cache', r.c) /\ cache'.mem[Root] = None /\ cache'.disk[Root] = None
        /\ cache'.meta[<<n>>] = None /\ \A p \in Paths : cache'.meta[p] # Absent
    BY <1>1, <1>2, <1>7, DropTop
  <2>2. /\ \A d \in Top, m \in Inner \cup {Keep} : <<d, m>> \in B <=> <<d, m>> \in bucket
        /\ \A m \in Top \ {n} : <<m>> \in B <=> <<m>> \in bucket
    BY <1>7, Inners DEF B
  <2>3. {n} \in SUBSET Top
    OBVIOUS
  <2>4. Right(cache', B, odd)
    BY <1>2, <1>5, <2>1, <2>2, <2>3, TopFileKeeps
  <2> QED
    BY <2>4, MoreDoubt
<1>8. ASSUME NEW a \in Top, NEW n \in Inner, f = <<a, n>> PROVE Right(cache', B, odd \cup W)
  <2>1. Less(cache', r.c) /\ Forgets(cache', a, {n})
    BY <1>1, <1>2, <1>8, DropInner DEF Forgets
  <2>2. OnlyIn(a, {n}, bucket, B)
    BY <1>8, Inners DEF B, OnlyIn
  <2>3. Root \notin odd \cup W => (IsDir(<<a>>, B) <=> IsDir(<<a>>, bucket))
    BY <1>4, <1>8, UnexpectedIs, Inners DEF W
  <2>4. Doubts(odd \cup W, cache', a, bucket, B)
    BY <2>3 DEF Doubts, B
  <2>5. odd \subseteq odd \cup W
    OBVIOUS
  <2> QED
    BY <1>2, <1>5, <2>1, <2>2, <2>4, <2>5, InnerFileKeeps
<1>9. Right(cache', B, odd \cup W)
  BY <1>3, <1>7, <1>8
<1>10. Fit(cache')
  BY <1>1, <1>2, <1>4, DropIs, LessFits
<1> QED
  BY <1>6, <1>9, <1>10 DEF CacheInv

LEMMA HuskIs ==
    ASSUME NEW s, NEW g \in Top, ~Husk(s, <<g>>)
    PROVE  /\ s.mem[<<g>>] = None /\ s.disk[<<g>>] = None
           /\ \A n \in Top : s.meta[<<n>>] \notin {None, Absent} => s.meta[<<n>>].real # <<g>>
           /\ \A n \in Inner : s.meta[<<g, n>>] \in {None, Absent}
<1>1. \A n \in Inner : <<g, n>> \in Paths /\ <<g, n>> \in Under(<<g>>)
  BY Inners, Tops DEF Under
<1>2. \A n \in Top : <<n>> \in Paths
  BY Tops
<1>3. \A n \in Inner : s.meta[<<g, n>>] \notin {None, Absent} => Husk(s, <<g>>)
  BY <1>1 DEF Husk
<1> QED
  BY <1>2, <1>3 DEF Husk

\* Directories in G change with all that is in them; what still leads there is in P.
LEMMA DirsKeep ==
    ASSUME NEW B \in SUBSET Objects, NEW C \in SUBSET Objects, NEW G \in SUBSET Top,
           \A d \in Top \ G, m \in Inner \cup {Keep} : <<d, m>> \in C <=> <<d, m>> \in B,
           \A m \in Top : <<m>> \in C <=> <<m>> \in B,
           NEW c, NEW s, NEW O, NEW P, Fit(c), Right(c, B, O), Less(s, c), O \subseteq P,
           s.mem[Root] = None, s.disk[Root] = None, \A p \in Paths : s.meta[p] # Absent,
           \A n \in G : s.meta[<<n>>] = None /\ (Husk(s, <<n>>) => <<n>> \in P)
    PROVE  Right(s, C, P)
<1>1. \A m \in Top \ G : IsDir(<<m>>, C) <=> IsDir(<<m>>, B)
  BY DirIs
<1>2. Fit(s)
  BY LessFits
<1>3. ASSUME NEW d \in Dirs \ P, s.mem[d] # None \/ s.disk[d] # None
      PROVE  ListOf(d, C) = ListOf(d, B)
  <2>1. PICK n \in Top : d = <<n>>
    BY <1>3, PathCases
  <2>2. n \notin G
    BY <1>3, <2>1, HuskIs
  <2> QED
    BY <2>1, <2>2, SameList
<1>4. ASSUME NEW n \in Top, Sure(n, P), s.meta[<<n>>] # None, TopRight(s.meta[<<n>>], n, B)
      PROVE  TopRight(s.meta[<<n>>], n, C)
  <2> DEFINE e == s.meta[<<n>>]
  <2>1. n \notin G /\ e \notin {Absent, None} /\ e \in TopFound(n)
    BY <1>2, <1>4, Tops DEF Fit
  <2>2. Present(<<n>>, B) <=> Present(<<n>>, C)
    BY <1>1, <2>1 DEF Present
  <2>3. CASE \E g \in G : Fold(g) = Fold(n)
    <3>1. PICK g \in G : Fold(g) = Fold(n)
      BY <2>3
    <3>2. PICK m \in Top : e.real = <<m>> /\ Fold(m) = Fold(n)
      BY <2>1 DEF TopFound
    <3>3. ~Husk(s, <<g>>)
      BY <1>4, <3>1 DEF Sure
    <3>4. m # g
      BY <2>1, <3>1, <3>2, <3>3, HuskIs
    <3>5. m = n
      BY <2>1, <3>1, <3>2, <3>4, Pairs, Numbers
    <3>6. e.dir => Leads(n, n, C)
      BY <1>1, <1>4, <2>1, <3>2, <3>5, Tops DEF TopRight, Leads
    <3> QED
      BY <1>4, <2>1, <2>2, <3>2, <3>5, <3>6, Tops DEF TopRight
  <2>4. CASE \A g \in G : Fold(g) # Fold(n)
    <3>1. \A m \in Top : Fold(m) = Fold(n) => (IsDir(<<m>>, C) <=> IsDir(<<m>>, B))
      BY <1>1, <2>4
    <3> QED
      BY <1>4, <2>1, <2>2, <3>1 DEF TopRight, Leads
  <2> QED
    BY <2>3, <2>4
<1>5. ASSUME NEW d \in Top, NEW n \in Inner, Sure(d, P), s.meta[<<d, n>>] # None,
             InnerRight(s.meta[<<d, n>>], d, n, B)
      PROVE  InnerRight(s.meta[<<d, n>>], d, n, C)
  <2>1. s.meta[<<d, n>>] \notin {Absent, None}
    BY <1>5, Inners
  <2>2. d \notin G
    BY <1>5, <2>1, HuskIs DEF Sure
  <2> QED
    BY <1>5, <2>1, <2>2 DEF InnerRight
<1> QED
  BY <1>3, <1>4, <1>5, ChangeKeeps

LEMMA UnderIs ==
    ASSUME NEW a \in Top
    PROVE  /\ \A m \in Top : <<m>> \notin Under(<<a>>)
           /\ \A d \in Top, m \in Inner \cup {Keep} : <<d, m>> \in Under(<<a>>) <=> d = a
<1>1. Under(<<a>>) = {o \in Objects : Len(o) = 2 /\ o[1] = a}
  BY Tops DEF Under
<1>2. ASSUME NEW m \in Top PROVE <<m>> \notin Under(<<a>>)
  <2>1. Len(<<m>>) = 1
    BY Tops
  <2>2. \A o \in Under(<<a>>) : Len(o) # 1
    BY <1>1
  <2> QED
    BY <2>1, <2>2, Zenon
<1>3. ASSUME NEW d \in Top, NEW m \in Inner \cup {Keep} PROVE <<d, m>> \in Under(<<a>>) <=> d = a
  BY <1>1, Inners
<1> QED
  BY <1>2, <1>3

LEMMA RemoveDirKeeps ==
    ASSUME Typed, CacheInv, NEW k \in Paths, RemoveDir(k)
    PROVE  Typed' /\ CacheInv'
<1> DEFINE r == Resolve(cache, k)
           d == r.is.real
           B == bucket \ Under(d)
           W == IF Husk(cache', d) THEN {d} ELSE {}
<1>1. r.is # Absent /\ r.is.dir /\ Change(B, W) /\ cache' = Drop(r.c, d) /\ UNCHANGED pending
  BY DEF RemoveDir
<1>2. Fit(r.c) /\ r.c \in Caches /\ Right(r.c, bucket, odd)
  BY ResolveKeeps DEF CacheInv, Fit
<1>3. PICK a \in Top : d = <<a>>
  BY <1>1, FoundCases DEF CacheInv
<1> HIDE DEF r, d
<1>4. B \in SUBSET Objects /\ bucket \in SUBSET Objects /\ W \in SUBSET Dirs /\ pending' \in SUBSET Paths
  BY <1>1, <1>3, Tops DEF Typed
<1>5. /\ \A e \in Top \ {a}, m \in Inner \cup {Keep} : <<e, m>> \in B <=> <<e, m>> \in bucket
      /\ \A m \in Top : <<m>> \in B <=> <<m>> \in bucket
  BY <1>3, UnderIs
<1>6. Husk(cache', <<a>>) => <<a>> \in odd \cup W
  BY <1>3
<1> HIDE DEF W, B
<1>7. Typed' /\ bucket' = B /\ odd' = odd \cup W
  BY <1>1, <1>4, ChangeTyped
<1>8. /\ Less(cache', r.c) /\ cache'.mem[Root] = None /\ cache'.disk[Root] = None
      /\ cache'.meta[<<a>>] = None /\ \A p \in Paths : cache'.meta[p] # Absent
  BY <1>1, <1>2, <1>3, DropTop
<1>9. Right(cache', B, odd \cup W)
  <2> DEFINE G == {a}
  <2>1. /\ G \in SUBSET Top /\ odd \subseteq odd \cup W
        /\ \A e \in Top \ G, m \in Inner \cup {Keep} : <<e, m>> \in B <=> <<e, m>> \in bucket
        /\ \A n \in G : cache'.meta[<<n>>] = None /\ (Husk(cache', <<n>>) => <<n>> \in odd \cup W)
    BY <1>5, <1>6, <1>8
  <2> HIDE DEF G
  <2> QED
    BY <1>2, <1>4, <1>5, <1>8, <2>1, DirsKeep
<1>10. Fit(cache')
  BY <1>2, <1>8, LessFits
<1> QED
  BY <1>7, <1>9, <1>10 DEF CacheInv

\* Directory from with what is under it, or file from, gets the name to: then there are
\* objects B, and doubts about W.
DirMoves(from, to, B, W) ==
    \E a \in Top, b \in Top :
        /\ from = <<a>> /\ to = <<b>> /\ a # b
        /\ B = (bucket \ Under(<<a>>)) \cup {Moved(o, <<a>>, <<b>>) : o \in bucket \cap Under(<<a>>)}
        /\ W = {d \in {from, to} : Husk(cache', d)}

FileMoves(from, to, B, W) ==
    /\ \/ \E a \in Top, b \in Top : from = <<a>> /\ to = <<b>> /\ a # b
       \/ \E a \in Top, m \in Inner, b \in Inner : from = <<a, m>> /\ to = <<a, b>> /\ m # b
    /\ from \in bucket /\ B = (bucket \ {from}) \cup {to} /\ W = Missed(cache', to)

LEMMA RenameIs ==
    ASSUME Typed, CacheInv, NEW k \in Paths, NEW n \in IF Len(k) = 1 THEN Top ELSE Inner, Rename(k, n)
    PROVE  \E from, to, c, B, W :
              /\ from \in Paths /\ to \in Paths
              /\ Fit(c) /\ Right(c, bucket, odd) /\ UNCHANGED pending
              /\ cache' = Drop(Drop(c, from), to) /\ Change(B, W)
              /\ DirMoves(from, to, B, W) \/ FileMoves(from, to, B, W)
<1> DEFINE r     == Resolve(cache, k)
           from  == r.is.real
           to    == Append(Parent(from), n)
           moved == bucket \cap (IF r.is.dir THEN Under(from) ELSE {from})
           B     == (bucket \ moved) \cup {Moved(o, from, to) : o \in moved}
           W     == IF r.is.dir THEN {d \in {from, to} : Husk(cache', d)} ELSE Missed(cache', to)
<1>1. /\ r.is # Absent /\ n # Name(from) /\ (r.is.dir \/ moved # {})
      /\ cache' = Drop(Drop(r.c, from), to) /\ Change(B, W) /\ UNCHANGED pending
  BY DEF Rename
<1>2. Fit(r.c) /\ Right(r.c, bucket, odd)
  BY ResolveKeeps DEF CacheInv
<1>3. \/ \E x \in Top, a \in Top : k = <<x>> /\ from = <<a>>
      \/ ~r.is.dir /\ \E x \in Top, y \in Inner, a \in Top, m \in Inner : k = <<x, y>> /\ from = <<a, m>>
  <2>1. r.is.dir => \E a \in Top : from = <<a>>
    BY <1>1, FoundCases DEF CacheInv
  <2>2. \/ \E x \in Top, a \in Top : k = <<x>> /\ from = <<a>>
        \/ \E x \in Top, y \in Inner, a \in Top, m \in Inner : k = <<x, y>> /\ from = <<a, m>>
    BY <1>1, FoundCases DEF CacheInv
  <2>3. \A a \in Top, b \in Top, m \in Inner : <<a>> # <<b, m>>
    BY Inners
  <2> HIDE DEF r, from
  <2> QED
    BY <2>1, <2>2, <2>3
<1> HIDE DEF r, from
<1>4. \/ \E a \in Top, b \in Top : from = <<a>> /\ to = <<b>> /\ a # b
      \/ ~r.is.dir /\ \E a \in Top, m \in Inner, b \in Inner : from = <<a, m>> /\ to = <<a, b>> /\ m # b
  <2>1. ASSUME NEW x \in Top, NEW a \in Top, k = <<x>>, from = <<a>>
        PROVE  n \in Top /\ to = <<n>> /\ a # n
    BY <1>1, <2>1, Tops
  <2>2. ASSUME NEW x \in Top, NEW y \in Inner, NEW a \in Top, NEW m \in Inner, k = <<x, y>>, from = <<a, m>>
        PROVE  n \in Inner /\ to = <<a, n>> /\ m # n
    <3>1. Len(k) # 1 /\ Parent(from) = <<a>> /\ Name(from) = m
      <4>1. Len(<<x, y>>) = 2 /\ Parent(<<a, m>>) = <<a>> /\ Name(<<a, m>>) = m
        BY Inners, Zenon
      <4> QED
        BY <2>2, <4>1
    <3>2. to = <<a, n>>
      <4>1. to = Append(<<a>>, n)
        BY <3>1, Zenon
      <4> QED
        BY <4>1, Inners, Zenon
    <3> QED
      BY <1>1, <3>1, <3>2
  <2> QED
    BY <1>3, <2>1, <2>2
<1>5. from \in Paths /\ to \in Paths
  <2>1. /\ \A a \in Top : <<a>> \in Paths
        /\ \A a \in Top, m \in Inner : <<a, m>> \in Paths
    BY Tops, Inners
  <2> QED
    BY <1>4, <2>1
<1>6. CASE r.is.dir
  <2>1. PICK a \in Top, b \in Top : from = <<a>> /\ to = <<b>> /\ a # b
    BY <1>4, <1>6
  <2>2. /\ B = (bucket \ Under(<<a>>)) \cup {Moved(o, <<a>>, <<b>>) : o \in bucket \cap Under(<<a>>)}
        /\ W = {d \in {from, to} : Husk(cache', d)}
    <3>1. moved = bucket \cap Under(<<a>>) /\ bucket \ moved = bucket \ Under(<<a>>)
      BY <1>6, <2>1
    <3> HIDE DEF moved, to
    <3> QED
      BY <1>6, <2>1, <3>1
  <2> HIDE DEF B, W, to, moved
  <2>3. DirMoves(from, to, B, W)
    BY <2>1, <2>2, Zenon DEF DirMoves
  <2> QED
    BY <1>1, <1>2, <1>5, <2>3
<1>7. CASE ~r.is.dir
  <2>1. from \in bucket /\ moved = {from}
    BY <1>1, <1>7
  <2>2. Moved(from, from, to) = to
    BY <1>5, MovedIs
  <2>3. B = (bucket \ {from}) \cup {to} /\ W = Missed(cache', to)
    <3> HIDE DEF moved, to
    <3> QED
      BY <1>7, <2>1, <2>2
  <2> HIDE DEF B, W, to, moved
  <2>4. FileMoves(from, to, B, W)
    BY <1>4, <1>7, <2>1, <2>3 DEF FileMoves
  <2> QED
    BY <1>1, <1>2, <1>5, <2>4
<1> QED
  BY <1>6, <1>7

LEMMA RenameKeeps ==
    ASSUME Typed, CacheInv, NEW k \in Paths, NEW n \in IF Len(k) = 1 THEN Top ELSE Inner, Rename(k, n)
    PROVE  Typed' /\ CacheInv'
<1>1. PICK from, to, c, B, W :
              /\ from \in Paths /\ to \in Paths
              /\ Fit(c) /\ Right(c, bucket, odd) /\ UNCHANGED pending
              /\ cache' = Drop(Drop(c, from), to) /\ Change(B, W)
              /\ DirMoves(from, to, B, W) \/ FileMoves(from, to, B, W)
  BY RenameIs
<1> DEFINE s == Drop(c, from)
<1>2. /\ bucket \in SUBSET Objects /\ pending' \in SUBSET Paths /\ c \in Caches
      /\ s \in Caches /\ Less(s, c) /\ cache' = Drop(s, to) /\ Less(cache', c)
  <2>1. c \in Caches /\ s \in Caches /\ Less(s, c)
    BY <1>1, DropIs DEF Fit, Less
  <2>2. Less(Drop(s, to), s)
    BY <1>1, <2>1, DropIs
  <2> QED
    BY <1>1, <2>1, <2>2, LessTwice DEF Typed
<1>3. Fit(cache')
  BY <1>1, <1>2, LessFits
\* Two names in the root.
<1>4. ASSUME NEW a \in Top, NEW b \in Top, from = <<a>>, to = <<b>>
      PROVE  /\ cache'.mem[Root] = None /\ cache'.disk[Root] = None
             /\ cache'.meta[<<a>>] = None /\ cache'.meta[<<b>>] = None
             /\ \A p \in Paths : cache'.meta[p] # Absent
  <2>1. s.meta[<<a>>] = None
    BY <1>2, <1>4, DropTop
  <2>2. cache'.meta[<<a>>] \in {None, s.meta[<<a>>]}
    BY <1>2, <1>4, DropTop, Tops DEF Less
  <2> QED
    BY <1>2, <1>4, <2>1, <2>2, DropTop
<1> HIDE DEF s
<1>5. CASE DirMoves(from, to, B, W)
  <2>1. PICK a \in Top, b \in Top :
           /\ from = <<a>> /\ to = <<b>> /\ a # b
           /\ B = (bucket \ Under(<<a>>)) \cup {Moved(o, <<a>>, <<b>>) : o \in bucket \cap Under(<<a>>)}
           /\ W = {d \in {from, to} : Husk(cache', d)}
    BY <1>5 DEF DirMoves
  <2>2. \A o \in bucket \cap Under(<<a>>) :
           \E m \in Inner \cup {Keep} : o = <<a, m>> /\ Moved(o, <<a>>, <<b>>) = <<b, m>>
    <3> TAKE o \in bucket \cap Under(<<a>>)
    <3>1. PICK d \in Top, m \in Inner \cup {Keep} : o = <<d, m>>
      BY <1>2, PathCases, UnderIs
    <3>2. d = a
      BY <3>1, UnderIs
    <3> QED
      BY <3>1, <3>2, MovedIs
  <2>3. /\ B \in SUBSET Objects /\ W \in SUBSET Dirs
        /\ \A d \in Top \ {a, b}, m \in Inner \cup {Keep} : <<d, m>> \in B <=> <<d, m>> \in bucket
        /\ \A m \in Top : <<m>> \in B <=> <<m>> \in bucket
    <3>1. \A m \in Inner \cup {Keep} : <<b, m>> \in Objects
      BY Inners
    <3>2. B \in SUBSET Objects
      BY <1>2, <2>1, <2>2, <3>1
    <3>3. W \in SUBSET Dirs
      BY <2>1, Tops
    <3>6. /\ bucket \ Under(<<a>>) \subseteq B
          /\ \A p \in B : p \in bucket \ Under(<<a>>) \/ \E x : p = <<b, x>>
      <4>1. \A o \in bucket \cap Under(<<a>>) : \E x : Moved(o, <<a>>, <<b>>) = <<b, x>>
        BY <2>2
      <4>2. \A p \in B : \/ p \in bucket \ Under(<<a>>)
                        \/ \E o \in bucket \cap Under(<<a>>) : p = Moved(o, <<a>>, <<b>>)
        BY <2>1
      <4>3. bucket \ Under(<<a>>) \subseteq B
        BY <2>1
      <4> QED
        BY <4>1, <4>2, <4>3, Zenon
    <3>4. ASSUME NEW d \in Top \ {a, b}, NEW m \in Inner \cup {Keep}
          PROVE  <<d, m>> \in B <=> <<d, m>> \in bucket
      <4>1. <<d, m>> \notin Under(<<a>>)
        BY UnderIs
      <4>2. \A x : <<b, x>> # <<d, m>>
        BY Inners
      <4> QED
        BY <3>6, <4>1, <4>2
    <3>5. ASSUME NEW m \in Top PROVE <<m>> \in B <=> <<m>> \in bucket
      <4>1. <<m>> \notin Under(<<a>>)
        BY UnderIs
      <4>2. \A x : <<b, x>> # <<m>>
        BY Inners
      <4> QED
        BY <3>6, <4>1, <4>2
    <3> QED
      BY <3>2, <3>3, <3>4, <3>5
  <2>4. Typed' /\ bucket' = B /\ odd' = odd \cup W
    BY <1>1, <1>2, <2>3, ChangeTyped
  <2> DEFINE G == {a, b}
  <2>5. /\ G \in SUBSET Top /\ odd \subseteq odd \cup W
        /\ \A d \in Top \ G, m \in Inner \cup {Keep} : <<d, m>> \in B <=> <<d, m>> \in bucket
        /\ \A x \in G : cache'.meta[<<x>>] = None /\ (Husk(cache', <<x>>) => <<x>> \in odd \cup W)
    BY <1>4, <2>1, <2>3
  <2>6. cache'.mem[Root] = None /\ cache'.disk[Root] = None /\ \A p \in Paths : cache'.meta[p] # Absent
    BY <1>4, <2>1
  <2> HIDE DEF G
  <2>7. Right(cache', B, odd \cup W)
    BY <1>1, <1>2, <2>3, <2>5, <2>6, DirsKeep
  <2> QED
    BY <1>3, <2>4, <2>7 DEF CacheInv
<1>6. CASE FileMoves(from, to, B, W)
  <2>1. from \in bucket /\ B = (bucket \ {from}) \cup {to} /\ W = Missed(cache', to)
    BY <1>6 DEF FileMoves
  <2>2. B \in SUBSET Objects /\ W \in SUBSET Dirs
    BY <1>1, <1>2, <2>1, MissedIs DEF Objects
  <2>3. Typed' /\ bucket' = B /\ odd' = odd \cup W
    BY <1>1, <1>2, <2>2, ChangeTyped
  <2>4. ASSUME NEW a \in Top, NEW b \in Top, from = <<a>>, to = <<b>>
        PROVE  Right(cache', B, odd \cup W)
    <3> DEFINE F == {a, b}
    <3>1. /\ F \in SUBSET Top /\ \A x \in F : cache'.meta[<<x>>] = None
          /\ \A d \in Top, m \in Inner \cup {Keep} : <<d, m>> \in B <=> <<d, m>> \in bucket
          /\ \A m \in Top \ F : <<m>> \in B <=> <<m>> \in bucket
      BY <1>4, <2>1, <2>4, Inners
    <3>2. cache'.mem[Root] = None /\ cache'.disk[Root] = None /\ \A p \in Paths : cache'.meta[p] # Absent
      BY <1>4, <2>4
    <3> HIDE DEF F
    <3>3. Right(cache', B, odd)
      BY <1>1, <1>2, <2>2, <3>1, <3>2, TopFileKeeps
    <3> QED
      BY <3>3, MoreDoubt
  <2>5. ASSUME NEW a \in Top, NEW m \in Inner, NEW b \in Inner, from = <<a, m>>, to = <<a, b>>
        PROVE  Right(cache', B, odd \cup W)
    <3>1. OnlyIn(a, {m, b}, bucket, B)
      BY <2>1, <2>5, Inners DEF OnlyIn
    <3>2. Forgets(cache', a, {m, b})
      <4>1. s.meta[<<a, m>>] = None
        BY <1>2, <2>5, DropInner DEF s
      <4>2. cache'.meta[<<a, m>>] \in {None, s.meta[<<a, m>>]}
        BY <1>2, <2>5, DropInner, Inners DEF Less
      <4>3. /\ cache'.mem[<<a>>] = None /\ cache'.disk[<<a>>] = None
            /\ cache'.meta[<<a, b>>] = None /\ \A x \in Inner : cache'.meta[<<a, x>>] # Absent
        BY <1>2, <2>5, DropInner
      <4> QED
        BY <4>1, <4>2, <4>3 DEF Forgets
    <3>3. IsDir(<<a>>, B) /\ IsDir(<<a>>, bucket)
      BY <1>2, <2>1, <2>2, <2>5, DirIs
    <3>4. ASSUME NEW x \in Inner, NEW d \in Top, NEW y \in Inner,
                 <<a, x>> \in B \ bucket, <<d, y>> # <<a, x>>, cache'.meta[<<d, y>>] = Absent,
                 Fold(d) = Fold(a), Fold(y) = Fold(x)
          PROVE  <<a>> \in odd \cup W
      <4>1. x = b
        BY <2>1, <2>5, <3>4, Inners
      <4> QED
        BY <1>1, <2>1, <2>5, <3>4, <4>1, MissedIs
    <3>5. Doubts(odd \cup W, cache', a, bucket, B)
      BY <3>3, <3>4 DEF Doubts
    <3>6. odd \subseteq odd \cup W
      OBVIOUS
    <3> QED
      BY <1>1, <1>2, <2>2, <3>1, <3>2, <3>5, <3>6, InnerFileKeeps
  <2>6. Right(cache', B, odd \cup W)
    BY <1>6, <2>4, <2>5 DEF FileMoves
  <2> QED
    BY <1>3, <2>3, <2>6 DEF CacheInv
<1> QED
  BY <1>1, <1>5, <1>6

LEMMA RemoteChangeKeeps ==
    ASSUME Typed, CacheInv, NEW o \in Objects, RemoteChange(o)
    PROVE  Typed' /\ CacheInv'
<1> DEFINE B == IF o \in bucket THEN bucket \ {o} ELSE bucket \cup {o}
           W == {Parent(o)} \cup Unexpected(o, B)
<1>1. Change(B, W) /\ UNCHANGED <<pending, cache>>
  BY DEF RemoteChange
<1>2. \/ \E n \in Top : o = <<n>> /\ Parent(o) = Root
      \/ \E a \in Top, n \in Inner \cup {Keep} : o = <<a, n>> /\ Parent(o) = <<a>>
  <2>1. /\ \A n \in Top : Parent(<<n>>) = Root
        /\ \A a, n : Parent(<<a, n>>) = <<a>>
    BY Tops, Inners
  <2> QED
    BY <2>1, PathCases
<1>3. B \in SUBSET Objects /\ bucket \in SUBSET Objects /\ pending' \in SUBSET Paths
  BY <1>1 DEF Typed
<1>4. W \in SUBSET Dirs
  BY <1>2, Tops, UnexpectedIs DEF Dirs
<1>5. \A p \in Objects \ {o} : p \in B <=> p \in bucket
  OBVIOUS
<1>6. Parent(o) \in W /\ (Root \notin W => (IsDir(Parent(o), bucket) <=> IsDir(Parent(o), B)))
  BY UnexpectedIs
<1> HIDE DEF B, W
<1>7. Typed' /\ bucket' = B /\ odd' = odd \cup W
  BY <1>1, <1>3, <1>4, ChangeTyped
<1>8. Fit(cache) /\ Right(cache, bucket, odd) /\ Less(cache, cache)
  BY DEF CacheInv, Less, Fit
<1>9. ASSUME NEW n \in Top, o = <<n>>, Parent(o) = Root PROVE Right(cache, B, odd \cup W)
  <2>1. \A d \in Top, m \in Inner \cup {Keep} : <<d, m>> \in B <=> <<d, m>> \in bucket
    BY <1>5, <1>9, Inners
  <2>2. ASSUME NEW d \in Dirs \ (odd \cup W) PROVE ListOf(d, B) = ListOf(d, bucket)
    <3>1. PICK m \in Top : d = <<m>>
      BY <1>6, <1>9, PathCases
    <3> QED
      BY <1>3, <2>1, <3>1, SameList
  <2>3. \A m \in Top : ~Sure(m, odd \cup W)
    BY <1>6, <1>9 DEF Sure
  <2> QED
    BY <1>8, <2>2, <2>3, ChangeKeeps
<1>10. ASSUME NEW a \in Top, NEW n \in Inner \cup {Keep}, o = <<a, n>>, Parent(o) = <<a>>
       PROVE  Right(cache, B, odd \cup W)
  <2>1. /\ \A d \in Top \ {a}, m \in Inner \cup {Keep} : <<d, m>> \in B <=> <<d, m>> \in bucket
        /\ \A m \in Top : <<m>> \in B <=> <<m>> \in bucket
    BY <1>5, <1>10, Inners, Tops
  <2>2. Root \notin odd \cup W => \A d \in Top : IsDir(<<d>>, B) <=> IsDir(<<d>>, bucket)
    <3>1. \A d \in Top \ {a} : IsDir(<<d>>, B) <=> IsDir(<<d>>, bucket)
      BY <1>3, <2>1, DirIs
    <3> QED
      BY <1>6, <1>10, <3>1
  <2>3. ASSUME NEW d \in Dirs \ (odd \cup W) PROVE ListOf(d, B) = ListOf(d, bucket)
    <3>1. CASE d = Root
      BY <1>3, <2>1, <2>2, <2>3, <3>1, SameList
    <3>2. ASSUME NEW e \in Top, d = <<e>> PROVE ListOf(d, B) = ListOf(d, bucket)
      <4>1. e # a
        BY <1>6, <1>10, <2>3, <3>2
      <4> QED
        BY <1>3, <2>1, <3>2, <4>1, SameList
    <3> QED
      BY <3>1, <3>2, PathCases
  <2>4. ASSUME NEW m \in Top, Sure(m, odd \cup W), TopRight(cache.meta[<<m>>], m, bucket)
        PROVE  TopRight(cache.meta[<<m>>], m, B)
    BY <2>1, <2>2, <2>4 DEF Sure, TopRight, Present, Leads
  <2>5. ASSUME NEW d \in Top, NEW m \in Inner, Sure(d, odd \cup W), InnerRight(cache.meta[<<d, m>>], d, m, bucket)
        PROVE  InnerRight(cache.meta[<<d, m>>], d, m, B)
    <3>1. Fold(d) # Fold(a) /\ Root \notin odd \cup W
      BY <1>6, <1>10, <2>5 DEF Sure
    <3>2. \A e \in Top : Leads(d, e, B) => Leads(d, e, bucket) /\ e # a
      BY <2>2, <3>1 DEF Leads
    <3>3. \A e \in Top, x \in Inner : Leads(d, e, B) => (<<e, x>> \in B <=> <<e, x>> \in bucket)
      BY <2>1, <3>2
    <3>4. <<d, m>> \in B <=> <<d, m>> \in bucket
      BY <2>1, <3>1
    <3> QED
      BY <2>5, <3>2, <3>3, <3>4 DEF InnerRight
  <2> QED
    BY <1>8, <2>3, <2>4, <2>5, ChangeKeeps
<1>11. Right(cache, B, odd \cup W)
  BY <1>2, <1>9, <1>10
<1> QED
  BY <1>1, <1>7, <1>8, <1>11 DEF CacheInv

LEMMA FadesKeeps ==
    ASSUME Typed, CacheInv,
           \/ \E k \in Paths : MetaExpires(k)
           \/ \E d \in Dirs : ListingExpires(d)
           \/ Restart
    PROVE  Typed' /\ CacheInv'
<1>1. Less(cache', cache)
  <2>1. ASSUME NEW k \in Paths, MetaExpires(k) PROVE Less(cache', cache)
    <3>1. cache' = [mem |-> cache.mem, disk |-> cache.disk, meta |-> [cache.meta EXCEPT ![k] = None]]
      BY <2>1 DEF MetaExpires, CacheInv, Fit, Caches
    <3> QED
      BY <3>1 DEF CacheInv, Fit, Caches, Less
  <2>2. ASSUME NEW d \in Dirs, ListingExpires(d) PROVE Less(cache', cache)
    <3>1. \/ cache' = [mem |-> [cache.mem EXCEPT ![d] = None], disk |-> cache.disk, meta |-> cache.meta]
          \/ cache' = [mem |-> cache.mem, disk |-> [cache.disk EXCEPT ![d] = None], meta |-> cache.meta]
      BY <2>2 DEF ListingExpires, CacheInv, Fit, Caches
    <3> QED
      BY <3>1 DEF CacheInv, Fit, Caches, Less
  <2>3. ASSUME Restart PROVE Less(cache', cache)
    <3>1. cache' = [mem |-> [d \in Dirs |-> None], disk |-> cache.disk, meta |-> [k \in Paths |-> None]]
      BY <2>3 DEF Restart, Empty
    <3> QED
      BY <3>1 DEF CacheInv, Fit, Caches, Less
  <2> QED
    BY <2>1, <2>2, <2>3
<1>2. /\ UNCHANGED <<bucket, changes, odd>>
      /\ pending' \in SUBSET Paths /\ scan' \in {scan, NoScan}
  BY DEF MetaExpires, ListingExpires, Restart, Same, Typed
<1>3. NoScan \in Scans
  BY DEF NoScan, Scans, Dirs
<1>4. Typed'
  BY <1>2, <1>3 DEF Typed
<1> QED
  BY <1>1, <1>2, <1>4, LessFits, LessKeeps DEF CacheInv

-----------------------------------------------------------------------------
(* Pages *)

LEMMA HasMax ==
    ASSUME NEW S, S \subseteq Nat, IsFiniteSet(S), S # {}
    PROVE  Max(S) \in S /\ \A y \in S : Max(S) >= y
<1> DEFINE Without == {T \in FiniteSubsetsOf(Nat) : T # {} /\ ~\E x \in T : \A y \in T : x >= y}
<1>1. ASSUME Without # {} PROVE FALSE
  <2>1. PICK T \in Without : \A R \in Without : ~(<<R, T>> \in StrictSubsetOrdering(Nat))
    <3>1. Without \subseteq FiniteSubsetsOf(Nat)
      OBVIOUS
    <3> HIDE DEF Without
    <3> QED
      BY <1>1, <3>1, FS_StrictSubsetOrderingWellFounded, WFMin
  <2>2. T \subseteq Nat /\ IsFiniteSet(T) /\ T # {} /\ ~\E x \in T : \A y \in T : x >= y
    BY DEF FiniteSubsetsOf
  <2>3. PICK a \in T : TRUE
    BY <2>2
  <2>4. IsFiniteSet(T \ {a}) /\ <<T \ {a}, T>> \in StrictSubsetOrdering(Nat)
    BY <2>2, FS_RemoveElement DEF StrictSubsetOrdering
  <2>5. T \ {a} # {}
    BY <2>2
  <2>6. PICK b \in T \ {a} : \A y \in T \ {a} : b >= y
    BY <2>1, <2>2, <2>4, <2>5 DEF FiniteSubsetsOf
  <2> QED
    BY <2>2, <2>6
<1>2. \E x \in S : \A y \in S : x >= y
  BY <1>1 DEF FiniteSubsetsOf
<1> QED
  BY <1>2 DEF Max

LEMMA FoldRises ==
    ASSUME NEW a \in Nat, NEW b \in Nat
    PROVE  Fold(a) \in Nat /\ (a <= b => Fold(a) <= Fold(b)) /\ (Fold(a) < Fold(b) => a < b)
BY DEF Fold

\* A page is what comes first of what is left.
LEMMA PageIs ==
    ASSUME NEW rest \in SUBSET Names, NEW m \in Nat,
           NEW n \in rest, NEW y \in rest, n < y, Cardinality({l \in rest : l < y}) < m
    PROVE  Cardinality({l \in rest : l < n}) < m
<1>1. IsFiniteSet(rest)
  BY NameSpaceAssumption, FS_Union, FS_Subset DEF Names
<1>2. IsFiniteSet({l \in rest : l < y})
  BY <1>1, FS_Subset
<1>3. {l \in rest : l < n} \subseteq {l \in rest : l < y}
  <2>1. rest \subseteq Nat /\ n \in Nat /\ y \in Nat
    BY Numbers
  <2>2. \A l \in rest : l < n => l < y
    BY <2>1
  <2> QED
    BY <2>2
<1>4. /\ IsFiniteSet({l \in rest : l < n})
      /\ Cardinality({l \in rest : l < n}) <= Cardinality({l \in rest : l < y})
  BY <1>2, <1>3, FS_Subset
<1> QED
  BY <1>2, <1>4, FS_CardinalityType

\* While a directory is listed, what was there all the time and sorts up to the marker has
\* been listed, unless its listing is in doubt; and nothing that was listed sorts after it.
ScanInv ==
    /\ ~scan.again
    /\ scan.at = None => scan.seen = {}
    /\ scan.at # None => \A n \in scan.seen : Fold(n) <= Fold(scan.at)
    /\ scan.pc # "none" /\ scan.dir \notin odd =>
          \A n \in scan.must :
             /\ n \notin Wide /\ Lone(scan.dir, n, bucket)
             /\ scan.at # None /\ Fold(n) <= Fold(scan.at) => n \in scan.seen
             /\ scan.pc = "done" => n \in scan.seen

LEMMA PartIs ==
    ASSUME bucket \in SUBSET Objects, NEW d \in Dirs, NEW l \in Parts(ListOf(d, bucket))
    PROVE  /\ l \in ListsOf(d)
           /\ l.dirs \subseteq ListOf(d, bucket).dirs /\ l.files \subseteq ListOf(d, bucket).files
<1>1. ListOf(d, bucket) \in ListsOf(d)
  BY ListOfIs
<1> QED
  BY <1>1 DEF Parts, ListsOf, Listing

LEMMA ScanStartKeeps ==
    ASSUME Typed, CacheInv, NEW k \in Dirs, ScanStart(k)
    PROVE  Typed' /\ CacheInv' /\ ScanInv'
<1> DEFINE r == Resolve(cache, k)
<1>1. /\ r.is # Absent /\ r.is.dir
      /\ scan' = [NoScan EXCEPT !.pc = "on", !.dir = r.is.real,
                                !.must = {n \in Names \ Wide : Lone(r.is.real, n, bucket)}]
      /\ cache' = r.c /\ UNCHANGED <<bucket, pending, changes, odd>>
  BY DEF ScanStart
<1>2. r.is.real \in Dirs
  <2>1. ASSUME k = Root PROVE r.is.real \in Dirs
    BY <2>1 DEF Resolve, Dirs
  <2>2. ASSUME NEW n \in Top, k = <<n>> PROVE r.is.real \in Dirs
    <3>1. r.is \in TopFound(n)
      BY <1>1, <2>2, ResolveTop DEF Typed, CacheInv
    <3> QED
      BY <3>1, Tops DEF TopFound
  <2> QED
    BY <2>1, <2>2, PathCases
<1>3. CacheInv'
  BY <1>1, ResolveKeeps DEF CacheInv
<1> HIDE DEF r
<1>4. scan' = [pc |-> "on", dir |-> r.is.real, at |-> None, seen |-> {}, again |-> FALSE,
               must |-> {n \in Names \ Wide : Lone(r.is.real, n, bucket)}]
  BY <1>1 DEF NoScan
<1>5. Typed'
  <2> DEFINE lone == {n \in Names \ Wide : Lone(r.is.real, n, bucket)}
  <2>1. lone \in SUBSET Names
    OBVIOUS
  <2> HIDE DEF lone
  <2>2. scan' \in Scans
    BY <1>2, <1>4, <2>1 DEF Scans, lone
  <2> QED
    BY <1>1, <2>2 DEF Typed
<1>6. ScanInv'
  <2>1. \A n \in scan'.must : n \notin Wide /\ Lone(scan'.dir, n, bucket')
    BY <1>1, <1>4
  <2> QED
    BY <1>4, <2>1 DEF ScanInv
<1> QED
  BY <1>3, <1>5, <1>6

\* An enumeration gets a whole listing, or its directory is in doubt.
LEMMA EnumeratedKeeps ==
    ASSUME Typed, CacheInv, NEW d \in Dirs, NEW c \in Enumerated(cache, d), NEW O, odd \subseteq O,
           Asks(cache, d) /\ c.mem[d] # ListOf(d, bucket) => d \in O
    PROVE  /\ Fit(c) /\ Right(c, bucket, O) /\ c.mem[d] \in ListsOf(d)
           /\ d \notin O => c.mem[d] = ListOf(d, bucket)
<1>1. /\ bucket \in SUBSET Objects /\ Fit(cache) /\ Right(cache, bucket, odd)
      /\ Right(cache, bucket, O)
  BY MoreDoubt DEF Typed, CacheInv
<1>2. CASE c = Listed(cache, d)
  BY <1>1, <1>2, ListedKeeps, MoreDoubt
<1>3. ASSUME NEW l \in Parts(ListOf(d, bucket)), Asks(cache, d), c = Seeded(cache, d, l)
      PROVE  /\ Fit(c) /\ Right(c, bucket, O) /\ c.mem[d] \in ListsOf(d)
             /\ d \notin O => c.mem[d] = ListOf(d, bucket)
  <2>1. l \in ListsOf(d)
    BY <1>1, PartIs
  <2>2. c.mem[d] = l
    BY <1>1, <1>3, <2>1, SeededIs DEF Fit, ListsOf
  <2>3. d \notin O => l = ListOf(d, bucket)
    BY <1>3, <2>2
  <2> QED
    BY <1>1, <1>3, <2>1, <2>2, <2>3, SeededKeeps
<1> QED
  BY <1>2, <1>3 DEF Enumerated

LEMMA ScanFailsKeeps ==
    ASSUME Typed, CacheInv, ScanFails
    PROVE  Typed' /\ CacheInv'
<1>1. PICK l \in Parts(ListOf(scan.dir, bucket)) :
          cache' = [cache EXCEPT !.meta = Seeded(cache, scan.dir, l).meta]
  BY DEF ScanFails
<1>2. scan.dir \in Dirs /\ bucket \in SUBSET Objects
  BY DEF Typed, Scans
<1>3. /\ l \in ListsOf(scan.dir)
      /\ l.dirs \subseteq ListOf(scan.dir, bucket).dirs
      /\ l.files \subseteq ListOf(scan.dir, bucket).files
  BY <1>2, PartIs
<1>4. Fit(cache') /\ Right(cache', bucket, odd)
  BY <1>1, <1>2, <1>3, TaughtKeeps DEF CacheInv
<1>5. NoScan \in Scans
  BY DEF NoScan, Scans, Dirs
<1>6. scan' = NoScan /\ UNCHANGED <<bucket, pending, changes, odd>>
  BY DEF ScanFails
<1> QED
  BY <1>4, <1>5, <1>6 DEF Typed, CacheInv

LEMMA ScanPageKeeps ==
    ASSUME Typed, CacheInv, ScanInv, ScanPage
    PROVE  Typed' /\ CacheInv' /\ ScanInv'
<1> DEFINE left(c) == Remaining((c.mem[scan.dir].dirs \cup c.mem[scan.dir].files) \ Wide, scan.at)
           page(r, m) == {n \in r : Cardinality({l \in r : l < n}) < m}
<1> HIDE DEF page
<1>0. PICK c \in Enumerated(cache, scan.dir) :
        /\ scan.pc = "on" /\ cache' = c /\ UNCHANGED <<bucket, pending, changes>>
        /\ odd' = odd \cup {d \in {scan.dir} : /\ Asks(cache, scan.dir)
                                              /\ c.mem[scan.dir] # ListOf(scan.dir, bucket)}
        /\ \E m \in 1..Room :
              scan' = [scan EXCEPT
                        !.pc = IF Fits(page(left(c), m), left(c)) THEN "done" ELSE "on",
                        !.at = IF page(left(c), m) = {} THEN @ ELSE Max(page(left(c), m)),
                        !.seen = @ \cup page(left(c), m),
                        !.again = @ \/ page(left(c), m) \cap scan.seen # {}]
  BY Zenon DEF ScanPage, page
<1> DEFINE list == c.mem[scan.dir]
           all  == (list.dirs \cup list.files) \ Wide
           rest == Remaining(all, scan.at)
<1>1. /\ scan.pc = "on" /\ cache' = c /\ UNCHANGED <<bucket, pending, changes>>
      /\ \E m \in 1..Room :
            scan' = [scan EXCEPT !.pc = IF Fits(page(rest, m), rest) THEN "done" ELSE "on",
                                 !.at = IF page(rest, m) = {} THEN @ ELSE Max(page(rest, m)),
                                 !.seen = @ \cup page(rest, m),
                                 !.again = @ \/ page(rest, m) \cap scan.seen # {}]
  BY <1>0
<1>2. scan.dir \in Dirs
  BY DEF Typed, Scans
<1>17. odd' \in SUBSET Dirs /\ (scan.dir \notin odd' => scan.dir \notin odd)
  BY <1>0, <1>2 DEF Typed
<1>3. /\ CacheInv' /\ list \in ListsOf(scan.dir)
      /\ scan.dir \notin odd' => list = ListOf(scan.dir, bucket)
  <2>1. odd \subseteq odd'
    BY <1>0
  <2>2. Asks(cache, scan.dir) /\ list # ListOf(scan.dir, bucket) => scan.dir \in odd'
    BY <1>0
  <2> QED
    BY <1>1, <1>2, <2>1, <2>2, EnumeratedKeeps DEF CacheInv
<1>4. all \in SUBSET Names
  BY <1>3 DEF ListsOf, Listing, Names
<1> HIDE DEF list
<1>5. /\ rest \in SUBSET Names
      /\ scan.at = None => rest = all
      /\ scan.at # None => rest = {n \in all : Fold(n) > Fold(scan.at)}
  BY <1>4 DEF Remaining
<1> HIDE DEF all, rest
<1>6. PICK m \in 1..Room :
            scan' = [scan EXCEPT !.pc = IF Fits(page(rest, m), rest) THEN "done" ELSE "on",
                                 !.at = IF page(rest, m) = {} THEN @ ELSE Max(page(rest, m)),
                                 !.seen = @ \cup page(rest, m),
                                 !.again = @ \/ page(rest, m) \cap scan.seen # {}]
  BY <1>1
<1> DEFINE pg == page(rest, m)
<1>7. /\ pg \in SUBSET rest
      /\ \A n \in rest, y \in pg : n < y => n \in pg
  BY <1>5, PageIs, NameSpaceAssumption DEF page
<1>8. scan.seen \in SUBSET Names /\ scan.must \in SUBSET Names /\ scan.at \in Names \cup {None}
  BY DEF Typed, Scans
<1>9. pg \cap scan.seen = {}
  <2>1. CASE scan.at = None
    BY <2>1 DEF ScanInv
  <2>2. CASE scan.at # None
    <3>1. ASSUME NEW n \in pg, n \in scan.seen PROVE FALSE
      <4>1. Fold(n) > Fold(scan.at)
        BY <1>5, <1>7, <2>2
      <4>2. Fold(n) <= Fold(scan.at)
        BY <2>2, <3>1 DEF ScanInv
      <4>3. n \in Nat /\ scan.at \in Nat
        BY <1>8, <2>2, <3>1, Numbers
      <4> QED
        BY <4>1, <4>2, <4>3, FoldRises
    <3> QED
      BY <3>1
  <2> QED
    BY <2>1, <2>2
<1>10. pg # {} => Max(pg) \in pg /\ \A y \in pg : Max(pg) >= y
  <2>1. IsFiniteSet(pg)
    BY <1>5, <1>7, NameSpaceAssumption, FS_Union, FS_Subset DEF Names
  <2>2. pg \subseteq Nat
    BY <1>5, <1>7, Numbers
  <2> HIDE DEF pg
  <2> QED
    BY <2>1, <2>2, HasMax
<1>11. scan' = [pc |-> IF pg = rest THEN "done" ELSE "on", dir |-> scan.dir,
                at |-> IF pg = {} THEN scan.at ELSE Max(pg),
                seen |-> scan.seen \cup pg, again |-> FALSE, must |-> scan.must]
  <2> DEFINE again == (scan.again \/ pg \cap scan.seen # {})
             at   == IF pg = {} THEN scan.at ELSE Max(pg)
             ends == IF pg = rest THEN "done" ELSE "on"
  <2>1. again = FALSE
    BY <1>9 DEF ScanInv
  <2>2. scan = [pc |-> scan.pc, dir |-> scan.dir, at |-> scan.at, seen |-> scan.seen,
                again |-> scan.again, must |-> scan.must]
    BY DEF Typed, Scans
  <2>3. scan' = [scan EXCEPT !.pc = ends, !.at = at, !.seen = scan.seen \cup pg, !.again = again]
    BY <1>6 DEF Fits
  <2> HIDE DEF pg, again, at, ends
  <2>4. scan' = [pc |-> ends, dir |-> scan.dir, at |-> at, seen |-> scan.seen \cup pg,
                 again |-> FALSE, must |-> scan.must]
    BY <2>1, <2>2, <2>3
  <2> QED
    BY <2>4 DEF at, ends
<1> HIDE DEF pg
<1>12. Typed'
  <2>1. scan'.at \in Names \cup {None} /\ scan'.seen \in SUBSET Names
    BY <1>5, <1>7, <1>8, <1>10, <1>11
  <2>2. scan' \in Scans
    BY <1>2, <1>8, <1>11, <2>1 DEF Scans
  <2> QED
    BY <1>1, <1>17, <2>2 DEF Typed
<1>13. ~scan'.again /\ (scan'.at = None => scan'.seen = {})
  <2>1. None \notin Names
    BY NothingAssumption
  <2> QED
    BY <1>5, <1>7, <1>10, <1>11, <2>1 DEF ScanInv
<1>14. ASSUME scan'.at # None, NEW n \in scan'.seen PROVE Fold(n) <= Fold(scan'.at)
  <2>1. CASE pg = {}
    BY <1>11, <1>14, <2>1 DEF ScanInv
  <2>2. CASE pg # {}
    <3>1. scan'.at = Max(pg) /\ Max(pg) \in rest /\ Max(pg) \in Nat
      BY <1>5, <1>7, <1>10, <1>11, <2>2, Numbers
    <3>2. CASE n \in pg
      BY <1>5, <1>7, <1>10, <2>2, <3>1, <3>2, Numbers, FoldRises
    <3>3. CASE n \in scan.seen
      <4>1. scan.at # None /\ Fold(n) <= Fold(scan.at)
        BY <3>3 DEF ScanInv
      <4>2. Fold(Max(pg)) > Fold(scan.at)
        BY <1>5, <3>1, <4>1
      <4>3. n \in Nat /\ scan.at \in Nat
        BY <1>8, <3>3, <4>1, Numbers
      <4> QED
        BY <3>1, <4>1, <4>2, <4>3, FoldRises
    <3> QED
      BY <1>11, <1>14, <3>2, <3>3
  <2> QED
    BY <2>1, <2>2
<1>15. ASSUME scan.dir \notin odd', NEW n \in scan.must
       PROVE  /\ n \notin Wide /\ Lone(scan.dir, n, bucket)
              /\ scan'.at # None /\ Fold(n) <= Fold(scan'.at) => n \in scan'.seen
              /\ scan'.pc = "done" => n \in scan'.seen
  <2>1. /\ n \notin Wide /\ Lone(scan.dir, n, bucket)
        /\ (scan.at # None /\ Fold(n) <= Fold(scan.at) => n \in scan.seen)
    BY <1>1, <1>15, <1>17 DEF ScanInv
  <2>2. n \in all /\ \A y \in all : Fold(y) = Fold(n) => y = n
    BY <1>3, <1>15, <2>1 DEF Lone, Alike, all
  <2>3. n \in Nat /\ (scan.at # None => scan.at \in Nat)
    BY <1>8, Numbers
  <2>4. n \in scan.seen \/ n \in rest
    BY <1>5, <2>1, <2>2, <2>3, FoldRises
  <2>5. scan'.pc = "done" => n \in scan'.seen
    BY <1>11, <2>4
  <2>6. ASSUME scan'.at # None, Fold(n) <= Fold(scan'.at), n \notin scan.seen PROVE n \in pg
    <3>1. pg # {}
      BY <1>11, <2>1, <2>6
    <3>2. scan'.at = Max(pg) /\ Max(pg) \in pg /\ Max(pg) \in all /\ Max(pg) \in Nat
      BY <1>4, <1>5, <1>7, <1>10, <1>11, <3>1, Numbers
    <3>3. CASE Fold(n) = Fold(Max(pg))
      BY <2>2, <3>2, <3>3
    <3>4. CASE Fold(n) # Fold(Max(pg))
      <4>1. n < Max(pg)
        BY <2>3, <2>6, <3>2, <3>4, FoldRises
      <4> QED
        BY <1>7, <2>4, <2>6, <3>2, <4>1
    <3> QED
      BY <3>3, <3>4
  <2> QED
    BY <1>11, <2>1, <2>5, <2>6
<1>16. ScanInv'
  BY <1>1, <1>11, <1>13, <1>14, <1>15, <1>17 DEF ScanInv
<1> QED
  BY <1>3, <1>12, <1>16

-----------------------------------------------------------------------------
(* Every step *)

LEMMA CloseFailsKeeps ==
    ASSUME Typed, CacheInv, NEW k \in Paths, CloseFails(k)
    PROVE  Typed' /\ CacheInv'
BY DEF CloseFails, Same, Typed, CacheInv

LEMMA ScanStopsKeeps ==
    ASSUME Typed, CacheInv, ScanStops
    PROVE  Typed' /\ CacheInv'
<1>1. NoScan \in Scans
  <2>1. Root \in Dirs
    BY DEF Dirs
  <2> QED
    BY <2>1 DEF NoScan, Scans
<1> QED
  BY <1>1 DEF ScanStops, Typed, CacheInv

\* What other calls do to an enumeration that is under way.
LEMMA OddGrows ==
    ASSUME Typed, ScanInv, UNCHANGED <<bucket, scan>>, odd \subseteq odd'
    PROVE  ScanInv'
BY DEF ScanInv

LEMMA ChangeLeavesScan ==
    ASSUME Typed, ScanInv, NEW B, NEW W, Change(B, W)
    PROVE  ScanInv'
<1>1. /\ scan' = [scan EXCEPT !.must = {n \in scan.must : Lone(scan.dir, n, B)}]
      /\ bucket' = B /\ odd' = odd \cup W
  BY DEF Change
<1>2. /\ scan'.again = scan.again /\ scan'.at = scan.at /\ scan'.seen = scan.seen
      /\ scan'.pc = scan.pc /\ scan'.dir = scan.dir
      /\ scan'.must = {n \in scan.must : Lone(scan.dir, n, B)}
  BY <1>1 DEF Typed, Scans
<1> QED
  BY <1>1, <1>2 DEF ScanInv

LEMMA NoScanNow ==
    ASSUME scan' = NoScan
    PROVE  ScanInv'
BY DEF NoScan, ScanInv

NamesInv == Typed /\ CacheInv /\ ScanInv

LEMMA CallKeeps ==
    ASSUME NamesInv, NEW k \in Paths,
           \/ Lookup(k) \/ LookupFails(k) \/ CreateDir(k) \/ CreateFile(k) \/ CreateBlind(k)
           \/ Close(k) \/ CloseFails(k) \/ DeleteFile(k) \/ RemoveDir(k)
           \/ \E n \in IF Len(k) = 1 THEN Top ELSE Inner : Rename(k, n)
    PROVE  NamesInv'
<1>1. Typed /\ CacheInv /\ ScanInv
  BY DEF NamesInv
<1>2. CASE Lookup(k)
  BY <1>1, <1>2, LookupKeeps, OddGrows DEF Lookup, Same, NamesInv
<1>3. CASE CreateDir(k)
  <2>1. Change(bucket \cup {Append(k, Keep)}, {})
    BY <1>3 DEF CreateDir
  <2> QED
    BY <1>1, <1>3, <2>1, CreateDirKeeps, ChangeLeavesScan DEF NamesInv
<1>4. CASE CreateFile(k)
  <2>1. UNCHANGED <<bucket, scan>> /\ odd \subseteq odd'
    BY <1>1, <1>4, CreateFileIs
  <2> QED
    BY <1>1, <1>4, <2>1, CreateFileKeeps, OddGrows DEF NamesInv
<1>5. CASE CreateBlind(k)
  <2>1. UNCHANGED <<bucket, scan, odd>> \/ \E B, W : Change(B, W)
    BY <1>1, <1>5, CreateBlindIs
  <2> QED
    BY <1>1, <1>5, <2>1, CreateBlindKeeps, OddGrows, ChangeLeavesScan DEF NamesInv
<1>11. CASE LookupFails(k)
  BY <1>1, <1>11, LookupFailsKeeps, OddGrows DEF LookupFails, Same, NamesInv
<1>6. CASE Close(k)
  <2>1. Change(bucket \cup {k}, Unexpected(k, bucket \cup {k}) \cup Missed(cache', k))
    BY <1>6 DEF Close
  <2> QED
    BY <1>1, <1>6, <2>1, CloseKeeps, ChangeLeavesScan DEF NamesInv
<1>7. CASE CloseFails(k)
  BY <1>1, <1>7, CloseFailsKeeps, OddGrows DEF CloseFails, Same, NamesInv
<1>8. CASE DeleteFile(k)
  <2>1. \E B, W : Change(B, W)
    BY <1>8 DEF DeleteFile
  <2> QED
    BY <1>1, <1>8, <2>1, DeleteFileKeeps, ChangeLeavesScan DEF NamesInv
<1>9. CASE RemoveDir(k)
  <2>1. \E B, W : Change(B, W)
    BY <1>9 DEF RemoveDir
  <2> QED
    BY <1>1, <1>9, <2>1, RemoveDirKeeps, ChangeLeavesScan DEF NamesInv
<1>10. ASSUME NEW n \in IF Len(k) = 1 THEN Top ELSE Inner, Rename(k, n) PROVE NamesInv'
  <2>1. \E B, W : Change(B, W)
    BY <1>1, <1>10, RenameIs
  <2> QED
    BY <1>1, <1>10, <2>1, RenameKeeps, ChangeLeavesScan DEF NamesInv
<1> QED
  BY <1>2, <1>3, <1>4, <1>5, <1>6, <1>7, <1>8, <1>9, <1>10, <1>11

LEMMA StepKeeps ==
    ASSUME NamesInv, [Next]_vars
    PROVE  NamesInv'
<1>1. Typed /\ CacheInv /\ ScanInv
  BY DEF NamesInv
<1>2. CASE UNCHANGED vars
  BY <1>1, <1>2 DEF vars, NamesInv, Typed, CacheInv, ScanInv
<1>3. ASSUME NEW k \in Paths, MetaExpires(k) PROVE NamesInv'
  BY <1>1, <1>3, FadesKeeps, OddGrows DEF MetaExpires, Same, NamesInv
<1>4. ASSUME NEW d \in Dirs, ScanStart(d) PROVE NamesInv'
  BY <1>1, <1>4, ScanStartKeeps DEF NamesInv
<1>5. ASSUME NEW d \in Dirs, ListingExpires(d) PROVE NamesInv'
  BY <1>1, <1>5, FadesKeeps, OddGrows DEF ListingExpires, Same, NamesInv
<1>6. ASSUME NEW o \in Objects, RemoteChange(o) PROVE NamesInv'
  <2>1. \E B, W : Change(B, W)
    BY <1>6 DEF RemoteChange
  <2> QED
    BY <1>1, <1>6, <2>1, RemoteChangeKeeps, ChangeLeavesScan DEF NamesInv
<1>7. CASE ScanPage
  BY <1>1, <1>7, ScanPageKeeps DEF NamesInv
<1>8. CASE ScanStops
  BY <1>1, <1>8, ScanStopsKeeps, NoScanNow DEF ScanStops, NamesInv
<1>9. CASE Restart
  BY <1>1, <1>9, FadesKeeps, NoScanNow DEF Restart, NamesInv
<1>10. CASE ScanFails
  BY <1>1, <1>10, ScanFailsKeeps, NoScanNow DEF ScanFails, NamesInv
<1> QED
  BY <1>2, <1>3, <1>4, <1>5, <1>6, <1>7, <1>8, <1>9, <1>10, CallKeeps DEF Next

LEMMA StartsRight ==
    ASSUME Init
    PROVE  NamesInv
<1>1. Typed /\ Empty \in Caches
  <2>1. NoScan \in Scans
    <3>1. Root \in Dirs
      BY DEF Dirs
    <3> QED
      BY <3>1 DEF NoScan, Scans
  <2>2. Empty \in Caches
    BY DEF Empty, Caches
  <2>3. 0 \in 0..MaxChanges
    BY NameSpaceAssumption
  <2> QED
    BY <2>1, <2>2, <2>3 DEF Init, Typed
<1>2. /\ \A d \in Dirs : Empty.mem[d] = None /\ Empty.disk[d] = None
      /\ \A k \in Paths : Empty.meta[k] = None
  BY DEF Empty
<1>3. /\ \A n \in Top : Empty.meta[<<n>>] = None
      /\ \A d \in Top, n \in Inner : Empty.meta[<<d, n>>] = None
  BY <1>2, Tops, Inners
<1>4. Fit(Empty)
  BY <1>1, <1>2, <1>3 DEF Fit
<1>5. Right(Empty, bucket, odd)
  <2>1. /\ \A n : TopRight(None, n, bucket)
        /\ \A d, n : InnerRight(None, d, n, bucket)
    BY NothingAssumption DEF TopRight, InnerRight
  <2>2. \A d \in Dirs \ odd : {Empty.mem[d], Empty.disk[d]} \subseteq {None, ListOf(d, bucket)}
    BY <1>2
  <2> QED
    BY <1>3, <2>1, <2>2 DEF Right
<1>6. ScanInv
  BY DEF Init, NoScan, ScanInv
<1> QED
  BY <1>1, <1>4, <1>5, <1>6 DEF Init, CacheInv, NamesInv

\* What the caches hold is right, or its directory is odd (resolve, list_dir, invalidate_parent).
THEOREM AlwaysNamesInv == Spec => []NamesInv
BY StartsRight, StepKeeps, PTL DEF Spec

-----------------------------------------------------------------------------
(* The properties *)

\* Whatever is right of a sound path's first name.
LEMMA SoundIsSure ==
    /\ \A n \in Top : Sound(<<n>>) => Sure(n, odd)
    /\ \A d \in Top, n \in Inner : Sound(<<d, n>>) => Sure(d, odd)
<1>1. ASSUME NEW k, NEW n \in Top, k[1] = n, Sound(k) PROVE Sure(n, odd)
  BY <1>1, Tops DEF Sound, Sure
<1> QED
  BY <1>1, Tops, Inners

LEMMA TopShows ==
    ASSUME NamesInv, NEW n \in Top, Sound(<<n>>)
    PROVE  LET is   == Resolve(cache, <<n>>).is
               dirs == Alike(ListOf(Parent(<<n>>), bucket).dirs, Name(<<n>>)) \ {Name(<<n>>)}
           IN  /\ Present(<<n>>, bucket) /\ dirs = {} => is # Absent /\ is.real = <<n>>
               /\ ~Present(<<n>>, bucket) => is = Absent \/ is.real # <<n>>
<1> DEFINE is == Resolve(cache, <<n>>).is
<1>1. bucket \in SUBSET Objects /\ Parent(<<n>>) = Root /\ Name(<<n>>) = n
  BY Tops DEF NamesInv, Typed
<1>2. is \in TopFound(n) \cup {Absent} /\ TopRight(is, n, bucket)
  BY ResolveTop, SoundIsSure DEF NamesInv, Typed, CacheInv
<1>3. None \notin Found /\ None # Absent
  BY NothingAssumption
<1> HIDE DEF is
<1>4. is # None
  BY <1>2, <1>3 DEF TopFound
<1>5. ASSUME Alike(ListOf(Root, bucket).dirs, n) \ {n} = {}
      PROVE  \A m \in Top : Fold(m) = Fold(n) /\ IsDir(<<m>>, bucket) => m = n
  BY <1>1, <1>5, ListHas DEF Alike
<1>6. Present(<<n>>, bucket) => IsDir(<<n>>, bucket) \/ <<n>> \in bucket
  BY DEF Present
<1>7. Present(<<n>>, bucket) => is # Absent
  BY <1>2, <1>6 DEF TopRight
<1> QED
  BY <1>1, <1>2, <1>4, <1>5, <1>7 DEF TopRight, is

LEMMA InnerShows ==
    ASSUME NamesInv, NEW d \in Top, NEW n \in Inner, Sound(<<d, n>>)
    PROVE  LET is == Resolve(cache, <<d, n>>).is
           IN  /\ Present(<<d, n>>, bucket) => is # Absent /\ is.real = <<d, n>>
               /\ ~Present(<<d, n>>, bucket) => is = Absent \/ is.real # <<d, n>>
<1> DEFINE is == Resolve(cache, <<d, n>>).is
<1>1. bucket \in SUBSET Objects /\ (Present(<<d, n>>, bucket) <=> <<d, n>> \in bucket)
  BY Inners DEF NamesInv, Typed, Present
<1>2. is \in InnerFound(d, n) \cup {Absent} /\ InnerRight(is, d, n, bucket)
  BY ResolveInner, SoundIsSure DEF NamesInv, Typed, CacheInv
<1>3. None \notin Found /\ None # Absent
  BY NothingAssumption
<1> HIDE DEF is
<1>4. is # None
  BY <1>2, <1>3 DEF InnerFound
<1>5. <<d, n>> \in bucket => is # Absent
  <2>1. <<d, n>> \in bucket => Leads(d, d, bucket)
    BY <1>1, DirIs DEF Leads
  <2> QED
    BY <1>2, <2>1 DEF InnerRight
<1> QED
  BY <1>1, <1>2, <1>4, <1>5 DEF InnerRight, is

LEMMA InvTyped == NamesInv => TypeOK
BY DEF NamesInv, Typed, Scans, CacheInv, Fit, TypeOK

LEMMA InvShows == NamesInv => OwnWorkShows
<1> SUFFICES ASSUME NamesInv PROVE OwnWorkShows
  OBVIOUS
<1> DEFINE Shows(k) ==
          LET is   == Resolve(cache, k).is
              dirs == Alike(ListOf(Parent(k), bucket).dirs, Name(k)) \ {Name(k)}
          IN  /\ Present(k, bucket) /\ dirs = {} => is # Absent /\ is.real = k
              /\ ~Present(k, bucket) => is = Absent \/ is.real # k
<1>1. ASSUME NEW n \in Top, Sound(<<n>>) PROVE Shows(<<n>>)
  BY <1>1, TopShows
<1>2. ASSUME NEW d \in Top, NEW n \in Inner, Sound(<<d, n>>) PROVE Shows(<<d, n>>)
  BY <1>2, InnerShows, Zenon
<1>3. \A k \in Paths : Sound(k) => Shows(k)
  <2> HIDE DEF Shows
  <2> QED
    BY <1>1, <1>2, PathCases
<1> QED
  BY <1>3, InvTyped, Zenon DEF OwnWorkShows

LEMMA InvWhole == NamesInv => EnumerationIsWhole
BY DEF NamesInv, ScanInv, EnumerationIsWhole

\* What this machine did to a name shows under that name at once (resolve, invalidate_parent).
THEOREM NamesShow == Spec => []OwnWorkShows
<1>1. NamesInv => OwnWorkShows
  BY InvShows
<1> QED
  BY <1>1, AlwaysNamesInv, PTL

\* An enumeration that ends has listed what was there all the time, and nothing twice
\* (read_directory).
THEOREM ListingsWhole == Spec => []EnumerationIsWhole
<1>1. NamesInv => EnumerationIsWhole
  BY InvWhole
<1> QED
  BY <1>1, AlwaysNamesInv, PTL

-----------------------------------------------------------------------------
(* What a step creates *)

NewDirs == IF bucket \subseteq bucket' /\ pending' = pending
           THEN {k \in Paths : Append(k, Keep) \in bucket' \ bucket} ELSE {}

\* There is nothing of that name, whatever its case, and its directory exists as it is written.
IsNew(k) ==
    /\ IsDir(Parent(k), bucket)
    /\ LET list == ListOf(Parent(k), bucket)
       IN  Alike(list.dirs \cup list.files, Name(k)) = {}

AllNew ==
    \A k \in NewDirs \cup (pending' \ pending) : Sound(k) /\ Sound(k)' =>
       IsNew(k) \/ \E asked \in Paths : CreateBlind(asked)

\* Only a directory can get a marker.
LEMMA MarkerIs == \A k \in Paths : Append(k, Keep) \in Objects => \E d \in Top : k = <<d>>
<1> SUFFICES ASSUME NEW d \in Top, NEW n \in Inner, Append(<<d, n>>, Keep) \in Objects PROVE FALSE
  BY PathCases
<1>1. <<d, n>> \in Seq(Names \cup {Keep}) /\ Keep \in Names \cup {Keep}
  BY DEF Names
<1>2. Len(Append(<<d, n>>, Keep)) = 3
  BY <1>1
<1>3. \A o \in Objects : Len(o) # 3
  BY PathCases, Tops, Inners
<1> QED
  BY <1>2, <1>3, Zenon

LEMMA NoneNew ==
    ASSUME NamesInv, bucket' \subseteq bucket \/ ~(bucket \subseteq bucket') \/ pending' # pending,
           pending' \subseteq pending
    PROVE  AllNew
BY DEF AllNew, NewDirs

LEMMA TopIsNew ==
    ASSUME bucket \in SUBSET Objects, NEW n \in Top, TopRight(Absent, n, bucket)
    PROVE  IsNew(<<n>>)
<1>1. Parent(<<n>>) = Root /\ Name(<<n>>) = n /\ IsDir(Root, bucket)
  BY Tops DEF IsDir
<1>2. \A m \in Top : Fold(m) = Fold(n) => ~IsDir(<<m>>, bucket) /\ <<m>> \notin bucket
  BY DEF TopRight
<1>3. /\ ListOf(Root, bucket).dirs = {m \in Top : IsDir(<<m>>, bucket)}
      /\ ListOf(Root, bucket).files = {m \in Top : <<m>> \in bucket}
  BY ListOfIs
<1> QED
  BY <1>1, <1>2, <1>3 DEF IsNew, Alike

LEMMA InnerIsNew ==
    ASSUME bucket \in SUBSET Objects, NEW d \in Top, NEW a \in Top, NEW n \in Inner,
           Leads(d, a, bucket), InnerRight(Absent, d, n, bucket)
    PROVE  IsNew(<<a, n>>)
<1>1. Parent(<<a, n>>) = <<a>> /\ Name(<<a, n>>) = n
  BY Inners, Zenon
<1>2. IsDir(<<a>>, bucket) /\ \A m \in Inner : Fold(m) = Fold(n) => <<a, m>> \notin bucket
  BY DEF InnerRight, Leads
<1>3. /\ ListOf(<<a>>, bucket).dirs = {}
      /\ ListOf(<<a>>, bucket).files = {m \in Inner : <<a, m>> \in bucket}
  BY ListOfIs
<1> QED
  BY <1>1, <1>2, <1>3 DEF IsNew, Alike

LEMMA CreateDirIsNew ==
    ASSUME NamesInv, NEW k \in Paths, CreateDir(k)
    PROVE  AllNew
<1>1. /\ Len(k) = 1 /\ Resolve(cache, k).is = Absent
      /\ bucket' = bucket \cup {Append(k, Keep)} /\ UNCHANGED pending
  BY DEF CreateDir, Change
<1>2. PICK n \in Top : k = <<n>>
  BY <1>1, PathCases, Inners
<1>3. NewDirs \cup (pending' \ pending) \subseteq {k}
  <2>1. ASSUME NEW p \in Paths, Append(p, Keep) = Append(k, Keep), Append(p, Keep) \in Objects
        PROVE  p = k
    <3>1. PICK d \in Top : p = <<d>>
      BY <2>1, MarkerIs
    <3>2. <<d, Keep>> = <<n, Keep>>
      BY <1>2, <2>1, <3>1, Inners
    <3>3. <<d, Keep>>[1] = d /\ <<n, Keep>>[1] = n
      OBVIOUS
    <3> QED
      BY <1>2, <3>1, <3>2, <3>3
  <2>2. Append(k, Keep) \in Objects
    <3>1. Append(<<n>>, Keep) = <<n, Keep>> /\ Keep \in Inner \cup {Keep}
      BY Inners
    <3>2. <<n, Keep>> \in Objects
      BY <3>1, Inners, Zenon
    <3> QED
      BY <1>2, <3>1, <3>2
  <2> QED
    BY <1>1, <2>1, <2>2 DEF NewDirs
<1>4. Sound(k) => TopRight(Absent, n, bucket)
  BY <1>1, <1>2, SoundIsSure, ResolveTop DEF NamesInv, Typed, CacheInv
<1>5. Sound(k) => IsNew(k)
  BY <1>2, <1>4, TopIsNew DEF NamesInv, Typed
<1> QED
  BY <1>3, <1>5 DEF AllNew

LEMMA CreateFileIsNew ==
    ASSUME NamesInv, NEW k \in Paths, CreateFile(k)
    PROVE  AllNew
<1>1. PICK key \in Paths :
         /\ pending' = pending \cup {key} /\ UNCHANGED bucket
         /\ \/ \E n \in Top : /\ key = <<n>>
                              /\ Sure(n, odd) => TopRight(Absent, n, bucket)
            \/ \E d \in Top, a \in Top, n \in Inner :
                  /\ key = <<a, n>> /\ Fold(a) = Fold(d)
                  /\ Sure(d, odd) => Leads(d, a, bucket) /\ InnerRight(Absent, d, n, bucket)
  BY CreateFileIs DEF NamesInv
<1>2. NewDirs \cup (pending' \ pending) \subseteq {key}
  BY <1>1 DEF NewDirs
<1>3. ASSUME NEW n \in Top, key = <<n>>, Sure(n, odd) => TopRight(Absent, n, bucket), Sound(key)
      PROVE  IsNew(key)
  BY <1>3, SoundIsSure, TopIsNew DEF NamesInv, Typed
<1>4. ASSUME NEW d \in Top, NEW a \in Top, NEW n \in Inner, key = <<a, n>>, Fold(a) = Fold(d),
             Sure(d, odd) => Leads(d, a, bucket) /\ InnerRight(Absent, d, n, bucket), Sound(key)
      PROVE  IsNew(key)
  <2>1. Sure(d, odd)
    BY <1>4, SoundIsSure DEF Sure
  <2> QED
    BY <1>4, <2>1, InnerIsNew DEF NamesInv, Typed
<1>5. Sound(key) => IsNew(key)
  BY <1>1, <1>3, <1>4
<1> QED
  BY <1>2, <1>5 DEF AllNew

LEMMA RenameIsNew ==
    ASSUME NamesInv, NEW k \in Paths, NEW n \in IF Len(k) = 1 THEN Top ELSE Inner, Rename(k, n)
    PROVE  AllNew
<1>1. PICK from, to, B, W :
         /\ from \in Paths /\ to \in Paths
         /\ UNCHANGED pending /\ Change(B, W)
         /\ DirMoves(from, to, B, W) \/ FileMoves(from, to, B, W)
  BY RenameIs DEF NamesInv
<1>2. bucket' = B
  BY <1>1 DEF Change
<1>3. CASE FileMoves(from, to, B, W)
  <2>1. from # to /\ from \in bucket /\ B = (bucket \ {from}) \cup {to}
    BY <1>3, Inners DEF FileMoves
  <2> QED
    BY <1>1, <1>2, <2>1, NoneNew
<1>4. CASE DirMoves(from, to, B, W)
  <2>1. PICK a \in Top, b \in Top :
           /\ a # b
           /\ B = (bucket \ Under(<<a>>)) \cup {Moved(o, <<a>>, <<b>>) : o \in bucket \cap Under(<<a>>)}
    BY <1>4 DEF DirMoves
  <2>2. \A o \in bucket \cap Under(<<a>>) :
           \E m \in Inner \cup {Keep} : o = <<a, m>> /\ Moved(o, <<a>>, <<b>>) = <<b, m>>
    <3> TAKE o \in bucket \cap Under(<<a>>)
    <3>1. PICK d \in Top, m \in Inner \cup {Keep} : o = <<d, m>>
      BY PathCases, UnderIs DEF NamesInv, Typed
    <3>2. d = a
      BY <3>1, UnderIs
    <3> QED
      BY <3>1, <3>2, MovedIs
  <2>3. CASE bucket \cap Under(<<a>>) = {}
    BY <1>1, <1>2, <2>1, <2>3, NoneNew
  <2>4. ASSUME NEW o \in bucket \cap Under(<<a>>) PROVE o \notin B
    <3>1. PICK m : o = <<a, m>>
      BY <2>2
    <3>2. \A x : <<b, x>> # <<a, m>>
      BY <2>1, Inners
    <3>3. \A p \in bucket \cap Under(<<a>>) : Moved(p, <<a>>, <<b>>) # o
      <4> TAKE p \in bucket \cap Under(<<a>>)
      <4>1. PICK x : Moved(p, <<a>>, <<b>>) = <<b, x>>
        BY <2>2
      <4> QED
        BY <3>1, <3>2, <4>1
    <3> QED
      BY <2>1, <3>3
  <2> QED
    BY <1>1, <1>2, <2>3, <2>4, NoneNew
<1> QED
  BY <1>1, <1>3, <1>4

LEMMA RemoteIsNot ==
    ASSUME NamesInv, NEW o \in Objects, RemoteChange(o)
    PROVE  AllNew
<1>1. /\ UNCHANGED pending /\ Parent(o) \in odd'
      /\ bucket' \subseteq bucket \cup {o}
  BY DEF RemoteChange, Change
<1>2. ASSUME NEW k \in NewDirs, Sound(k)' PROVE FALSE
  <2>1. k \in Paths /\ Append(k, Keep) = o
    BY <1>1, <1>2 DEF NewDirs
  <2>2. PICK d \in Top : k = <<d>>
    BY <2>1, MarkerIs
  <2>3. o = <<d, Keep>> /\ Parent(<<d, Keep>>) = <<d>>
    BY <2>1, <2>2, Inners
  <2> QED
    BY <1>1, <1>2, <2>2, <2>3, Tops DEF Sound
<1> QED
  BY <1>1, <1>2 DEF AllNew

LEMMA StepIsNew ==
    ASSUME NamesInv, [Next]_vars
    PROVE  AllNew
<1>1. ASSUME UNCHANGED bucket, pending' \subseteq pending PROVE AllNew
  BY <1>1, NoneNew
<1>2. CASE UNCHANGED vars
  BY <1>1, <1>2 DEF vars
<1>3. ASSUME NEW k \in Paths,
             \/ Lookup(k) \/ LookupFails(k) \/ CreateDir(k) \/ CreateFile(k) \/ CreateBlind(k)
             \/ Close(k) \/ CloseFails(k) \/ DeleteFile(k) \/ RemoveDir(k)
             \/ \E n \in IF Len(k) = 1 THEN Top ELSE Inner : Rename(k, n)
      PROVE  AllNew
  <2>1. CASE Lookup(k) \/ LookupFails(k)
    BY <1>1, <2>1 DEF Lookup, LookupFails, Same
  <2>2. CASE CreateBlind(k)
    BY <2>2 DEF AllNew
  <2>3. CASE Close(k)
    BY <2>3, NoneNew DEF Close
  <2>4. CASE CloseFails(k)
    BY <1>1, <2>4 DEF CloseFails, Same
  <2>5. CASE DeleteFile(k)
    <3>1. bucket' \subseteq bucket /\ UNCHANGED pending
      BY <2>5 DEF DeleteFile, Change
    <3> QED
      BY <3>1, NoneNew
  <2>6. CASE RemoveDir(k)
    <3>1. bucket' \subseteq bucket /\ UNCHANGED pending
      BY <2>6 DEF RemoveDir, Change
    <3> QED
      BY <3>1, NoneNew
  <2> QED
    BY <1>3, <2>1, <2>2, <2>3, <2>4, <2>5, <2>6, CreateDirIsNew, CreateFileIsNew, RenameIsNew
<1>4. ASSUME NEW k \in Paths, MetaExpires(k) PROVE AllNew
  BY <1>1, <1>4 DEF MetaExpires, Same
<1>5. ASSUME NEW d \in Dirs, ScanStart(d) \/ ListingExpires(d) PROVE AllNew
  BY <1>1, <1>5 DEF ScanStart, ListingExpires, Same
<1>6. ASSUME NEW o \in Objects, RemoteChange(o) PROVE AllNew
  BY <1>6, RemoteIsNot
<1>7. CASE ScanPage \/ ScanFails \/ ScanStops
  BY <1>1, <1>7 DEF ScanPage, ScanFails, ScanStops
<1>8. CASE Restart
  BY <1>1, <1>8 DEF Restart
<1> QED
  BY <1>2, <1>3, <1>4, <1>5, <1>6, <1>7, <1>8 DEF Next

\* Nothing is created next to a name that differs in case only, nor in a directory that does
\* not exist as it is written (create).
THEOREM NothingTwice == Spec => CreatedIsNew
<1>1. ASSUME NamesInv, [Next]_vars
      PROVE  LET dirs == IF bucket \subseteq bucket' /\ pending' = pending
                         THEN {k \in Paths : Append(k, Keep) \in bucket' \ bucket} ELSE {}
             IN  \A k \in dirs \cup (pending' \ pending) : Sound(k) /\ Sound(k)' =>
                    LET list == ListOf(Parent(k), bucket)
                    IN  \/ /\ IsDir(Parent(k), bucket)
                           /\ Alike(list.dirs \cup list.files, Name(k)) = {}
                        \/ \E asked \in Paths : CreateBlind(asked)
  BY <1>1, StepIsNew, Zenon DEF AllNew, NewDirs, IsNew
<1> QED
  BY <1>1, AlwaysNamesInv, PTL DEF Spec, CreatedIsNew
=============================================================================
