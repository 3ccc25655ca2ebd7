------------------------------- MODULE FileLock -------------------------------
(***************************************************************************)
(* The advisory lock of one file across machines (file_lock.rs), as        *)
(* S3Fs::open, create, close and rename use it: a set of keys open for     *)
(* writing on each mount, and one sentinel object in the bucket that names *)
(* a machine and a time of expiry.                                         *)
(*                                                                         *)
(* Each request to the bucket is atomic; a check and the acquire that      *)
(* follows it are two requests.  Time is what remains of a sentinel's TTL, *)
(* on clocks that agree.  A sentinel that is absent, expired or unreadable *)
(* is NoLock: check() answers Free, or an error its callers treat alike.   *)
(***************************************************************************)
EXTENDS Integers, FiniteSets

CONSTANTS
    Machines,
    Handles,        \* calls and file handles; each is used again and again
    MachineOf,      \* MachineOf[h]: the machine h runs on
    TTL,            \* LOCK_TTL_SECS
    Editors,        \* applications with lockfiles of their own are at work
    MayFail,        \* requests for the sentinel may fail
    MayBreak,       \* an administrator may call break_file_lock
    NoLock          \* no sentinel that is in force

ASSUME LockAssumption ==
    /\ MachineOf \in [Handles -> Machines]
    /\ TTL \in Nat \ {0}
    /\ {Editors, MayFail, MayBreak} \subseteq BOOLEAN
    /\ NoLock \notin [machine : Machines, left : 1..TTL]

VARIABLES
    sentinel,   \* the sentinel object
    writers,    \* machines whose local_writers holds the key
    pc,         \* where each call or handle is
    lease,      \* what remains of the TTL each handle acquired
    lockfile,   \* an object in the bucket has the name of a lockfile of the file
    rivals,     \* history: handles of other machines a call found open
    guarded     \* history: nothing yet that the protocol does not guard against

lockVars == <<sentinel, writers, pc, lease, lockfile, rivals, guarded>>

Ours(h) == MachineOf[h]
Rest(h) == {g \in Handles : MachineOf[g] # Ours(h)}

\* Handles of other machines that are open under a sentinel in force.
OpenElsewhere(h) == {g \in Rest(h) : pc[g] = "held" /\ lease[g] > 0}

\* Lockfiles of editors on other machines.
EditedElsewhere(h) == {g \in Rest(h) : pc[g] = "editing"}

\* No call of another machine is between its requests.
Alone(h) == \A g \in Rest(h) : pc[g] \in {"idle", "held", "editing"}

\* A handle of h's own machine has given up the claim and not yet the sentinel.
HandingOver(h) == \E g \in Handles : MachineOf[g] = Ours(h) /\ pc[g] = "release"

\* The handles in S no longer stand in anybody's way.
Forget(S) == rivals' = [h \in Handles |-> rivals[h] \ S]

LockInit ==
    /\ sentinel = NoLock
    /\ writers = {}
    /\ pc = [h \in Handles |-> "idle"]
    /\ lease = [h \in Handles |-> 0]
    /\ lockfile \in {FALSE, Editors}
    /\ rivals = [h \in Handles |-> {}]
    /\ guarded = TRUE

\* The protocol guards against what happens next only if P.
Guarded(P) == guarded' = (guarded /\ P)

-----------------------------------------------------------------------------
(* check, acquire and release *)

\* Mutant of Foreign: the owner of the sentinel is not looked at.
ForeignToNobody(h) == FALSE

\* check() answers Foreign.
Foreign(h) == sentinel # NoLock /\ sentinel.machine # Ours(h)

\* acquire() puts a sentinel over whatever is there.
Acquired(h) == sentinel' = [machine |-> Ours(h), left |-> TTL]

-----------------------------------------------------------------------------
(* open() for writing, and create() *)

\* The key goes into local_writers before the bucket is asked.
Claim(h) ==
    /\ pc[h] = "idle"
    /\ Ours(h) \notin writers
    /\ writers' = writers \cup {Ours(h)}
    /\ pc' = [pc EXCEPT ![h] = "check"]
    /\ rivals' = [rivals EXCEPT ![h] = OpenElsewhere(h)]
    /\ Guarded(Alone(h) /\ ~HandingOver(h))
    /\ UNCHANGED <<sentinel, lease, lockfile>>

\* A check that fails counts as Free.
CheckFree(h) ==
    /\ pc[h] = "check"
    /\ ~Foreign(h) \/ MayFail
    /\ pc' = [pc EXCEPT ![h] = "acquire"]
    /\ Guarded(~Foreign(h))
    /\ UNCHANGED <<sentinel, writers, lease, rivals, lockfile>>

\* Mutant of CheckForeign: the claim is not taken back.
CheckForeignKeepsClaim(h) ==
    /\ pc[h] = "check"
    /\ Foreign(h)
    /\ pc' = [pc EXCEPT ![h] = "idle"]
    /\ rivals' = [rivals EXCEPT ![h] = {}]
    /\ UNCHANGED <<sentinel, writers, lease, guarded, lockfile>>

\* Mutant of CheckForeign: a refused call releases as a close does.
CheckForeignReleases(h) ==
    /\ pc[h] = "check"
    /\ Foreign(h)
    /\ writers' = writers \ {Ours(h)}
    /\ pc' = [pc EXCEPT ![h] = "release"]
    /\ rivals' = [rivals EXCEPT ![h] = {}]
    /\ UNCHANGED <<sentinel, lease, guarded, lockfile>>

\* STATUS_SHARING_VIOLATION, after the claim is taken back.
CheckForeign(h) ==
    /\ pc[h] = "check"
    /\ Foreign(h)
    /\ writers' = writers \ {Ours(h)}
    /\ pc' = [pc EXCEPT ![h] = "idle"]
    /\ rivals' = [rivals EXCEPT ![h] = {}]
    /\ UNCHANGED <<sentinel, lease, guarded, lockfile>>

\* The handle is granted whether or not the put succeeds.
Acquire(h) ==
    /\ pc[h] = "acquire"
    /\ \/ Acquired(h) /\ lease' = [lease EXCEPT ![h] = TTL] /\ Guarded(TRUE)
       \/ MayFail /\ UNCHANGED <<sentinel, lease>> /\ Guarded(FALSE)
    /\ pc' = [pc EXCEPT ![h] = "held"]
    /\ UNCHANGED <<writers, rivals, lockfile>>

-----------------------------------------------------------------------------
(* close() *)

\* The key leaves local_writers before the sentinel leaves the bucket.
CloseLocal(h) ==
    /\ pc[h] = "held"
    /\ writers' = writers \ {Ours(h)}
    /\ pc' = [pc EXCEPT ![h] = "release"]
    /\ Forget({h})
    /\ UNCHANGED <<sentinel, lease, guarded, lockfile>>

\* release() deletes the object whoever put it there.
Release(h) ==
    /\ pc[h] = "release"
    /\ \/ sentinel' = NoLock
       \/ MayFail /\ UNCHANGED sentinel
    /\ pc' = [pc EXCEPT ![h] = "idle"]
    /\ lease' = [lease EXCEPT ![h] = 0]
    /\ rivals' = [rivals EXCEPT ![h] = {}]
    /\ UNCHANGED <<writers, guarded, lockfile>>

-----------------------------------------------------------------------------
(* rename() over the file *)

RenameStart(h) ==
    /\ pc[h] = "idle"
    /\ pc' = [pc EXCEPT ![h] = "renCheck"]
    /\ rivals' = [rivals EXCEPT ![h] = OpenElsewhere(h) \cup EditedElsewhere(h)]
    /\ Guarded(Alone(h))
    /\ UNCHANGED <<sentinel, writers, lease, lockfile>>

\* Free, or the check failed: the destination itself is overwritten.
RenameProceeds(h) ==
    /\ pc[h] = "renCheck"
    /\ ~Foreign(h) \/ MayFail
    /\ pc' = [pc EXCEPT ![h] = "renCopy"]
    /\ Guarded(~Foreign(h))
    /\ UNCHANGED <<sentinel, writers, lease, rivals, lockfile>>

\* A confirmed foreign lock: the copy goes to a conflict name.
RenameDiverts(h) ==
    /\ pc[h] = "renCheck"
    /\ Foreign(h)
    /\ pc' = [pc EXCEPT ![h] = "idle"]
    /\ rivals' = [rivals EXCEPT ![h] = {}]
    /\ UNCHANGED <<sentinel, writers, lease, guarded, lockfile>>

RenameCopy(h) ==
    /\ pc[h] = "renCopy"
    /\ pc' = [pc EXCEPT ![h] = "idle"]
    /\ rivals' = [rivals EXCEPT ![h] = {}]
    /\ UNCHANGED <<sentinel, writers, lease, guarded, lockfile>>

-----------------------------------------------------------------------------
(* Lockfiles of applications, such as ~$Report.docx, and objects that happen to have *)
(* such a name, such as Report.docx.lock                                             *)

\* create() announces the lockfile and stops there: no sentinel for its target.
LockfileCreated(h) ==
    /\ Editors
    /\ pc[h] = "idle"
    /\ pc' = [pc EXCEPT ![h] = "editing"]
    /\ Guarded(FALSE)
    /\ UNCHANGED <<sentinel, writers, lease, lockfile, rivals>>

\* The lockfile is uploaded when the editor has written it.
LockfileStored(h) ==
    /\ pc[h] = "editing"
    /\ lockfile' = TRUE
    /\ UNCHANGED <<sentinel, writers, pc, lease, rivals, guarded>>

\* open() of a lockfile, by its owner or by anyone who looks at it, acquires its
\* target's sentinel without a check; nothing releases it.  Whether its owner is still
\* at work, or ever was, does not matter.
LockfileOpened(h) ==
    /\ lockfile
    /\ pc[h] \in {"idle", "editing"}
    /\ Acquired(h)
    /\ Guarded(FALSE)
    /\ UNCHANGED <<writers, pc, lease, lockfile, rivals>>

\* The editor removes its lockfile, or fails to.
LockfileClosed(h) ==
    /\ pc[h] = "editing"
    /\ pc' = [pc EXCEPT ![h] = "idle"]
    /\ lockfile' \in {lockfile, FALSE}
    /\ Forget({h})
    /\ UNCHANGED <<sentinel, writers, lease, guarded>>

\* Anybody tidies up.
LockfileRemoved ==
    /\ lockfile
    /\ lockfile' = FALSE
    /\ UNCHANGED <<sentinel, writers, pc, lease, rivals, guarded>>

-----------------------------------------------------------------------------
(* Time, crashes, administrators *)

\* Mutant of Aged: a sentinel is never found expired.
AgedNever(s) == [s EXCEPT !.left = IF @ = 1 THEN 1 ELSE @ - 1]

\* The sentinel s one unit of time later: expires_at <= now is Free.
Aged(s) == IF s.left = 1 THEN NoLock ELSE [s EXCEPT !.left = @ - 1]

\* One unit of time; a handle, or its close, may outlive the lease.
Tick ==
    /\ sentinel' = IF sentinel = NoLock THEN NoLock ELSE Aged(sentinel)
    /\ lease' = [h \in Handles |-> IF lease[h] = 0 THEN 0 ELSE lease[h] - 1]
    /\ Forget({h \in Handles : lease[h] = 1 /\ pc[h] # "editing"})
    /\ Guarded(\A h \in Handles : pc[h] \in {"held", "release"} => lease[h] # 1)
    /\ UNCHANGED <<writers, pc, lockfile>>

\* The mount of a machine dies, its handles and local_writers with it; sentinel and
\* lockfile stay in the bucket.
Crash(m) ==
    /\ LET gone == {h \in Handles : MachineOf[h] = m}
       IN  /\ pc' = [h \in Handles |-> IF h \in gone THEN "idle" ELSE pc[h]]
           /\ lease' = [h \in Handles |-> IF h \in gone THEN 0 ELSE lease[h]]
           /\ rivals' = [h \in Handles |-> IF h \in gone THEN {} ELSE rivals[h] \ gone]
    /\ writers' = writers \ {m}
    /\ UNCHANGED <<sentinel, guarded, lockfile>>

Break ==
    /\ MayBreak
    /\ sentinel' = NoLock
    /\ Guarded(FALSE)
    /\ UNCHANGED <<writers, pc, lease, rivals, lockfile>>

-----------------------------------------------------------------------------
Step(h) ==
    \/ Claim(h) \/ CheckFree(h) \/ CheckForeign(h) \/ Acquire(h)
    \/ CloseLocal(h) \/ Release(h)
    \/ RenameStart(h) \/ RenameProceeds(h) \/ RenameDiverts(h) \/ RenameCopy(h)
    \/ LockfileCreated(h) \/ LockfileStored(h) \/ LockfileOpened(h) \/ LockfileClosed(h)

LockNext ==
    \/ \E h \in Handles : Step(h)
    \/ Tick
    \/ \E m \in Machines : Crash(m)
    \/ LockfileRemoved
    \/ Break

LockSpec == LockInit /\ [][LockNext]_lockVars

\* Calls in progress go on, handles are closed in the end, and time passes.
LockFairSpec ==
    /\ LockSpec
    /\ WF_lockVars(Tick)
    /\ \A h \in Handles :
          /\ WF_lockVars(CheckFree(h) \/ CheckForeign(h))
          /\ WF_lockVars(Acquire(h))
          /\ WF_lockVars(CloseLocal(h))
          /\ WF_lockVars(Release(h))

-----------------------------------------------------------------------------
(* Properties *)

LockTypeOK ==
    /\ sentinel \in {NoLock} \cup [machine : Machines, left : 1..TTL]
    /\ writers \subseteq Machines
    /\ pc \in [Handles -> {"idle", "check", "acquire", "held", "release",
                           "renCheck", "renCopy", "editing"}]
    /\ lease \in [Handles -> 0..TTL]
    /\ lockfile \in BOOLEAN
    /\ rivals \in [Handles -> SUBSET Handles]
    /\ guarded \in BOOLEAN

\* Every variable has its type, and local_writers holds the key exactly while one
\* call or handle of the machine is between its claim and its close: no refusal,
\* failed request or crash leaks the claim, which would lock the file on this machine
\* until the next mount.
ClaimsMatchHandles ==
    /\ LockTypeOK
    /\ \A m \in Machines :
          Cardinality({h \in Handles : MachineOf[h] = m
                                         /\ pc[h] \in {"check", "acquire", "held"}})
              = IF m \in writers THEN 1 ELSE 0

\* "Subsequent writer-opens from other machines ... are rejected" (file_lock.rs): one
\* that starts while a handle of another machine is open, under a sentinel that has
\* not expired, is refused; a rename that starts then does not overwrite the file.
OpenElsewhereRefused ==
    \A h \in Handles : pc[h] \in {"acquire", "held", "renCopy"} => rivals[h] = {}

\* So it is, after any number of opens, refusals, closes, renames and crashes of
\* every machine, as long as no two of their calls overlapped, no request failed and
\* no handle outlived its lease.
LaterWriterRefused == guarded => OpenElsewhereRefused

\* As long as that is so, while a handle is open its own machine's sentinel stands in
\* the bucket, so that the check of any later opener sees it: no other machine's
\* open, refusal or close replaces it or takes it away.
SentinelStands ==
    guarded => \A h \in Handles : pc[h] = "held"
                   => sentinel # NoLock /\ sentinel.machine = Ours(h)

\* A machine that crashes with the file locked does not lock it for ever: every
\* sentinel that is in force is gone, or taken over by a new opener, in the end, unless
\* that machine opens a lockfile of the file again and again, as it may long after the
\* editor it is of has crashed.
CrashedLockExpires ==
    \A m \in Machines :
        <>[][\A h \in Handles : MachineOf[h] = m => ~LockfileOpened(h)]_lockVars =>
          (sentinel # NoLock /\ sentinel.machine = m /\ m \notin writers
             ~> sentinel = NoLock \/ sentinel.machine # m \/ m \in writers)
=============================================================================
