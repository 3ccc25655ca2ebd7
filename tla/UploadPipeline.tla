--------------------------- MODULE UploadPipeline ---------------------------
(***************************************************************************)
(* The write path of S3Fs (winfsp_vfs.rs): a handle spools its writes to a *)
(* temporary file; parts of PART_TARGET contiguous bytes are uploaded by   *)
(* background tasks while the application still writes, at most            *)
(* UPLOAD_CONCURRENCY of them at once; cleanup uploads the tail, waits for *)
(* the tasks and completes the multipart upload, or puts a small file in   *)
(* one request.                                                            *)
(*                                                                         *)
(* local_writers admits one writing handle per key, so the module follows  *)
(* one key and its successive handles.  The handle's write mutex is held   *)
(* through each call; what interleaves with it are the upload tasks, which *)
(* read the temporary file when they are scheduled, and which outlive the  *)
(* WriteState that started them.                                           *)
(***************************************************************************)
EXTENDS Integers, Sequences, FiniteSets, FiniteSetsExt, SequencesExt

CONSTANTS
    PartTarget,     \* PART_TARGET, in bytes of the model
    Concurrency,    \* UPLOAD_CONCURRENCY
    MaxLen,         \* bound: length of a file
    MaxWrites,      \* bound: write calls; each writes its own number as bytes
    MaxUploads,     \* bound: multipart uploads ever started
    Rewrites,       \* the application may rewrite bytes already dispatched
    MayFail,        \* requests to the store and to the local disk may fail
    MayCrash,       \* the process may die
    Missing,        \* "no such object"
    NoSpool,        \* nothing is being written
    Unread          \* a task that has not read its part of the file yet

Stamps  == 0..MaxWrites
Uploads == 1..MaxUploads
Offsets == 0..MaxLen

ASSUME UploadAssumption ==
    /\ {PartTarget, Concurrency} \subseteq Nat \ {0}
    /\ {MaxLen, MaxWrites, MaxUploads} \subseteq Nat
    /\ {Rewrites, MayFail, MayCrash} \subseteq BOOLEAN
    /\ {Missing, Unread} \cap Seq(Stamps) = {}
    /\ NoSpool \notin [bytes : [1..MaxLen -> Stamps], size : Offsets]

VARIABLES
    object,     \* contents of the object in the bucket
    mpu,        \* the store's multipart uploads: state and parts
    pc,         \* where the call on the handle is
    live,       \* the handle's write field is Some(WriteState)
    temp,       \* WriteState: contents of the temporary file
    size,       \* bytes_written
    extents,    \* extents
    contig,     \* contig_bytes
    upload,     \* upload_id, 0 for None
    sent,       \* dispatched_bytes
    nextPart,   \* next_part_number
    completed,  \* completed_parts
    failed,     \* upload_err is set
    tasks,      \* upload tasks that have not ended
    stamp,      \* write calls so far
    doomed      \* the handle is marked for deletion

ws   == <<temp, size, extents, contig, upload, sent, nextPart, completed, failed>>
vars == <<object, mpu, pc, live, ws, tasks, stamp, doomed>>

-----------------------------------------------------------------------------
(* WriteState *)

\* Mutant of RecordExtent: an extent that merely touches is not absorbed.
RecordOverlapOnly(ext, from, to) ==
    LET near == {x \in ext : x[1] < to /\ x[2] > from}
    IN  (ext \ near) \cup {<<Min({from} \cup {x[1] : x \in near}),
                             Max({to} \cup {x[2] : x \in near})>>}

\* extents, a map from the start of each written range to its end, after [from, to)
\* was written: every range it overlaps or touches is absorbed.
RecordExtent(ext, from, to) ==
    LET near == {x \in ext : x[1] <= to /\ x[2] >= from}
    IN  (ext \ near) \cup {<<Min({from} \cup {x[1] : x \in near}),
                             Max({to} \cup {x[2] : x \in near})>>}

\* contig_bytes, after the same: the end of the range that starts at 0.
Contiguous(ext, old) == Max({old} \cup {x[2] : x \in {y \in ext : y[1] = 0}})

Fill(bytes, off, n, v) ==
    [i \in 1..MaxLen |-> IF off < i /\ i <= off + n THEN v ELSE bytes[i]]

\* A new temporary file and everything else of a WriteState at its start.
Fresh ==
    /\ temp' = [i \in 1..MaxLen |-> 0]
    /\ size' = 0
    /\ extents' = {}
    /\ contig' = 0
    /\ upload' = 0
    /\ sent' = 0
    /\ nextPart' = 1
    /\ completed' = {}
    /\ failed' = FALSE

\* The handle has no WriteState; its fields are kept at their start.
Dropped == Fresh /\ live' = FALSE

\* Tasks that hold a permit of this WriteState's semaphore.
Mine == {t \in tasks : t.upload = upload}

Init ==
    /\ object \in {Missing, <<>>}
    /\ mpu = [u \in Uploads |-> [state |-> "none", parts |-> <<>>]]
    /\ pc = "closed"
    /\ live = FALSE
    /\ temp = [i \in 1..MaxLen |-> 0]
    /\ size = 0
    /\ extents = {}
    /\ contig = 0
    /\ upload = 0
    /\ sent = 0
    /\ nextPart = 1
    /\ completed = {}
    /\ failed = FALSE
    /\ tasks = {}
    /\ stamp = 0
    /\ doomed = FALSE

-----------------------------------------------------------------------------
(* Calls on the handle *)

\* open() hands out a handle without a WriteState, create() one with.
Open ==
    /\ pc = "closed"
    /\ pc' = "open"
    /\ doomed' = FALSE
    /\ UNCHANGED <<object, mpu, live, ws, tasks, stamp>>

Create ==
    /\ pc = "closed"
    /\ object = Missing
    /\ pc' = "open"
    /\ doomed' = FALSE
    /\ live' = TRUE
    /\ Fresh
    /\ UNCHANGED <<object, mpu, tasks, stamp>>

\* overwrite() drops the previous WriteState with its file; the tasks it started
\* and its multipart upload are left to themselves.  Without a new temporary file
\* it fails, and there is no WriteState.
Overwrite ==
    /\ pc = "open"
    /\ live' \in {TRUE, ~MayFail}
    /\ Fresh
    /\ UNCHANGED <<object, mpu, pc, tasks, stamp, doomed>>

Covered(i) == \E x \in extents : x[1] < i /\ i <= x[2]

\* Unless the application may, it does not write again what a part was cut from.
Fits(off, n) ==
    /\ off + n <= MaxLen
    /\ Rewrites \/ \A i \in (off + 1)..(off + n) : i <= sent => ~Covered(i)

Write ==
    /\ pc = "open"
    /\ stamp < MaxWrites
    /\ \E off \in Offsets, n \in 1..MaxLen :
          /\ Fits(off, n)
          /\ temp' = Fill(temp, off, n, stamp + 1)
          /\ size' = Max({size, off + n})
          /\ extents' = RecordExtent(extents, off, off + n)
          /\ contig' = Contiguous(extents', contig)
    /\ stamp' = stamp + 1
    /\ live' = TRUE
    /\ pc' = "dispatch"
    /\ UNCHANGED <<object, mpu, upload, sent, nextPart, completed, failed, tasks, doomed>>

\* seek_write stops early: what it wrote stays in the file, and nothing else of
\* the WriteState learns of it.
WriteFails ==
    /\ MayFail
    /\ pc = "open"
    /\ stamp < MaxWrites
    /\ \E off, n \in Offsets :
          Fits(off, n) /\ temp' = Fill(temp, off, n, stamp + 1)
    /\ stamp' = stamp + 1
    /\ live' = TRUE
    /\ UNCHANGED <<object, mpu, pc, size, extents, contig, upload, sent, nextPart,
                   completed, failed, tasks, doomed>>

SetDelete ==
    /\ pc = "open"
    /\ doomed' = ~doomed
    /\ UNCHANGED <<object, mpu, pc, live, ws, tasks, stamp>>

-----------------------------------------------------------------------------
(* dispatch_ready_parts, from write() and, in the "flush" states, from cleanup *)

Final == pc \in {"flush", "flushLoop"}

\* A failed part is reported once per call, before anything is dispatched: to the
\* application, or to finalize_write, which gives the upload up.
DispatchCheck ==
    /\ pc \in {"dispatch", "flush"}
    /\ pc' = IF failed THEN IF Final THEN "abort" ELSE "open"
             ELSE IF Final THEN "flushLoop" ELSE "loop"
    /\ UNCHANGED <<object, mpu, live, ws, tasks, stamp, doomed>>

\* Mutant of ReadySize: whatever is contiguous goes at once.
ReadyEagerly == IF Final THEN Max({size, contig}) - sent ELSE contig - sent

ReadySize ==
    IF Final THEN Max({size, contig}) - sent
    ELSE IF contig >= sent + PartTarget THEN PartTarget ELSE 0

\* ensure_multipart; cleanup comes here only with an upload already started.
StartMultipart ==
    /\ pc = "loop"
    /\ ReadySize > 0
    /\ upload = 0
    /\ \E u \in Uploads :
          /\ \A v \in Uploads : mpu[v].state = "none" <=> v >= u
          /\ mpu' = [mpu EXCEPT ![u].state = "open"]
          /\ upload' = u
    /\ UNCHANGED <<object, pc, live, temp, size, extents, contig, sent, nextPart,
                   completed, failed, tasks, stamp, doomed>>

StartFails ==
    /\ MayFail
    /\ pc = "loop"
    /\ ReadySize > 0
    /\ upload = 0
    /\ pc' = "open"
    /\ UNCHANGED <<object, mpu, live, ws, tasks, stamp, doomed>>

\* A permit of the semaphore is free: spawn the task.
SpawnPart ==
    /\ pc \in {"loop", "flushLoop"}
    /\ ReadySize > 0
    /\ upload # 0
    /\ Cardinality(Mine) < Concurrency
    /\ tasks' = tasks \cup {[upload |-> upload, part |-> nextPart, off |-> sent,
                             len |-> ReadySize, data |-> Unread]}
    /\ nextPart' = nextPart + 1
    /\ sent' = sent + ReadySize
    /\ UNCHANGED <<object, mpu, pc, live, temp, size, extents, contig, upload,
                   completed, failed, stamp, doomed>>

DispatchDone ==
    /\ pc \in {"loop", "flushLoop"}
    /\ ReadySize = 0
    /\ pc' = IF Final THEN "drain" ELSE "open"
    /\ UNCHANGED <<object, mpu, live, ws, tasks, stamp, doomed>>

-----------------------------------------------------------------------------
(* Upload tasks *)

\* The temporary file the task would open is there.
FileThere(t) == live /\ t.upload = upload /\ pc \notin {"complete", "abort"}

ReadPart(t) ==
    /\ t.data = Unread
    /\ FileThere(t)
    /\ tasks' = (tasks \ {t})
                  \cup {[t EXCEPT !.data = SubSeq(temp, t.off + 1, t.off + t.len)]}
    /\ UNCHANGED <<object, mpu, pc, live, ws, stamp, doomed>>

PartStored(t) ==
    /\ t.data # Unread
    /\ mpu[t.upload].state = "open"
    /\ mpu' = [mpu EXCEPT ![t.upload].parts =
                   [p \in DOMAIN @ \cup {t.part} |-> IF p = t.part THEN t.data ELSE @[p]]]
    /\ completed' = IF t.upload = upload THEN completed \cup {t.part} ELSE completed
    /\ tasks' = tasks \ {t}
    /\ UNCHANGED <<object, pc, live, temp, size, extents, contig, upload, sent,
                   nextPart, failed, stamp, doomed>>

\* Mutant of PartFails: the error is logged and forgotten.
PartFailsQuietly(t) ==
    /\ \/ MayFail
       \/ t.data = Unread /\ ~FileThere(t)
       \/ t.data # Unread /\ mpu[t.upload].state # "open"
    /\ tasks' = tasks \ {t}
    /\ UNCHANGED <<object, mpu, pc, live, ws, stamp, doomed>>

\* The file is gone, the upload is, or the request fails: upload_err is set, which
\* matters only while the WriteState that owns it lives.
PartFails(t) ==
    /\ \/ MayFail
       \/ t.data = Unread /\ ~FileThere(t)
       \/ t.data # Unread /\ mpu[t.upload].state # "open"
    /\ failed' = (failed \/ t.upload = upload)
    /\ tasks' = tasks \ {t}
    /\ UNCHANGED <<object, mpu, pc, live, temp, size, extents, contig, upload, sent,
                   nextPart, completed, stamp, doomed>>

-----------------------------------------------------------------------------
(* cleanup and finalize_write *)

CleanupDiscards ==
    /\ pc = "open"
    /\ doomed
    /\ Dropped
    /\ pc' = "delete"
    /\ UNCHANGED <<object, mpu, tasks, stamp, doomed>>

CleanupIdle ==
    /\ pc = "open"
    /\ ~doomed
    /\ ~live
    /\ pc' = "closed"
    /\ UNCHANGED <<object, mpu, live, ws, tasks, stamp, doomed>>

CleanupFinalizes ==
    /\ pc = "open"
    /\ ~doomed
    /\ live
    /\ pc' = IF upload = 0 THEN "put" ELSE "flush"
    /\ UNCHANGED <<object, mpu, live, ws, tasks, stamp, doomed>>

\* One put_object with the whole file.
SinglePut ==
    /\ pc = "put"
    /\ \/ object' = SubSeq(temp, 1, size)
       \/ MayFail /\ UNCHANGED object
    /\ pc' = "closed"
    /\ Dropped
    /\ UNCHANGED <<mpu, tasks, stamp, doomed>>

\* Mutant of Drained: every part has to be there, a failed one never is.
AllPartsStored == completed = 1..(nextPart - 1)

\* finalize_write gets all permits of the semaphore: no task holds one.
Drained == Mine = {}

Drain ==
    /\ pc = "drain"
    /\ Drained
    /\ pc' = IF failed THEN "abort" ELSE "complete"
    /\ UNCHANGED <<object, mpu, live, ws, tasks, stamp, doomed>>

\* complete_multipart with completed_parts in order of their numbers; the answer
\* may get lost.
Complete ==
    /\ pc = "complete"
    /\ object' = FlattenSeq([p \in 1..(nextPart - 1) |->
                     IF p \in completed THEN mpu[upload].parts[p] ELSE <<>>])
    /\ mpu' = [mpu EXCEPT ![upload].state = "done"]
    /\ \/ pc' = "closed" /\ Dropped
       \/ MayFail /\ pc' = "abort" /\ live' = FALSE /\ UNCHANGED ws
    /\ UNCHANGED <<tasks, stamp, doomed>>

CompleteFails ==
    /\ MayFail
    /\ pc = "complete"
    /\ pc' = "abort"
    /\ UNCHANGED <<object, mpu, live, ws, tasks, stamp, doomed>>

\* abort_multipart, whose own failure is ignored.
Abort ==
    /\ pc = "abort"
    /\ \/ mpu' = [mpu EXCEPT ![upload].state = IF @ = "open" THEN "aborted" ELSE @]
       \/ MayFail /\ UNCHANGED mpu
    /\ pc' = "closed"
    /\ Dropped
    /\ UNCHANGED <<object, tasks, stamp, doomed>>

Delete ==
    /\ pc = "delete"
    /\ \/ object' = Missing
       \/ MayFail /\ UNCHANGED object
    /\ pc' = "closed"
    /\ UNCHANGED <<mpu, live, ws, tasks, stamp, doomed>>

\* The process dies: handle, tasks and semaphore are gone, the store's side stays.
Crash ==
    /\ MayCrash
    /\ pc' = "closed"
    /\ Dropped
    /\ tasks' = {}
    /\ UNCHANGED <<object, mpu, stamp, doomed>>

-----------------------------------------------------------------------------
HandleCall ==
    \/ Open \/ Create \/ Overwrite \/ Write \/ WriteFails \/ SetDelete
    \/ CleanupDiscards \/ CleanupIdle \/ CleanupFinalizes

CallStep ==
    \/ DispatchCheck \/ StartMultipart \/ StartFails \/ SpawnPart \/ DispatchDone
    \/ SinglePut \/ Drain \/ Complete \/ CompleteFails \/ Abort \/ Delete

TaskStep == \E t \in tasks : ReadPart(t) \/ PartStored(t) \/ PartFails(t)

Next == HandleCall \/ CallStep \/ TaskStep \/ Crash

Spec == Init /\ [][Next]_vars

\* The callback's thread and the runtime's workers are scheduled, and each
\* request to the store ends, with an answer or an error.
FairSpec == Spec /\ WF_vars(CallStep) /\ WF_vars(TaskStep)

-----------------------------------------------------------------------------
(* Properties *)

Tasks == [upload : Uploads, part : Nat \ {0}, off : Offsets, len : Offsets,
          data : Seq(Stamps) \cup {Unread}]

TypeOK ==
    /\ object \in Seq(Stamps) \cup {Missing}
    /\ \A u \in Uploads :
          /\ mpu[u].state \in {"none", "open", "done", "aborted"}
          /\ \A p \in DOMAIN mpu[u].parts : mpu[u].parts[p] \in Seq(Stamps)
    /\ pc \in {"closed", "open", "dispatch", "loop", "flush", "flushLoop", "put",
              "drain", "complete", "abort", "delete"}
    /\ live \in BOOLEAN
    /\ temp \in [1..MaxLen -> Stamps]
    /\ size \in Offsets
    /\ extents \subseteq Offsets \X Offsets
    /\ contig \in Offsets
    /\ upload \in {0} \cup Uploads
    /\ sent \in Offsets
    /\ nextPart \in Nat \ {0}
    /\ completed \subseteq 1..(nextPart - 1)
    /\ failed \in BOOLEAN
    /\ tasks \subseteq Tasks
    /\ stamp \in Stamps
    /\ doomed \in BOOLEAN

\* Every variable has its type, extents holds disjoint ranges with gaps between, and
\* contig_bytes is the end of the one at 0 after any sequence of out-of-order writes:
\* nothing is dispatched across a hole while the application still writes.
ExtentsExact ==
    /\ TypeOK
    /\ \A x \in extents : x[1] < x[2] /\ x[2] <= size
    /\ \A x, y \in extents : x # y => x[2] < y[1] \/ y[2] < x[1]
    /\ contig = Max({0} \cup {x[2] : x \in {y \in extents : y[1] = 0}})
    /\ pc \in {"open", "dispatch", "loop"} => sent <= contig

\* S3 refuses a multipart upload with a short part before the last: in whatever
\* order the writes and the tasks come, only the tail cut by cleanup is not exactly
\* PART_TARGET long.
FullParts ==
    pc = "complete" =>
        \A p \in completed :
            p < nextPart - 1 => Len(mpu[upload].parts[p]) = PartTarget

\* What is cut into parts, and how: out-of-order writes of an application lead neither
\* to a hole that is uploaded nor to a short part before the last.
PartsExact == ExtentsExact /\ FullParts

\* Each replacement of the object is by exactly what was written through the handle
\* since it began, in one step, or it does not happen.
Promise == INSTANCE AtomicUpload
               WITH spool <- IF live THEN [bytes |-> temp, size |-> size] ELSE NoSpool
WholeFileOrNothing == Promise!Spec

\* write() and cleanup() come back: with at most UPLOAD_CONCURRENCY permits nobody
\* waits for one for ever.
CallsReturn == pc \notin {"open", "closed"} ~> pc \in {"open", "closed"}
=============================================================================
