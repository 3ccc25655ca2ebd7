# NanoCrew Sync: a formal model

NanoCrew Sync (`src/`) is a Tauri desktop application that mounts S3-compatible
buckets, and other cloud storage, as drive letters of Windows. The file system
is served by WinFsp from threads of the application itself; around it are a
block cache on disk, a write pipeline that uploads in the background, advisory
locks that keep several machines from overwriting each other, listings cached
in memory and on disk, a coordinator that pushes invalidations, and the
commands of the user interface that mount, change and remove drives.

This directory models the parts of that program in which something can happen
in more than one order, checks them with TLC, and proves some of the properties
with TLAPS for every value of the constants.

    tlc -workers 2 -config DiskCacheAll.cfg MCDiskCache.tla        # one run
    tlapm DiskCacheProofs.tla                                      # one module of proofs

`PROJECT.json` lists the runs, the mutants (for each property, a plausible bug
in a modelled definition that the property catches), the lines each definition
translates, the hazards and the findings. Paths below are relative to
`src/apps/desktop/src-tauri/src/`, where all of the Rust code is.

## 1. The system: its components

| component | code | state | operations | what it interacts with |
|---|---|---|---|---|
| Block cache | `cache.rs`, `S3Fs::get_range` | rows of `cache_entries`, block files, the enabled flag and quota, pinned keys | `lookup`, `put_block`, `invalidate_key`, `clear_all`, `evict_if_needed`, `set_enabled`, `set_max_bytes`, pin and unpin, start and stop of the sweeper | reads and prefetches fill it, uploads invalidate it, commands reconfigure it while it is used |
| Upload pipeline | `winfsp_vfs.rs` 230-330, 1480-1780, 2760-2860, 3030-3180 | `WriteState` of a handle: spool file, extents, contiguous bytes, parts sent and done; multipart upload in the store | `write`, `overwrite`, `cleanup`, `dispatch_ready_parts`, the part tasks, `finalize_write` | WinFsp callbacks start tokio tasks that outlive the call and even the handle |
| File locks | `file_lock.rs`, `open`, `create`, `close`, `rename` of `winfsp_vfs.rs`, `commands/locks.rs` | `local_writers` of each mount, a sentinel object per file in the bucket | `check`, `acquire`, `release`, `break_lock`; lockfiles of editors | several machines over one bucket, without compare-and-swap |
| Listing caches | `dir_listing_cache.rs`, `list_dir`, `listing_for`, `resolve`, the background refresh, `mounts.rs` refresh | `list_cache`, `meta_cache`, a JSON file per directory | enumerate, look up, refresh, invalidate (after an upload, a deletion, a push, by command) | WinFsp threads, a refresh task, the coordinator's receiver, commands |
| Drives and mounts | `commands/drives.rs`, `mounts.rs`, `lib.rs`, `credentials.rs`, `commands/system.rs` | the `drives` table, `AppState.mounts`, a thread per mount, status events | add, remove, mount, unmount, change credentials or prefix, factory reset, auto-mount at start, exit | asynchronous commands that lock one thing at a time; a mount takes seconds on a thread of its own |
| Bandwidth limiter | `throttle.rs` | tokens, time of the last refill | `acquire` | all transfers of a drive share it |
| Coordinator client | `coordinator.rs`, the receiver in `winfsp_vfs.rs` | the state of a WebSocket, back-off step, a bounded channel | connect, subscribe, read, back off; `notify` | a server, the settings screen, the listing caches |
| Database | `db.rs` | `nanocrew.db`, its log, quarantined files | open, restore from quarantine, migrate | everything persisted is in it; it has to open, whatever happened before |
| Account, sessions, licence, preferences | `commands/auth.rs`, `auth.rs`, `state.rs`, `license.rs`, `commands/prefs.rs`, `factory_reset` of `commands/system.rs` | the row of `accounts`, `AppState.sessions`, and in `prefs` the remembered session, the start of the trial, the licence, the directory of the cache | create, sign in, restore, sign out, change the password, activate, deactivate, look at the licence, set a preference, reset | every command asks who is signed in; a mount asks for the directory of the cache |
| Enumeration and names | `resolve`, `read_directory`, `open`, `create`, `cleanup`, `rename` of `winfsp_vfs.rs`, `list_dir_stream` of `providers/s3.rs` | the three caches by path, the case asked for included; the marker of a page | look up, create, close, delete, rename; list page by page | listing caches, uploads, other machines |
| Rename and delete | `rename`, `cleanup` of `winfsp_vfs.rs`, `rename_object`, `create_folder` of `commands/drives.rs`, `providers/s3.rs` | objects in the bucket | copy then delete, of a file or a tree, page by page | locks, listing caches |
| Cloud providers | `providers/*.rs` | sessions, tokens, pools | get, put, list, multipart of each provider | used by mounts of other kinds and the file browser |
| Activity log, autostart, logging, DPAPI, HTTP client | `commands/*.rs`, `dpapi.rs`, ... | rows of a table, or none | single statements, pure conversions | |
| macOS and Android ports | `fuse_t_vfs.rs`, `android_provider.rs` | | a volume without cache, locks or coordinator | |
| User interface | `src/apps/desktop/src` (TypeScript) | what events told it | calls commands, shows events | |

What is hard in it, and where each hazard of `PROJECT.json` bites:

* **Two stores, no transaction.** The block cache has rows and files, a lock has
  a claim in memory and an object in the bucket, a directory has three caches,
  credentials are two columns written one after the other. Each store has a
  mutex; nothing spans two of them.
* **Check, then act, over a network.** The lock is a GET and then an
  unconditional PUT; `mount_drive` looks into the map and enters it seconds
  later; `get_range` and `list_dir` store what they fetched without asking
  whether it was invalidated meanwhile.
* **Tasks that outlive their caller.** Part uploads survive `overwrite`, a mount
  thread goes on after its caller's 30 s timeout, the runtime of a mount is
  dropped with its loops at whatever await they are.
* **One thing under several names.** A path may be in any case, and is cached under
  the case it was asked for; every account there ever was has id 1; an entry of a
  cache may be from an earlier run, and of a directory that has been made anew.
* **Failure half way.** Of parts, renames of block files, the copy of a
  quarantined database, the request that releases a lock.
* **Ends.** Every callback of WinFsp blocks a file system thread, so draining a
  semaphore, joining a sweeper and stopping a mount must come to an end.

The properties that make each component correct are those of section 3.

## 2. Modules

| module | models | is checked by | is proved by |
|---|---|---|---|
| `DiskCache` | block cache with all its users | `MCDiskCache`: `DiskCacheAll` | `DiskCacheProofs` |
| `AtomicUpload` | what an upload promises: the object becomes the written bytes in one step, or stays | refined by `UploadPipeline` | `UploadProofs` |
| `UploadPipeline` | the write path of one key | `MCUploadPipeline`: `UploadParts`, `UploadRewrite` | `UploadProofs` |
| `FileLock` | the lock of one file on all machines | `MCFileLock`: `LockAll` | `VolumeProofs` |
| `ListingCache` | one directory through its three caches | `MCListingCache`: `ListingAll` | `ListingProofs` |
| `MountLifecycle` | rows, map, threads, commands | `MCMountLifecycle`: `MountAll` | `MountProofs` |
| `FolderMoves` | renames and removals of folders and files | `MCFolderMoves`: `FolderAll` | `FolderProofs` |
| `RateLimiter` | one limiter | `MCRateLimiter`: `LimiterBound` | `ServiceProofs` |
| `CoordinatorLoop` | the loop, channel and receiver of each mount | `MCCoordinatorLoop`: `CoordAll` | `ServiceProofs` |
| `DatabaseOpen` | opening and recovery | `MCDatabaseOpen`: `DbAll` | `DatabaseProofs` |
| `Account` | the account, its sessions, licence, trial and preferences, and their reset | `MCAccount`: `AccountAll` | `DatabaseProofs` |
| `NameSpace` | paths in any case, what becomes of them and of the caches, pages of a directory | `MCNameSpace`: `NameSpaceAll` | `VolumeProofs` |

The modules meet at six places. `FileLock` admits one writing handle per key,
which is why `UploadPipeline` follows one; what an upload does to the caches
afterwards is `Upload` and `Invalidate*` of `DiskCache` and `LocalUpload` of
`ListingCache`; the push that `CoordinatorLoop` delivers (`Receive`) is `Pushed`
of `ListingCache`; the end of a mount in `MountLifecycle` (`Unmounts`) is
`Stop` of `DiskCache` and `Close` of `CoordinatorLoop`; a lookup or listing that is
one step in `NameSpace` is taken apart in `ListingCache`, for one directory
without variants; `Reset`, `Wipe` and `Sweep` of `Account` are what
`factory_reset` does after the unmounts that are in `MountLifecycle`. They are checked
apart because their product is out of reach and because each of them allows its
neighbours to act at any time, which is more than they do.

Conventions. A variable has the name of the field, map or table it stands for;
an action has the name of the function, or of its step. A function that waits,
or that takes two locks one after the other, is a program counter (`pc`, `wk`,
`task`, `loop`) with one action per step; what happens under one lock is one
action. Variables the program does not have (history: what a property compares
with) are marked so where they are declared. An operator preceded by "Mutant
of" is no part of a specification: it is a bug of the definition that follows
it, which the properties are known to catch.

## 3. The modules, their runs and what these show

### DiskCache: the block cache

The index (`cache_entries`, here `rows`) and the block files (`files`, `tmp`) are
two stores. One statement group under the connection's mutex is one action, one
file operation is one action, and nothing spans them, as in `cache.rs`. A worker
is a thread of WinFsp, of the prefetch or of an upload: `lookup`, `open`,
`dropRow`, `dropFile` are `get_block`; `fetch` is the range request of
`get_range`; `put` to `dropNew` are `put_block` from its first look at the flag to
the second one under the index lock; `Upload`, `InvalidateRows`,
`InvalidateFile` are a finished upload and `invalidate_key`. Commands are
`clear_all` (with `AppState.mounts` locked throughout, as in
`clear_drive_cache`), `set_enabled`, `set_max_bytes` and the pin commands. The
sweeper is `evict_if_needed` one victim at a time; `Stop` and `SweeperExits` are
`stop` and its join. A block's bytes are the version of the object they came from;
blocks of different versions have different lengths, because the length is part
of a row's primary key and of the file name.

Every statement and removal of which the code ignores the result may fail:
`RemoveFails` for `remove_file`, and the actions that end in `Fails` or `Fail` for the
statements. The process may end at any step (`Restart`), and a mount begins on the
directory and the index that those before it left (`LeftBehind`).

`DiskCacheAll` has three scenes, chosen at the start of a behaviour.

* "clear": two workers, two commands, one key, two versions, quota 0 or 3, remote
  writers, no sweep. Two puts of the same block, a put and an upload, a put and a
  clear, two overlapping clears or a clear and a change of setting all happen;
  more keys or versions add nothing to them, as nothing but the sweeper relates
  two keys.
* "sweep": one worker, one command, two keys (only the first is ever pinned), a cap
  of one block and a half, damaged files (after which no command is given), the
  sweeper. One pinned key and one that is not are what the sweep tells apart.
* "fault": what earlier mounts left of one key, then any two at a time of two workers,
  one clear and the sweeper, a file that is damaged, and one fault: a failing statement
  or removal, or the end of the process. Any number of faults in any place is what the
  proofs are about.

What is read is not older than the last upload of this machine, across restarts and
whatever fails, unless a fetch was being stored when the upload landed or the
invalidation could not delete the rows (`exposed` in `FreshUnlessExposed`); a cleared
cache stays empty until the clear is over (`ClearedStaysEmpty`), if the rows could be
deleted at all; overlapping clears put back what the user asked for
(`ClearRestoresSetting`). `FilesSound` is about the two stores: no reader sees half a
block that was not damaged on disk, and at rest a file without a row is one of
`strays`, blocks of which a failing statement or removal, a sweep or clean-up beside
a put, or the end of the process is known to have left a file behind. What nothing of the
kind happened to has no such file, however reads, uploads, clears and toggles
interleave. A sweep ends within the cap it read or with nothing but pinned blocks left
(`SweepMeetsCap`), unless rows came while it ran or could not be deleted (`skewed`); it
takes nothing that was pinned when it began (`PinnedSurviveSweep`), and stopping the
cache comes to an end (`StopReturns`).

Fairness: the sweeper is a thread and is scheduled. Readers, uploads and commands
have none: nothing that is shown depends on them going on.

### UploadPipeline and AtomicUpload: the write path

The variables are the fields of `WriteState` (`extents`, `contig`, `upload`,
`sent`, `nextPart`, `completed`, `failed`) and the store's side (`object`,
`mpu`). `pc` follows one call: `write` records its range and runs
`dispatch_ready_parts` (`DispatchCheck`, `StartMultipart`, `SpawnPart`,
`DispatchDone`), `cleanup` discards, puts a small file at once or runs
`finalize_write` (the `flush` labels, `Drain`, `Complete`, `Abort`). Tasks read
their part of the spool when they are scheduled, end in any order, fail, and
outlive the `WriteState` that `overwrite` replaces. The answer of
`complete_multipart` may be lost, the local disk may take part of a write, and
the process may die at any point.

`AtomicUpload` says what the user is promised. `WholeFileOrNothing` is its
specification under the mapping `spool <- [bytes |-> temp, size |-> size]` while
the handle has a `WriteState`.

* `UploadParts`: parts of 2 bytes, files up to 4 bytes, 3 writes of any range, two
  permits, two multipart uploads, failures and crashes; the application does not
  rewrite a range from which a part was cut; once a second multipart upload is
  started only the first two write calls are left (`EarlyWrites`). Three writes are what it takes to
  leave a hole, write beyond it and close it; four bytes are two parts or one and
  a tail; the second upload follows an `overwrite` or a new handle while the tasks
  of the first still run. It shows the refinement, `PartsExact` (no hole is cut into parts, and
  no part before the last is short) and, under fairness, that `write` and `cleanup` come back (`CallsReturn`).
* `UploadRewrite`: the same with rewrites. It violates `WholeFileOrNothing`: see
  section 5.

Fairness: the callback's thread and the workers of the runtime run, and a request
to the store ends with an answer or an error. The last is an assumption about the
AWS SDK: the code sets no timeout of its own for S3.

### FileLock: the locks of files

One file, seen from all machines. `writers` is `local_writers` of each mount,
`sentinel` the object in the bucket with what remains of its TTL. A call is a
claim in `local_writers`, `check` (a GET), `acquire` (a PUT over whatever is
there); `close` gives the claim back and then deletes the object; `rename`
checks and copies. Lockfiles of editors do nothing for their target when they are
created; once one is in the bucket (`lockfile`), or any object of such a name, every
`open` of it acquires the target's sentinel, also long after the editor crashed. `MayFail` lets any of these
requests fail, which `open` treats as free; a mount may die at any time, an
administrator may break the lock.

The lock is advisory and built from requests that are not atomic together, so it
cannot exclude everything; `guarded` is a history variable that turns false at
exactly the events the protocol has no answer to: calls of two machines that
overlap, a claim while the last handle of the same machine is deleting its
sentinel, a handle that outlives its lease, a request that fails, an editor's
lockfile, a broken lock. As long as it is true, any number of opens, refusals,
closes, renames, expiries and crashes of three machines, one of which has two
handles, leave `LaterWriterRefused` and `SentinelStands` true: refusing a call
must not release, and a close must not take somebody else's sentinel.
`ClaimsMatchHandles` holds whatever happens. So does `CrashedLockExpires`, of which the
lockfiles are a part: a sentinel whose machine has no writer is gone or taken over in
the end, unless that machine opens a lockfile of the file again and again.

`LockAll`: three machines, four handles, no more than three of them in use at
once (`MaxBusy`), TTL of two units. Three machines are the
holder, one that is refused and one that comes after the refusal; two handles
on one machine are the handover; two units leave a moment between acquiring and
expiry.

Fairness: a call in progress goes on, a handle is closed in the end, time passes.

### ListingCache: the listings of a directory

`mem` is `list_cache`, `disk` the JSON file, `meta` the entries of
`meta_cache`. Fillers are `list_dir` (`Enumerate`), `listing_for` under
`resolve` (`Resolve`) and `run_background_refresh_cycle`; they look through the
stores in the order of the code, list the bucket and store what they got one
store at a time. Droppers are the invalidations in the four orders the code has:
after an upload, after a deletion, for a push, for the refresh command. A listing
remembers when it was taken, and whether the call that stored it ran at the same
time as a dropper. Saving and removing the file may fail, which nobody learns of
(`Saves`, `Removed`).

`ListingAll`: one name, one reader, the refresh task, one dropper, memory TTL 2,
empty TTL 1, disk TTL 1 (the TTLs differ so that an entry may be alive in one
store and dead in another), failures of the bucket and restarts, in two scenes.

* "settle": two changes and a dropper that may start again at once, so that every
  order of a drop and a fill occurs; a stored entry gets no older than `MemTTL`.
  Two changes are a file that appears and is replaced or vanishes; once there is
  nothing more to change, only two of the three are at work at once.
* "age": one change and no dropper, and every way from store to store.

`SettledIsSeen`: a call that begins after an invalidation is
complete shows the change, provided what it is answered from was not stored
across an invalidation, or in a file that could not be removed. `AgeBounded`: an enumeration is never older than memory
and disk TTL together, and a lookup never older than disk TTL and twice the memory TTL.
The module covers directories without capital letters (section 5).

### MountLifecycle: drives and mounts

`row` is the `drives` table, `mounts` the map of `AppState`, `thread` the WinFsp
threads, `task` the commands in progress, each with the label of the await or
lock it is at. A row and a thread carry which command wrote their settings, so
that a mount with a mixture of two settings can be told. `HostMounts` is where
WinFsp accepts a letter (external; one volume per letter). The caller's 30 s
timeout may strike at any moment while the thread is starting. Commands are
`mount_drive`, `unmount_drive`, `remove_drive`, `add_drive` and the cloud
variants, `set_drive_credentials`, `set_drive_prefix`, `factory_reset`, exit, and
`auto_mount_drives`.

While a drive is mounted its reads turn the connectivity flag (`net`, `Turns`) and emit
`online` or `offline` on the same `drive_status_changed` (`Says`), in a second step and
beside each other; a dispatcher that stops waits for the requests it serves
(`Farewell`).

`MountAll` has six scenes; a behaviour keeps the one it starts in (`scene`).

* Commands one at a time: three drives, four commands, with threads that end, fail
  and time out on their own, and a legacy secret to migrate. A mounted drive runs
  with its settings (`SettingsKept`) and is shown as mounted (`ShownIsTrue`), and a
  reset leaves nothing (`ResetIsClean`).
* Two commands at once on one drive, four in all, and failures. No handle in the
  map is dead and no running mount is out of everybody's reach
  (`RegistryServes`), none displaces another of its drive (`HandleKept`), nothing
  is shown as mounted that is not (`ShownIsTrue`), every command returns
  (`CommandsReturn`). Two letters allow the row to be removed and added anew.
* The same drive with the start-up task: beside two commands at once, which makes
  three mounts of it at a time, and beside one task that gives up to three commands.
* One drive with a store that comes and goes, one command at a time (with statements
  that fail, the batch of the reset among them) and the start-up beside one task that gives
  up to two commands. What is shown as
  mounted or online is mounted, whatever overlaps. A mounted drive may be shown as
  offline: if nothing overlapped and its events did not race each other or the
  announcement of the mount, just when its store was out of reach at the last request
  that said so (`ShownIsTrue`).

Bounds: `Threads` must have a slot for each drive and task (`BoundsAssumption`), so that no command ever waits for a slot that
the program would not wait for. Fairness: tokio polls every task, the system runs
every thread, and calls into WinFsp return (`mounts.rs` has no timeout there
other than the one modelled).

### FolderMoves: rename and removal

`obj` is the bucket, a key being a folder and a name. `RenameFolder` lists page
by page (`list_prefix` with its continuation), then for each key in the order of
the listing copies and deletes; `RenameFile` does so for one key;
`RemoveFolder` lists and deletes, goes on after a failure and counts it. Any
request may fail before or after the store carried it out, a process may die
between any two, and others write. `crossed` is true once somebody stored
something at a key between its copy and its deletion: only then can a content
be lost (`NothingLost`). `ReportIsTrue` is about the result of one call that nobody
disturbed, on whatever earlier calls left behind: a rename that succeeds has moved
everything (`MovedWhole`), a removal that succeeds has left nothing
(`RemovalReported`).

`FolderAll`: two folders, two names, pages of one key, two callers, three writes,
three calls. Two pages are what it takes to continue a listing; three calls are a
rename that fails half way, its repetition and a rename the other way round or a
removal beside it. While calls overlap there are no more than three calls and
writes together (`MaxEvents`); a call that is alone goes on whatever came before.

What the model leaves as it finds it: `_replace_if_exists` is ignored, so a
rename over an existing name replaces it; `rename_object` neither checks locks
nor invalidates listings, and passes its keys on without percent-encoding them;
conflict copies are named to the second.

### RateLimiter: the bandwidth cap

`tokens`, `last` and the three lines of arithmetic of `acquire`, which go into
debt; a caller that leaves a debt sleeps outside the lock until the rate has paid
it. Time is in ticks, a sleep is rounded up to a whole tick, as timers do.

`LimiterBound`: three callers, rate 2, burst 3, requests of 0, 1 and 4 bytes (4
is more than the burst), 6 ticks, 14 bytes. `RateHolds` is the cap for all
callers together; `SleepsAreRight` says that nobody overtakes (`InOrder`) and that
no debt is slept off twice (`NoLongerThanNeeded`). Both are proved in general.

### CoordinatorLoop: the coordinator client

Every call of `spawn_mount` makes a client before it knows whether the mount will
succeed, so two calls for one drive, or a new mount beside a runtime that still
ends, have two. Per client (`Loops`, with `Of` for its drive): `stage` is how far its
mount is, `loop` where `subscribe_loop` awaits, `step` and `BACKOFF_STEPS` its table
(the real one), `channel` the bounded channel to `start_coordinator_receiver`. Per
drive, `told` is the last `coordinator_status` and whose it was. The network may break
any await until it is `calm`, or make it `silent`: none of the awaits has a time
limit, so a silent one ends only if the operating system gives up on it. The server
answers a bad licence with close code 4001; the end of a mount drops the runtime, and
its tasks end where they are.

`CoordAll` has two scenes. "long": one client, fifteen failures in a row (past the end of
the table of fourteen), three pushes into a channel of two, silence. "twice": two clients
of one drive in any overlap, each with a failure and a push; more of either takes no
client to a place where it has not been. `PushesInOrder`, `NeverSooner` for
refused and closed connections, and, under fairness, `Reconnects`. Fairness: the
runtime polls its tasks, timers end, and the server answers a subscription; nothing is
assumed of a loop whose connection is silent. `MountedIsTold`: as long as no other client of the drive has spoken since,
what a client said last is what its connection is. That the last word may be that of a
mount that failed is in section 5.

`notify` is left out: it spawns a POST whose result is only logged. It calls
`tokio::spawn`, which needs a runtime in scope wherever it is called from; no
property here says so.

### DatabaseOpen: opening and recovery

`main` is `nanocrew.db` with its size, what it was copied from and whether it is
whole, `wal` its log, `kept` the quarantined files. `Start` decides by the size
alone, as the code does; then one action per file operation of
`try_restore_from_bad_quarantine`, any of which may fail silently where the code
ignores the error; `Open` is `Connection::open` with the schema; `Commit` and
`Checkpoint` are SQLite. `Stop` may come at any point.

`DbAll`: two quarantined files of any of three sizes, sound or not, two rows, any
state an earlier version may have left. `CheckpointedKept`: a database that was
checkpointed, or restored whole, is never replaced as long as its size can be read (a
size that cannot be read is zero, and nothing is `sure` after that).
`LargestRestored`: of the files on which no operation failed (`failed` has those whose
entry, size, check or copy did), an empty database is replaced by the largest sound
one, and opened as it is only if there is none.

### Account: account, sessions, licence, preferences, reset

`account` is the one row of `accounts`, `record`, `install`, `licence` and `root` are
rows of `prefs`, `sessions` is `AppState.sessions`. A command is a program
counter with one action per statement or lock: `try_restore_session` reads its
record (`Restore`), looks the account up (`Check`), enters a session (`Mint`) and
writes the record anew (`Persist`), and between any two of these another command may
run. A command that keeps what it read keeps it in `task` (`who`, `old`, `new`,
`value`). Every account has id 1, so the program cannot tell an account from the
one before the reset; `born`, the number of the command that made it, can.
`set_pref` and `clear_pref` (`Prefer`) take any key, with values that nobody
understands too (`Foreign`). A statement whose result the code ignores may fail
(`Holds`, `BeginTrial`), the batch that
wipes the tables may stop after any of its statements, the process may end
anywhere, and the profile may be copied to a machine that cannot unwrap it.

`AccountAll`: two commands at a time among the first four (`MaxOverlap`), five in all, two names, two passwords, three
tokens, two directories, two ticks of the clock and a remembered session that
lasts one. Five commands are account, sign-in, a reset, a second account and
whatever overlaps; three tokens are a session before a reset, one after it, and
one of a restore. `SessionsOfAccount`: no session is of another account than the
one in the table, with the exceptions that section 5 names, which `marks`
records. `SignOutForgets`: what was remembered when a sign-out began is gone when
it returns. `LastingIsKept`: a password changes only for the account whose old one
was verified, the start of the trial only with a reset or by whoever sets that
preference, never by a look at the licence. `ResetLeavesNothing`: a
reset beside which nothing ran leaves an empty database and an empty default
directory. No fairness: nothing here has to happen.

### NameSpace: paths, names and pages

A name is a number, and names with the same half differ in case only, which
gives the order of `sorted_dir_entries` for free. `cache` has the three stores
of `ListingCache` for every directory and path; `Listed`, `Walk` and `Resolve` are
`list_dir` and `resolve` as functions of it, `Drop` is `invalidate_parent` with
`invalidate_meta`. `CreateFile` only enters `local_writers`: the object appears with
`Close`. The bucket may refuse to list any directory that is in no cache: a lookup
then fails with what it has learnt up to there in the caches (`Refused`), and so does
the call (`LookupFails`) unless it is a create, which takes each of its two lookups
that fails for one that found nothing (`CreateBlind`). `ScanPage` is
`read_directory` with a buffer of any size up to `Room`, from the marker `at`; names
too long for an entry (`Wide`) are passed over, and the
end is reached when the last entry is in the buffer. What it lists is `Enumerated`, which
stops asking once it has `MaxEntries` entries; a listing that fails half-way
(`ScanFails`) leaves the lookups of its first pages. `odd` is the set of
directories of which section 5 says that the caches may have them wrong.

`NameSpaceAll` has two scenes. "tree": two names for directories and files that
differ in case only, a file in each directory (at first in one), three changes
(after the last of which one file at most is still to be uploaded),
restarts that leave the caches on disk, a bucket that may refuse to list. Three changes are a removal, a
creation and what follows from it; variants of the parent and of the name need two
names each at most. "scan": the root with a pair of variants, a third name and one that fits
no entry, a cap of three entries, so that there is a directory below it, at it and above it,
buffers of one or two entries, listings that fail, names created, removed, renamed by this and other
machines between pages. `OwnWorkShows`: what this machine did to a name shows under
that name, whatever was cached under whatever case. `CreatedIsNew`: nothing is
created next to its variant, over something, or in a directory that does not exist
as it is written, except by `CreateBlind`; that exception is of the one step, and
whatever follows it is held to the same. `EnumerationIsWhole`: a listing that ends has every name that was
there from first to last page and fits an entry, and none twice. `EnumerationEnds`: it does end; the
fairness is that the caller asks for the next page.

### Deadlock and bounds

Deadlock is checked in all runs but those where the bounds run out and nothing
else is wrong: `LimiterBound` (clock and bytes), `CoordAll` (mounts and pushes),
`FolderAll` (calls and writes) and `AccountAll` (commands). `Rest` in `MountLifecycle` is the idle
application after its last command.

## 4. What is proved

For every value of the constants that the named assumptions allow
(`CacheAssumption`, `UploadAssumption`, `LockAssumption`, `ListingAssumption`, `BoundsAssumption`,
`NoneAssumption`, `FolderAssumption`, `LimiterAssumption`,
`CoordinatorAssumption`, `DatabaseAssumption`, `AccountAssumption`,
`NoRowAssumption`, `NameSpaceAssumption`, `NothingAssumption`; TLC evaluates each on
the runs of the module that declares it). They say that bounds are numbers, that sets
of tasks, and of names, are finite where the model counts them, that "none" is nothing else, and of the mounts that there is a
thread for every drive and task:

| module | theorem | says |
|---|---|---|
| `DiskCacheProofs` | `TypeCorrect` | `Spec => []TypeOK` |
| | `ClearIsComplete`, `ClearRestores` | `ClearedStaysEmpty` and `ClearRestoresSetting` are invariant |
| | `SoundFiles` | `FilesSound` is invariant (from `WholeFiles` and `OrphansAreKnown`, its two halves) |
| | `ReadsAreFresh` | `FreshUnlessExposed` is invariant |
| | `PinnedStay` | `Spec => PinnedSurviveSweep`, an action property |
| | `SweepsMeetCap` | `SweepMeetsCap` is invariant |
| `UploadProofs` | `PartsAreExact` | `PartsExact` is invariant |
| | `UploadIsAtomic` | `~Rewrites => (Spec => WholeFileOrNothing)`: the write path implements `AtomicUpload` |
| `VolumeProofs` | `LaterIsRefused` | `LaterWriterRefused` is invariant |
| | `SentinelIsKept`, `ClaimsAreKept` | `SentinelStands` and `ClaimsMatchHandles` are invariant |
| | `NamesShow`, `ListingsWhole` | `OwnWorkShows` and `EnumerationIsWhole` are invariant, of `NameSpace` |
| | `NothingTwice` | `Spec => CreatedIsNew`, an action property of `NameSpace` |
| `ListingProofs` | `AnswersAreBounded`, `SettledSeen` | `AgeBounded` and `SettledIsSeen` are invariant |
| `MountProofs` | `MapAgrees` | `RegistryServes` is invariant |
| | `EventsAreTrue` | `ShownIsTrue` is invariant |
| | `MountedAsSet`, `ResetLeavesNothing` | `SettingsKept` and `ResetIsClean` are invariant |
| | `HandlesAreKept` | `Spec => HandleKept`, an action property |
| `FolderProofs` | `NothingIsLost`, `ReportsAreTrue` | `NothingLost` and `ReportIsTrue` are invariant |
| `ServiceProofs` | `LimiterTypes` | types of the limiter, and tokens never above the burst |
| | `CapHolds`, `SleepsTheorem` | `RateHolds` and `SleepsAreRight` are invariant |
| | `ScreenIsTold`, `PushesAreInOrder` | `MountedIsTold` and `PushesInOrder` are invariant |
| | `PausesGrow` | `Spec => NeverSooner`, an action property |
| `DatabaseProofs` | `DatabaseTypes` | types, and an open database is whole with its own log |
| | `CheckpointSurvives`, `LargestIsRestored` | `CheckpointedKept` and `LargestRestored` are invariant |
| | `TypeCorrect` | `Spec => []TypeOK`, of `Account` |
| | `SessionsTheorem`, `SignOutTheorem`, `ResetTheorem` | `SessionsOfAccount`, `SignOutForgets` and `ResetLeavesNothing` are invariant |
| | `LastingTheorem` | `Spec => LastingIsKept`, an action property |

The arguments:

* **Cache, clear.** `ClearedStaysEmpty` is not inductive: why should no other clear
  switch the cache on in between? `ClearInv` adds that a clear in progress holds
  the mounts mutex, keeps the flag down and remembers what the user wants; a put
  then finds the flag down at its second look.
* **Cache, whole files.** `StagedInv`: a temporary file about to be renamed is
  whole and holds what its owner fetched, which needs that only the owner writes
  under its name (`OnlyWriteStages`). With it every step that changes `files` puts
  a whole file there or removes one (`FileSteps`).
* **Cache, files and rows.** `IndexInv`: each file has its row, or a put about to
  index or to remove it, or an invalidation or a clear that took the row and has
  the file on its list, or is one of `strays`. Each fault and each step of the sweeper
  and of the clean-up must be shown to enter into `strays` what it lets go, and
  `Restart` enters every file that has lost its keeper.
* **Cache, freshness.** A version is in force when it is no older than any upload
  that has settled or is still invalidating (`InForce`). `FreshInv` says that what
  a put has in hand is in force, since a read may find it long after, and that
  what a read has in hand is recent enough for that read (`Fit`). A file that has
  a row need only be as new as the uploads that have already taken the rows
  (`InForceIndexed`): here the order of `invalidate`, rows before files, enters.
  `exposed` keys are left out by the property, and section 5 says why they have to
  be. A restart leaves nobody with anything in hand.
* **Cache, pinned.** No victim of the sweep, waiting or at hand, belongs to a key
  that was pinned when the sweep began (`VictimsInv`).
* **Cache, sweep.** `SweepInv`: the rows that are left together with the victims,
  each counted once, take no more than what the sweep believes is left, and what is
  neither a victim nor gone was pinned. At the end there are no victims, so what the
  sweep believes bounds the rows. The sum is `MapThenSumSet`, of which the provers
  know nothing: that it does not depend on the order (`UsedWithout`) is shown from the
  fact that among sets that are not additive there would be a smallest (`SmallestSet`).
* **Upload, parts.** `PartsExact` is about lengths at the end, so the invariant says
  where every part lies from the moment it is cut: side by side, each a whole part,
  but for one that cleanup cut (`Cuts`). Every part that was cut is on its way, stored
  or failed, with the length it was cut to (`Placed`). `Recorded` is the lemma about
  `RecordExtent`: disjoint ranges with gaps stay so, and cover what they covered.
  TLC was run on the conjunction, `PartsInv`, before it was proved.
* **Upload, refinement.** A write may change a part of the file that a task is about to
  read. `Kept` says that what was read is still what the file holds, which is true
  while no byte of a part is written twice (`Untouched`) and false otherwise: this is
  the hypothesis `~Rewrites` of the theorem, and what `UploadRewrite` violates. When the
  semaphore is drained and nothing failed, every part that was cut is stored
  (`Placed`), and the parts put together are the file (`AssembledWhole`). The other
  steps write to the spool, drop it, or leave both alone (`StepImplements`).
* **Upload, induction.** `FlattenSeq` is a recursive function. The library's induction
  theorems take an operator, but that every well-founded relation has minimal elements
  does not: `LeastElement` follows, and from it `Induction`, with a set in place of the
  predicate, and `Flattened`, which says what `FlattenSeq` comes to.
* **Locks.** `Claims` (every claim has one call or handle and the reverse) is
  inductive by itself and holds whatever happens; `ClaimsMatchHandles` follows.
  The rest holds while `guarded` does. That a handle finds its sentinel in the
  bucket until it releases it (`Standing`) needs that nobody else writes or
  deletes it: no other handle of the machine, because of the claim and because a
  close is over before the next open begins (`Single`), and no other machine,
  because a call gets past its check only if it saw no foreign sentinel (`Apart`).
  A rename that found rivals found open handles (`RivalsOpen`).
* **Listings, age.** Each store may age an answer by its own time to live and no
  more, since it remembers when it was filled and not when what it holds was true.
  `StoreAges` states the sum for what each store holds and `Holds` for what a
  filler carries between them; the bound of `AgeBounded` is that sum along the
  whole way.
* **Listings, settled changes.** `SInv` says that an entry stored by a filler
  beside which no dropper ran is as new as everything that has settled. While a
  dropper is on its way, the stores behind it hold nothing from before its change
  (`Clearing`), except what a filler that ran beside it has put back. Those are
  marked (`taint`), and the property leaves them out: section 5 says what they do.
* **Mounts, who has which thread.** In `MInv` a handle is in exactly one place:
  in the map, in the hands of one task, or among those the exit has yet to stop.
  In the map or on its way there nobody has told it to stop. `RegistryServes`
  follows, and `HandleKept` needs in addition that two threads that serve are of
  different drives: the number of the command that added a drive settles its
  letter (`Letter`), and WinFsp gives a letter once.
* **Mounts, what the screen shows.** A drive shown as mounted or online has a thread
  that said so and has not taken its leave (`Seen`), and what that thread says next agrees
  with its flag as long as its events fall due one by one (`Steadies`). The converse
  needs that nothing overlapped, and is a part of the next (`Shown`).
* **Mounts, one task alone.** `SettingsKept` and `ResetIsClean` speak of a scene
  in which one task works; `Alone` and `Solo` say that it is then the only one at
  every step, so nothing of what it read can have changed before it acts.
* **Folders, contents.** That every content is somewhere in the bucket is not inductive: the
  place may be one that a rename is about to delete. `Copies` says that it is at a
  key no rename is about to delete. A copy makes its source such a key and its
  target not, since nothing is renamed to itself (`Aims`) and since a target that
  another rename is about to delete makes `crossed` true. That is also the
  condition under which the statement is false (section 5).
* **Folders, reports.** A report is made key by key, so `Honest` is stated so: of
  the keys a command found, those still to be done are as they were, and those it
  counts as done are done. It holds until somebody else works on the same keys
  (`touched`), the condition of `ReportIsTrue` itself.
* **Limiter.** `asked + tokens` is what the bucket has granted so far. `Granted`
  bounds it by the burst and the rate times `last`; `Paid` bounds the mark of a
  sleeper by what the rate will have granted when it wakes. The cap follows at
  each return. `InOrder` rests on `NoLongerThanNeeded` and the exact length of the
  sleep (`Pays`): an earlier sleeper wakes less than a tick after its bytes are
  paid for, hence not after a later one.
* **Database.** The recovery looks at nothing but the size, so the invariant ties
  sizes to contents: while anything is sure the file is larger than `EmptyMax` and
  no recovery is under way (`Held`); while a copy is under way nothing is sure and
  the candidate is larger than `EmptyMax` as well (`Copying`), so a copy that ends
  makes `Held` true again.
* **Database, the candidate.** The candidates are taken in the order of their
  sizes, and one is left out only because it is too small, unsound, or something
  failed on it. `Search` says so of all that were taken before the present one; when
  one is chosen, it is the statement that no larger one would have done, and when
  none is left, that none would have.
* **Coordinator.** `Honest`: the client that spoke last of a drive has said exactly
  whether its loop reads an acknowledged connection, which needs that one that is
  only being made has not been acknowledged, and that a loop that has not begun has
  not spoken.
  `Patient`: the last pause is not above the next one of the table, and the table
  rises until its last entry, which repeats. `Arrived`: what was applied followed
  by what is in the channel rises and is part of what was sent; with what was
  dropped it is all of it, as long as the receiver lives. There is nothing in either
  before the mount begins, and nothing in the channel once the receiver is gone.
* **Account.** A step may act on what was read several statements ago, so the
  invariant says of every command in progress that what it carries is still true:
  whom it signs in is in the table (`SessionsOfAccount` itself), and so is the
  account whose password it verified (`Verified`). Both rest on the fact that an
  account goes only by `Wipe` (`AccountStays`), beside which nobody is at work or
  `marks` has it. That a reset leaves nothing needs that a command that has been
  alone so far is the only one (`Alone`), so that nothing of it is undone between
  its two steps (`Wiped`). TLC was run on the conjunction, `IInv`, on the instance
  of `AccountAll` before it was proved.
* **Names, the caches.** `OwnWorkShows` speaks of what the next lookup will find, and
  that depends on every entry a lookup may come upon. `Right` says of each entry for
  itself what it says: a listing, in memory or on disk, is that of the bucket; of a
  path in the root (`TopRight`), if it is cached as absent then none of its variants
  is there, and if it leads somewhere, then to itself exactly if it is there and no
  directory comes before it; of a path into a directory (`InnerRight`) the same,
  in the directory it leads to (`Leads`). Of what goes through a directory in `odd`
  nothing is claimed (`Sure`). `Fit` is claimed always: an entry leads only to a
  variant of the path it is cached under, and so a change of a name can disturb no
  other entries than those of its variants. `Resolve` preserves both, whatever it has to
  list (`ResolveTop`, `ResolveInner`). A call then drops entries and changes objects:
  `ChangeKeeps` says which of those that are left must be looked at, and
  `TopFileKeeps`, `InnerFileKeeps` and `DirsKeep` do so for a file in the root, a file
  in a directory, and directories that come, go or move. They use that no three
  names have the same half (`Pairs`). A call whose change is left in an entry puts the
  directory into `odd`, and that is all `odd` stands for (section 5).
* **Names, what is created.** A create looks the name up and goes on if it is absent,
  and what absent means is `TopRight` and `InnerRight` of that lookup. No other
  call makes a directory or a file to be uploaded (`StepIsNew`).
* **Names, pages.** `ScanInv`: what is listed sorts up to the marker, so what sorts after it
  is not listed twice, and of what was there all the time everything up to the marker is
  listed, since a page is the first of what is left (`PageIs`).
  TLC was run on the conjunction, `NamesInv`, on the instance of `NameSpaceAll` and on
  random behaviours of `Spec` with more names and changes before it was proved.

What is only model-checked:

* Liveness: `StopReturns`, both `CallsReturn`, `CommandsReturn`,
  `CrashedLockExpires`, `Reconnects`, `EnumerationEnds`. Proofs about fairness and
  ENABLED are beyond the proof system's back ends.

## 5. What does not hold

One disagreement between the code and its own comments is a run of its own
(`UploadRewrite`, listed under "findings"). The others were met while
modelling; the properties above are stated around them, and the last column
says how, or how to see them. Lines are of `src-tauri/src`.

| what the code says | what it does | in the model |
|---|---|---|
| `winfsp_vfs.rs` 3064: positioned writes handle out-of-order and overlapping writes | a part is uploaded once; bytes rewritten afterwards are missing from the object (1550) | run `UploadRewrite` |
| `cache.rs` 434: after `invalidate_key` the next reader sees fresh bytes | `get_range` stores what it fetched before the upload after the invalidation (`winfsp_vfs.rs` 1319) | `exposed` in `FreshUnlessExposed` |
| `cache.rs` 19: one row per block on disk | the sweep deletes a file and then its row; a put between the two leaves a file without a row (546); so do an ignored error of the INSERT (419) or of a removal (195, 416, 462), a clean-up of a damaged block of which there are two lengths (262), and the end of the process between a rename and its INSERT. No clear, invalidation or sweep finds such a file, and `new` does not look for any (90) | `strays` in `FilesSound` |
| `cache.rs` 434, again | the statements of `invalidate_key` may fail (443, 456) and nobody is told; a process that ends between an upload and its invalidation leaves old rows to the next mount | `exposed`; the upload has not returned, so `settled` is not raised |
| the same | a put that finds the cache disabled deletes the shared file although another put indexed it meanwhile (415): a row without a file, which a reader takes for a miss | `PutDrop` |
| `cache.rs` 72: 0 disables the cache | `set_enabled(true)` does not look at the quota (151) | `SetEnabled` |
| `file_lock.rs` 8: later writer-opens of other machines are rejected | `check` and `acquire` are two requests; `close` gives up its claim before the sentinel (`winfsp_vfs.rs` 2504); `release` deletes whoever's sentinel is there, and nothing refreshes one (`file_lock.rs` 19, 174, 187) | `guarded`; `OpenElsewhereRefused` as an invariant of `LockAll.cfg`, with `Editors`, `MayFail` and `MayBreak` FALSE |
| `winfsp_vfs.rs` 2407: a lockfile of an editor sets the sentinel of its target | only `open` does; an application creates its lockfile through `create` (2671) | `LockfileCreated` |
| `winfsp_vfs.rs` 2413: a crashed editor never leaves a file locked forever | its lockfile stays in the bucket, and every look at it (of a virus scanner, say) renews the lock; a `.lock` file of any program does the same | the condition of `CrashedLockExpires` |
| `winfsp_vfs.rs` 726: an invalidated listing is fetched again | a listing taken before the change is stored after the invalidation (905) | `taint` in `SettledIsSeen` |
| the same | the file on disk may not go (`dir_listing_cache.rs` 174), and nobody is told: it is taken until its TTL is over | `taint` too |
| `winfsp_vfs.rs` 93: changes show up within a minute | a listing loaded from disk starts a new minute in memory (838), and a lookup another | the bound of `AgeBounded` |
| `mounts.rs` 97: `refresh` drops every entry beneath the prefix | it compares a lower-cased prefix with keys in their real case (109) | `Command` covers directories without capitals |
| `drives.rs` 219: the drive must be unmounted first | a mount on its way is not in the map yet: credentials change between its two reads, or under it; a removed drive is mounted afterwards; a reset misses it (`drives.rs` 184, 230, `system.rs` 248) | `SettingsKept` and `ResetIsClean` without their `OneByOne` |
| `lib.rs` 509: skip what the user mounted manually | the second mount fails on the letter, and the mounted drive is last shown as in error | `ShownIsTrue` without its `OneByOne` |
| `useDriveNotifications.ts` 161: `offline` after `mounted` is toasted as "Drive unmounted" | a mounted drive whose store is out of reach emits `offline` too (`mounts.rs` 417) | `Says`; `ShownIsTrue` allows it for such a drive |
| `mounts.rs` 134: the flag says whether the last request succeeded | it is turned and reported in two steps by requests beside each other (`winfsp_vfs.rs` 1263): the events may come in the wrong order, or before `mounted`, and the last one stays on the screen | `calm` in `ShownIsTrue` |
| `credentials.rs` 10: a legacy secret is upgraded transparently | the write back of the old secret may follow the write of a new one (62) | `Migrate` and `Store` |
| `drives.rs` 112: the free tier has two drives | count and insert are two statements, and the cloud drives are not counted | `Admitted`, `AddCloud` |
| `cache.rs` 1: the cache is per drive | SQLite gives the id of the last drive removed to the next one added, with its blocks (`drives.rs` 204) | `NextId`, `blocks` |
| `lib.rs` 347: letters are released before the process exits | a drive that serves but is not in the map yet is not stopped | `Exit` |
| `coordinator.rs` 81: the status is emitted when the connection flips | unmounting drops the loop at its await: the dot stays green | `MountedIsTold` speaks of loops that run |
| `coordinator.rs` 81: the status is that of the connection | every `spawn_mount` spawns a client (`mounts.rs` 365): after a second mount of a drive that fails, its `false` is the last word while the first one is connected. The settings screen has one dot for all drives besides (`SettingsScreen.tsx` 158) | `by` in `MountedIsTold` |
| `coordinator.rs` 76: exponential backoff on any disconnect | one that nobody announces is not noticed: `connect_async` (195) and `ws.next` (243) have no time limit and nothing is sent to keep the connection alive | `silent` in `Reconnects` |
| `coordinator.rs` 183: after 30 failures an hour | the table reaches an hour at the fourteenth | `BACKOFF_STEPS` |
| `coordinator.rs` 76: exponential backoff on any disconnect | a subscription that cannot be sent sleeps one second and keeps its step (229) | `NeverSooner` leaves out `SendFails` |
| `coordinator.rs` 327: set a valid licence to retry | the loop has ended and keeps its token; nothing retries until the next mount | `Reconnects` asks for a good token at the mount |
| `db.rs` 228: does nothing when the live database has content | the file is one page until the first checkpoint; rows committed to the log are deleted with it (237) | `sure` counts what is checkpointed |
| `db.rs` 229: an empty database rather than a hang | removals ignore their errors and the copy is made under the final name: a foreign log, or half a file that is too large to be restored again (293) | the label `broken` |
| `db.rs` 226: the newest quarantined file | the largest (260) | `LargestRestored` |
| `db.rs` 228: the same, whatever happens | a database whose metadata cannot be read counts as empty (236) | the second case of `Start` |
| `db.rs` 258: the biggest is most likely the real data | one that cannot be listed, sized, opened or checked for the moment is left out like an unsound one (250, 254, 266); a smaller one is restored, and the larger never looked at again | `failed` in `LargestRestored` |
| `winfsp_vfs.rs` 3228: copy each object, then delete the originals | the deletion takes whatever is at the old key by then: what was stored there after the copy is lost (3251, 3323) | `crossed` in `NothingLost` |
| `commands/system.rs` 232: a reset needs a session "so a stale token can't nuke someone's data" | the reset leaves `AppState.sessions` alone: tokens from before it are valid for the next account until the program ends | `reset` in `marks`, an exception of `SessionsOfAccount` |
| `commands/system.rs` 290: the reset wipes the cache of every drive | the directory is read from the preferences (291) after these are wiped: one the user chose is left with its blocks | `ResetLeavesNothing` speaks of `Default` |
| `commands/system.rs` 231: "we always end in the intended clean state" | the batch is no transaction and its error is logged: the account may be gone and its remembered session not | `lapsed` |
| `commands/auth.rs` 222: an explicit sign-out always clears the record | one that a restore or a sign-in in progress writes afterwards stays, and the next start is signed in; a failing statement is ignored (224) | `SignOutForgets` is about what was remembered when it began |
| `commands/auth.rs` 155: a corrupt or foreign record is wiped | so is a good one that a sign-in wrote between the reading and the wiping of the old (161, 168) | `Clear` |
| `commands/auth.rs` 296: the current password is verified | two changes may verify the same one; the last to store wins, and after a reset in between it is that of another account | `straddled` in `LastingIsKept` |
| `license.rs` 162: the trial starts when it is first looked at | `set_pref` and `clear_pref` take any key (`prefs.rs` 90, 131): `install_at` can be set anew or cleared, and one that is no number makes every look the first | the last disjunct of `LastingIsKept` |
| `winfsp_vfs.rs` 2553: no ghost folder next to the real one | a lookup that fails is taken for "not found", of the name (2547) and of the parent (2568): the file goes over another, or into a new folder | `CreateBlind`, an exception of `CreatedIsNew` |
| `winfsp_vfs.rs` 103: folders larger than the cap are truncated with a sentinel entry | that listing is kept in `list_cache` as the folder's (1050): for a minute a name beyond it is not found and a create may go over it; the background refresh cuts off too (1981), and saves what it has on disk without the sentinel | `odd` in `ScanPage` |
| `winfsp_vfs.rs` 2918: the buffer is filled with what remains of the listing | a name longer than 255 UTF-16 units is left out without a word (2939) | `Wide` |
| `winfsp_vfs.rs` 2597: the caches are dropped so that the new name is found | the key that was asked for in another case keeps its "not found" for `META_TTL`, and a second create through it is let through and replaces the file | `Missed` |
| `winfsp_vfs.rs` 1227: a path in another case is cached under that path | nothing drops it when the file goes: for `META_TTL` a create collides with a file that is not there, and one in a removed directory makes it anew | `Husk` |
| `winfsp_vfs.rs` 719: the listing is fetched anew after a change | a removed or renamed directory keeps its own listings, on disk for a minute, and the lookups of its files (2746, 3351): made anew under that name, it shows them | `Husk` |
| `winfsp_vfs.rs` 1170: exact case is preferred | a directory in another case is preferred to a file in exact case (1174) | `Match`, an exception of `OwnWorkShows` |
| `winfsp_vfs.rs` 1117: names that differ in case only are both listed | of such a pair at the end of a buffer the second is skipped (2931) | `Lone` in `EnumerationIsWhole` |
| `winfsp_vfs.rs` 2545: a variant of an existing name is refused | one of a file that is not uploaded yet is not, and a rename never is (3219) | `CreatedIsNew` is about names that show |
| `winfsp_vfs.rs` 2822: a deleted file is gone | the last object of a directory without `.keep` takes the directory with it, and the listing that shows the directory stays | `Unexpected` |
| rename into another folder | keeps the parent of its source (`winfsp_vfs.rs` 3212) | `FolderMoves` is about one directory |

## 6. What is not modelled

The verification of a licence's signature, the activity log, the preferences of
which the value is used on the spot, the HTTP client, DPAPI and logging keep no
state beyond single statements, or none. The macOS and Android
back ends are ports without cache, locks or coordinator. The user interface shows
what the modelled events tell it. Within the modelled parts: prefetch (a reader
like any other), progress events, the rate limiter inside transfers (it only
delays), a remembered session that a caller reads with `get_pref` and puts back with
`set_pref` later, security descriptors, deeper trees, the sentinel entry and the background refresh in `NameSpace`, names that differ only
in case and listings of more than one page in `ListingCache`, `clear_drive_cache` of a drive that is not mounted (a second
`DiskCache` over the same directory, `drives.rs` 1060), and the persisted quota. Mounts always use
the S3 provider (`mounts.rs` 387), so the others are reached only from the file
browser and the settings.

## 7. What comes next

1. **The read path.** `set_file_size` and reads of a file being written, short
   reads, two `DiskCache` instances over one directory.
2. **Providers.** Upload sessions and token refresh of OneDrive and Dropbox, the
   SFTP pool.
3. **Proofs.** The safety properties of these parts, once they are modelled; those of
   the present modules are proved.
