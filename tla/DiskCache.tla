------------------------------ MODULE DiskCache ------------------------------
(***************************************************************************)
(* The per-drive on-disk block cache (cache.rs), with the threads that use *)
(* it: reader and prefetch threads (S3Fs::get_range), the upload path that *)
(* invalidates a key, the Tauri commands that clear or reconfigure the     *)
(* cache, and the background LRU sweeper.                                  *)
(*                                                                         *)
(* The index (SQLite rows) and the block files are two stores.  The mutex  *)
(* on the connection makes one index statement group atomic; no lock spans *)
(* an index step and a file step, so every such step is an action.         *)
(*                                                                         *)
(* Abstractions.  A block's bytes are the version of the object they were  *)
(* fetched from.  A range request on the object store is atomic.           *)
(* last_access is kept in whole seconds, so rows touched within a second   *)
(* tie and any order of eviction is a possible one: victims are taken in   *)
(* an arbitrary order and last_access is not kept.  Temporary files of a   *)
(* process that ended stay on disk under names that nothing looks for.     *)
(***************************************************************************)
EXTENDS Integers, FiniteSets, FiniteSetsExt

CONSTANTS
    Workers,        \* threads that read through the cache or upload
    Commands,       \* Tauri command invocations that may overlap
    Keys,           \* object keys of the drive
    Offsets,        \* block offsets, in units of CACHE_BLOCK
    MaxVersion,     \* bound: versions of one object
    BlockLen,       \* BlockLen[v]: bytes of a block fetched from version v
    Overhead,       \* nonce and tag bytes that encryption adds to a block
    Quotas,         \* values set_drive_cache_quota is called with
    InitialQuota,   \* cache_max_bytes of the drive at mount, never 0
    RunsSweeper,    \* start_eviction got its thread
    RemoteWrites,   \* other machines write the bucket
    FilesMayRot,    \* block files may be tampered with
    Absent,         \* "no such file"
    NoOne           \* "the mounts mutex is free"

Versions == 0..MaxVersion
Lens     == {BlockLen[v] : v \in Versions}

ASSUME CacheAssumption ==
    /\ Keys # {} /\ Offsets # {}
    /\ MaxVersion \in Nat
    /\ BlockLen \in [Versions -> Nat \ {0}]
    /\ Overhead \in Nat
    /\ Quotas \subseteq Nat
    /\ InitialQuota \in Nat \ {0}
    /\ {RunsSweeper, RemoteWrites, FilesMayRot} \subseteq BOOLEAN
    /\ NoOne \notin Commands

VARIABLES
    s3,         \* version of each object in the bucket
    rows,       \* cache_entries: the primary key contains the length
    files,      \* block files at their final path
    tmp,        \* each put_block's temporary file
    enabled,    \* DiskCache.enabled
    maxBytes,   \* DiskCache.max_bytes
    pinned,     \* pinned_keys
    mounts,     \* holder of the AppState.mounts mutex
    stop,       \* DiskCache.stop
    wk,         \* state of each worker thread
    cmd,        \* state of each command
    ev,         \* state of the sweeper
    budget,     \* evict_if_needed's total and cap
    settled,    \* history: newest version whose upload has invalidated the cache
    exposed,    \* history: keys uploaded while an older fetch was being stored, or
                \* whose rows an invalidation could not delete
    wanted,     \* history: the last setting of the enabled flag by the user
    strays,     \* history: blocks of which a known failure may have left a file behind
    rotten      \* history: blocks whose file was damaged on disk

store == <<s3, rows, files, tmp>>
conf  == <<enabled, maxBytes, pinned, mounts, stop>>
hist  == <<settled, exposed, wanted, strays, rotten>>
sweep == <<ev, budget>>
vars  == <<store, conf, wk, cmd, sweep, hist>>

-----------------------------------------------------------------------------
(* Block identities and contents *)

\* A row's primary key and a file's path carry the same three components.
Blocks == [key : Keys, off : Offsets, len : Lens]

\* Bytes of a file: of which version, and whole or not (half-written, tampered).
Data == [ver : Versions, whole : BOOLEAN]
FileStates == Data \cup {Absent}

DiskLen(b) == b.len + Overhead
Used == MapThenSumSet(DiskLen, rows)

\* Mutant of KeyRows: looks for the blocks the new version would have.
KeyRowsOfNewLength(k) == {b \in rows : b.key = k /\ b.len = BlockLen[s3[k]]}

\* Mutant of VictimRows: the join with pinned_keys is forgotten.
AllRows == rows

RowsAt(k, o) == {b \in rows : b.key = k /\ b.off = o}
KeyRows(k)   == {b \in rows : b.key = k}
VictimRows   == {b \in rows : b.key \notin pinned}

\* Mutant of TmpName: one deterministic temporary name, as up to v0.2.11.
SharedTmpName(w) == CHOOSE x \in Workers : TRUE

\* The name put_block stages its bytes under is unique to the call.
TmpName(w) == w

WorkerIdle == [pc |-> "idle", key |-> CHOOSE k \in Keys : TRUE,
               off |-> CHOOSE o \in Offsets : TRUE, len |-> BlockLen[0],
               ver |-> 0, floor |-> 0, todo |-> {}]
CmdIdle    == [pc |-> "idle", was |-> FALSE, todo |-> {}]
EvLoop     == [pc |-> "loop", victims |-> {}, victim |-> Absent, spared |-> {},
               skewed |-> FALSE]

\* The block a worker is looking up or storing.
Target(w) == [key |-> wk[w].key, off |-> wk[w].off, len |-> wk[w].len]

Goto(w, label) == wk' = [wk EXCEPT ![w].pc = label]

\* Block files that the index does not know.
Orphans == {b \in Blocks : files[b] # Absent /\ b \notin rows}

\* remove_file on a block: its error is ignored, and what it leaves behind is a stray.
Removes(b) ==
    /\ files' = [files EXCEPT ![b] = Absent]
    /\ strays' = strays \ {b}
RemoveFails(b) == files' = files /\ strays' = strays \cup {b}

\* What the mounts before this one may have left on disk: rows without a file, and files
\* without a row.  A file holds what was fetched under its name, of a version there was.
LeftBehind ==
    /\ rows \in SUBSET Blocks /\ IsFiniteSet(rows)
    /\ files \in [Blocks -> FileStates]
    /\ \A b \in Blocks :
          files[b] # Absent =>
            files[b].whole /\ files[b].ver <= s3[b.key] /\ BlockLen[files[b].ver] = b.len
    /\ strays = Orphans

Init ==
    /\ s3 \in [Keys -> Versions]
    /\ LeftBehind
    /\ tmp = [w \in Workers |-> Absent]
    /\ enabled = TRUE
    /\ maxBytes = InitialQuota
    /\ pinned = {}
    /\ mounts = NoOne
    /\ stop = FALSE
    /\ wk = [w \in Workers |-> WorkerIdle]
    /\ cmd = [c \in Commands |-> CmdIdle]
    /\ ev = [EvLoop EXCEPT !.pc = IF RunsSweeper THEN "loop" ELSE "exited"]
    /\ budget = [total |-> 0, cap |-> 0]
    /\ settled = [k \in Keys |-> 0]
    /\ exposed = {}
    /\ wanted = TRUE
    /\ rotten = {}

-----------------------------------------------------------------------------
(* Reading one block: get_range around get_block *)

\* floor is what an upload that has already finished entitles this read to.
StartRead(w) ==
    /\ wk[w].pc = "idle"
    /\ \E k \in Keys, o \in Offsets :
          wk' = [wk EXCEPT ![w] = [WorkerIdle EXCEPT !.pc = "lookup", !.key = k,
                                       !.off = o, !.floor = settled[k]]]
    /\ UNCHANGED <<store, conf, cmd, sweep, hist>>

\* get_range goes straight to the object store when the cache is off.
Bypass(w) ==
    /\ wk[w].pc = "lookup"
    /\ ~enabled
    /\ wk' = [wk EXCEPT ![w].pc = "done", ![w].ver = s3[wk[w].key]]
    /\ UNCHANGED <<store, conf, cmd, sweep, hist>>

\* The row query names key and offset only: any length may come back first.
LookupHit(w) ==
    /\ wk[w].pc = "lookup"
    /\ enabled
    /\ \E b \in RowsAt(wk[w].key, wk[w].off) :
          wk' = [wk EXCEPT ![w].pc = "open", ![w].len = b.len]
    /\ UNCHANGED <<store, conf, cmd, sweep, hist>>

\* get_block misses as well when the cache went off since get_range looked.
LookupMiss(w) ==
    /\ wk[w].pc = "lookup"
    /\ ~enabled \/ RowsAt(wk[w].key, wk[w].off) = {}
    /\ Goto(w, "fetch")
    /\ UNCHANGED <<store, conf, cmd, sweep, hist>>

\* A row whose file is gone is a miss; the row stays.
OpenMissing(w) ==
    /\ wk[w].pc = "open"
    /\ files[Target(w)] = Absent
    /\ Goto(w, "fetch")
    /\ UNCHANGED <<store, conf, cmd, sweep, hist>>

OpenHit(w) ==
    /\ wk[w].pc = "open"
    /\ files[Target(w)] # Absent
    /\ files[Target(w)].whole
    /\ wk' = [wk EXCEPT ![w].pc = "done", ![w].ver = files[Target(w)].ver]
    /\ UNCHANGED <<store, conf, cmd, sweep, hist>>

\* Decryption or the length check fails: drop the row, then the file, and miss.
OpenBad(w) ==
    /\ wk[w].pc = "open"
    /\ files[Target(w)] # Absent
    /\ ~files[Target(w)].whole
    /\ Goto(w, "dropRow")
    /\ UNCHANGED <<store, conf, cmd, sweep, hist>>

\* remove_row takes the rows of every length, and only one file goes.
DropBadRow(w) ==
    /\ wk[w].pc = "dropRow"
    /\ LET gone == RowsAt(wk[w].key, wk[w].off)
       IN  /\ rows' = rows \ gone
           /\ strays' = strays \cup {b \in gone \ {Target(w)} : files[b] # Absent}
    /\ Goto(w, "dropFile")
    /\ UNCHANGED <<s3, files, tmp, conf, cmd, sweep, settled, exposed, wanted, rotten>>

\* The error of remove_row is ignored.
DropBadRowFails(w) ==
    /\ wk[w].pc = "dropRow"
    /\ Goto(w, "dropFile")
    /\ UNCHANGED <<store, conf, cmd, sweep, hist>>

DroppedFile(w) ==
    /\ wk[w].pc = "dropFile"
    /\ Goto(w, "fetch")
    /\ UNCHANGED <<s3, rows, tmp, conf, cmd, sweep, settled, exposed, wanted, rotten>>

DropBadFile(w)      == DroppedFile(w) /\ Removes(Target(w))
DropBadFileFails(w) == DroppedFile(w) /\ RemoveFails(Target(w))

Fetch(w) ==
    /\ wk[w].pc = "fetch"
    /\ LET v == s3[wk[w].key]
       IN  wk' = [wk EXCEPT ![w] = [@ EXCEPT !.pc = "put", !.ver = v,
                                                 !.len = BlockLen[v]]]
    /\ UNCHANGED <<store, conf, cmd, sweep, hist>>

\* The range request fails and the read with it.
FetchFails(w) ==
    /\ wk[w].pc = "fetch"
    /\ wk' = [wk EXCEPT ![w] = WorkerIdle]
    /\ UNCHANGED <<store, conf, cmd, sweep, hist>>

FinishRead(w) ==
    /\ wk[w].pc = "done"
    /\ wk' = [wk EXCEPT ![w] = WorkerIdle]
    /\ UNCHANGED <<store, conf, cmd, sweep, hist>>

-----------------------------------------------------------------------------
(* put_block *)

PutCheck(w) ==
    /\ wk[w].pc = "put"
    /\ Goto(w, IF enabled THEN "create" ELSE "done")
    /\ UNCHANGED <<store, conf, cmd, sweep, hist>>

\* File::create truncates whatever the name held.
PutCreate(w) ==
    /\ wk[w].pc = "create"
    /\ tmp' = [tmp EXCEPT ![TmpName(w)] = [ver |-> wk[w].ver, whole |-> FALSE]]
    /\ Goto(w, "write")
    /\ UNCHANGED <<s3, rows, files, conf, cmd, sweep, hist>>

PutWrite(w) ==
    /\ wk[w].pc = "write"
    /\ tmp' = [tmp EXCEPT ![TmpName(w)] = [ver |-> wk[w].ver, whole |-> TRUE]]
    /\ Goto(w, "rename")
    /\ UNCHANGED <<s3, rows, files, conf, cmd, sweep, hist>>

PutRename(w) ==
    /\ wk[w].pc = "rename"
    /\ tmp[TmpName(w)] # Absent
    /\ files' = [files EXCEPT ![Target(w)] = tmp[TmpName(w)]]
    /\ tmp' = [tmp EXCEPT ![TmpName(w)] = Absent]
    /\ Goto(w, "index")
    /\ UNCHANGED <<s3, rows, conf, cmd, sweep, hist>>

\* Any of the three file operations fails (the disk is full, say): the
\* temporary file goes and the block is not cached.
PutFails(w) ==
    /\ wk[w].pc \in {"create", "write", "rename"}
    /\ tmp' = [tmp EXCEPT ![TmpName(w)] = Absent]
    /\ Goto(w, "done")
    /\ UNCHANGED <<s3, rows, files, conf, cmd, sweep, hist>>

\* Mutant of StillEnabled: no second look, as before v0.3.1.
AssumeEnabled == TRUE

\* What put_block sees when it looks at the flag again under the index lock.
StillEnabled == enabled

PutIndex(w) ==
    /\ wk[w].pc = "index"
    /\ StillEnabled
    /\ rows' = rows \cup {Target(w)}
    /\ strays' = strays \ {Target(w)}
    /\ ev' = [ev EXCEPT !.skewed = (ev.pc # "loop" /\ ev.pc # "exited")]
    /\ Goto(w, "done")
    /\ UNCHANGED <<s3, files, tmp, conf, cmd, budget, settled, exposed, wanted, rotten>>

\* The error of the INSERT is ignored: the file is there and no row.
PutIndexFails(w) ==
    /\ wk[w].pc = "index"
    /\ StillEnabled
    /\ strays' = strays \cup {Target(w)}
    /\ Goto(w, "done")
    /\ UNCHANGED <<store, conf, cmd, sweep, settled, exposed, wanted, rotten>>

\* Mutant of PutRefused: the block file already written is left behind.
PutRefusedKeepsFile(w) ==
    /\ wk[w].pc = "index"
    /\ ~StillEnabled
    /\ Goto(w, "done")
    /\ UNCHANGED <<store, conf, cmd, sweep, hist>>

PutRefused(w) ==
    /\ wk[w].pc = "index"
    /\ ~StillEnabled
    /\ Goto(w, "dropNew")
    /\ UNCHANGED <<store, conf, cmd, sweep, hist>>

DroppedNew(w) ==
    /\ wk[w].pc = "dropNew"
    /\ Goto(w, "done")
    /\ UNCHANGED <<s3, rows, tmp, conf, cmd, sweep, settled, exposed, wanted, rotten>>

PutDrop(w)      == DroppedNew(w) /\ Removes(Target(w))
PutDropFails(w) == DroppedNew(w) /\ RemoveFails(Target(w))

-----------------------------------------------------------------------------
(* Our own upload, delete or rename, and invalidate_key after it *)

\* Workers that hold fetched bytes of k and have still to index them.
Storing(k) ==
    {w \in Workers : /\ wk[w].pc \in {"put", "create", "write", "rename", "index"}
                     /\ wk[w].key = k}

Upload(w) ==
    /\ wk[w].pc = "idle"
    /\ \E k \in Keys :
          /\ s3[k] < MaxVersion
          /\ s3' = [s3 EXCEPT ![k] = @ + 1]
          /\ wk' = [wk EXCEPT ![w] = [WorkerIdle EXCEPT !.pc = "invRows",
                                          !.key = k, !.ver = s3[k] + 1]]
          /\ exposed' = IF Storing(k) = {} THEN exposed ELSE exposed \cup {k}
    /\ UNCHANGED <<rows, files, tmp, conf, cmd, sweep, settled, wanted, strays, rotten>>

InvalidateRows(w) ==
    /\ wk[w].pc = "invRows"
    /\ rows' = rows \ KeyRows(wk[w].key)
    /\ wk' = [wk EXCEPT ![w].pc = "invFiles", ![w].todo = KeyRows(wk[w].key)]
    /\ UNCHANGED <<s3, files, tmp, conf, cmd, sweep, hist>>

\* The index cannot be read (prepare), or not to the end (collect), or its rows not be
\* deleted: invalidate_key goes on with what it has and tells nobody.
InvalidateRowsFail(w) ==
    /\ wk[w].pc = "invRows"
    /\ LET ours == KeyRows(wk[w].key)
       IN  \E found \in {{}, ours} :
             /\ wk' = [wk EXCEPT ![w].pc = "invFiles", ![w].todo = found]
             /\ \/ /\ exposed' = exposed \cup {wk[w].key}
                   /\ UNCHANGED <<rows, strays>>
                \/ /\ rows' = rows \ ours
                   /\ strays' = strays \cup (ours \ found)
                   /\ exposed' = exposed
    /\ UNCHANGED <<s3, files, tmp, conf, cmd, sweep, settled, wanted, rotten>>

Invalidated(w, b) ==
    /\ wk[w].pc = "invFiles"
    /\ b \in wk[w].todo
    /\ wk' = [wk EXCEPT ![w].todo = @ \ {b}]
    /\ UNCHANGED <<s3, rows, tmp, conf, cmd, sweep, settled, exposed, wanted, rotten>>

InvalidateFile(w)      == \E b \in wk[w].todo : Invalidated(w, b) /\ Removes(b)
InvalidateFileFails(w) == \E b \in wk[w].todo : Invalidated(w, b) /\ RemoveFails(b)

InvalidateDone(w) ==
    /\ wk[w].pc = "invFiles"
    /\ wk[w].todo = {}
    /\ settled' = [settled EXCEPT ![wk[w].key] = IF wk[w].ver > @ THEN wk[w].ver ELSE @]
    /\ wk' = [wk EXCEPT ![w] = WorkerIdle]
    /\ UNCHANGED <<store, conf, cmd, sweep, exposed, wanted, strays, rotten>>

-----------------------------------------------------------------------------
(* Tauri commands.  Those that reach a live cache hold the mounts mutex. *)

\* Mutant of ClearStart: clear_all runs without the mounts mutex.
ClearStartUnlocked(c) ==
    /\ cmd[c].pc = "idle"
    /\ enabled' = FALSE
    /\ cmd' = [cmd EXCEPT ![c].pc = "clearRows", ![c].was = enabled]
    /\ UNCHANGED <<store, maxBytes, pinned, mounts, stop, wk, sweep, hist>>

ClearStart(c) ==
    /\ cmd[c].pc = "idle"
    /\ mounts = NoOne
    /\ mounts' = c
    /\ enabled' = FALSE
    /\ cmd' = [cmd EXCEPT ![c].pc = "clearRows", ![c].was = enabled]
    /\ UNCHANGED <<store, maxBytes, pinned, stop, wk, sweep, hist>>

ClearRows(c) ==
    /\ cmd[c].pc = "clearRows"
    /\ rows' = {}
    /\ cmd' = [cmd EXCEPT ![c].pc = "clearFiles", ![c].todo = rows]
    /\ UNCHANGED <<s3, files, tmp, conf, wk, sweep, hist>>

\* As in InvalidateRowsFail: rows that could not be deleted are left ("clearLeft"), or
\* files whose rows could not be read.
ClearRowsFail(c) ==
    /\ cmd[c].pc = "clearRows"
    /\ \E found \in {{}, rows} :
          \/ /\ cmd' = [cmd EXCEPT ![c].pc = "clearLeft", ![c].todo = found]
             /\ UNCHANGED <<rows, strays>>
          \/ /\ cmd' = [cmd EXCEPT ![c].pc = "clearFiles", ![c].todo = found]
             /\ rows' = {}
             /\ strays' = strays \cup (rows \ found)
    /\ UNCHANGED <<s3, files, tmp, conf, wk, sweep, settled, exposed, wanted, rotten>>

Cleared(c, b) ==
    /\ cmd[c].pc \in {"clearFiles", "clearLeft"}
    /\ b \in cmd[c].todo
    /\ cmd' = [cmd EXCEPT ![c].todo = @ \ {b}]
    /\ UNCHANGED <<s3, rows, tmp, conf, wk, sweep, settled, exposed, wanted, rotten>>

ClearFile(c)      == \E b \in cmd[c].todo : Cleared(c, b) /\ Removes(b)
ClearFileFails(c) == \E b \in cmd[c].todo : Cleared(c, b) /\ RemoveFails(b)

ClearDone(c) ==
    /\ cmd[c].pc \in {"clearFiles", "clearLeft"}
    /\ cmd[c].todo = {}
    /\ enabled' = cmd[c].was
    /\ mounts' = NoOne
    /\ cmd' = [cmd EXCEPT ![c] = CmdIdle]
    /\ UNCHANGED <<store, maxBytes, pinned, stop, wk, sweep, hist>>

SetQuota(c) ==
    /\ cmd[c].pc = "idle"
    /\ mounts = NoOne
    /\ \E q \in Quotas : maxBytes' = q /\ enabled' = (q > 0)
    /\ wanted' = enabled'
    /\ UNCHANGED <<store, pinned, mounts, stop, wk, cmd, sweep, settled,
                   exposed, strays, rotten>>

SetEnabled(c) ==
    /\ cmd[c].pc = "idle"
    /\ mounts = NoOne
    /\ enabled' \in BOOLEAN
    /\ wanted' = enabled'
    /\ UNCHANGED <<store, maxBytes, pinned, mounts, stop, wk, cmd, sweep, settled,
                   exposed, strays, rotten>>

\* pin and unpin go to pinned_keys on another connection, with no mutex held.
Pin(c) ==
    /\ cmd[c].pc = "idle"
    /\ \E k \in Keys : pinned' = pinned \cup {k}
    /\ UNCHANGED <<store, enabled, maxBytes, mounts, stop, wk, cmd, sweep, hist>>

Unpin(c) ==
    /\ cmd[c].pc = "idle"
    /\ \E k \in Keys : pinned' = pinned \ {k}
    /\ UNCHANGED <<store, enabled, maxBytes, mounts, stop, wk, cmd, sweep, hist>>

-----------------------------------------------------------------------------
(* The sweeper *)

\* A wake-up with the cache off, no cap or the index within it changes nothing.
\* The cap is loaded just before the index is read; the properties of a sweep
\* speak of the cap it loaded, so the two are one step here.
SweepStart ==
    /\ ev.pc = "loop"
    /\ ~stop
    /\ enabled
    /\ maxBytes # 0
    /\ Used > maxBytes
    /\ budget' = [total |-> Used, cap |-> maxBytes]
    /\ ev' = [EvLoop EXCEPT !.pc = "sweep", !.victims = VictimRows, !.spared = pinned]
    /\ UNCHANGED <<store, conf, wk, cmd, hist>>

\* Mutant of WithinCap: the sweep gives up one byte early.
NearCap(total, cap) == total <= cap + 1

WithinCap(total, cap) == total <= cap

Swept(b) ==
    /\ ev.pc = "sweep"
    /\ ~WithinCap(budget.total, budget.cap)
    /\ b \in ev.victims
    /\ ev' = [ev EXCEPT !.pc = "sweepRow", !.victim = b]
    /\ UNCHANGED <<s3, rows, tmp, conf, wk, cmd, budget, settled, exposed, wanted, rotten>>

SweepFile      == \E b \in ev.victims : Swept(b) /\ Removes(b)
SweepFileFails == \E b \in ev.victims : Swept(b) /\ RemoveFails(b)

\* Mutant of SweepRow: the victim is not struck off and its size not counted.
SweepRowForgets ==
    /\ ev.pc = "sweepRow"
    /\ rows' = rows \ {ev.victim}
    /\ ev' = [ev EXCEPT !.pc = "sweep", !.victim = Absent]
    /\ UNCHANGED <<s3, files, tmp, conf, wk, cmd, budget, hist>>

\* Its file may be there again by now, put by a reader: then it loses its row.
SweepRow ==
    /\ ev.pc = "sweepRow"
    /\ rows' = rows \ {ev.victim}
    /\ strays' = IF files[ev.victim] # Absent THEN strays \cup {ev.victim} ELSE strays
    /\ budget' = [budget EXCEPT !.total = @ - DiskLen(ev.victim)]
    /\ ev' = [ev EXCEPT !.pc = "sweep", !.victims = @ \ {ev.victim}, !.victim = Absent]
    /\ UNCHANGED <<s3, files, tmp, conf, wk, cmd, settled, exposed, wanted, rotten>>

\* The error of the DELETE is ignored, and the size is counted as freed.
SweepRowFails ==
    /\ ev.pc = "sweepRow"
    /\ budget' = [budget EXCEPT !.total = @ - DiskLen(ev.victim)]
    /\ ev' = [ev EXCEPT !.pc = "sweep", !.victims = @ \ {ev.victim}, !.victim = Absent,
                        !.skewed = TRUE]
    /\ UNCHANGED <<store, conf, wk, cmd, hist>>

SweepOver == ev.pc = "sweep" /\ (WithinCap(budget.total, budget.cap) \/ ev.victims = {})

SweepDone ==
    /\ SweepOver
    /\ ev' = EvLoop
    /\ UNCHANGED <<store, conf, wk, cmd, budget, hist>>

\* stop() raises the flag and joins the sweeper, which looks at it between sweeps.
Stop ==
    /\ ~stop
    /\ stop' = TRUE
    /\ UNCHANGED <<store, enabled, maxBytes, pinned, mounts, wk, cmd, sweep, hist>>

SweeperExits ==
    /\ ev.pc = "loop"
    /\ stop
    /\ ev' = [ev EXCEPT !.pc = "exited"]
    /\ UNCHANGED <<store, conf, wk, cmd, budget, hist>>

-----------------------------------------------------------------------------
(* The environment *)

RemoteWrite ==
    /\ RemoteWrites
    /\ \E k \in Keys : s3[k] < MaxVersion /\ s3' = [s3 EXCEPT ![k] = @ + 1]
    /\ UNCHANGED <<rows, files, tmp, conf, wk, cmd, sweep, hist>>

\* Bound: at most one damaged file at a time.
Rot ==
    /\ FilesMayRot
    /\ \A b \in Blocks : files[b] # Absent => files[b].whole
    /\ \E b \in Blocks : /\ files[b] # Absent
                         /\ files' = [files EXCEPT ![b].whole = FALSE]
                         /\ rotten' = rotten \cup {b}
    /\ UNCHANGED <<s3, rows, tmp, conf, wk, cmd, sweep, settled, exposed, wanted, strays>>

\* The process ends, at whatever step its threads are, and the drive is mounted again: a
\* new DiskCache over the same directory and index, with the quota of the drive's row.
Restart ==
    /\ tmp' = [w \in Workers |-> Absent]
    /\ enabled' = TRUE
    /\ maxBytes' \in (Quotas \cup {InitialQuota}) \ {0}
    /\ mounts' = NoOne
    /\ stop' = FALSE
    /\ wk' = [w \in Workers |-> WorkerIdle]
    /\ cmd' = [c \in Commands |-> CmdIdle]
    /\ ev' = [EvLoop EXCEPT !.pc = IF RunsSweeper THEN "loop" ELSE "exited"]
    /\ wanted' = TRUE
    /\ strays' = strays \cup Orphans
    /\ UNCHANGED <<s3, rows, files, pinned, budget, settled, exposed, rotten>>

-----------------------------------------------------------------------------
WorkerStep(w) ==
    \/ StartRead(w) \/ Bypass(w) \/ LookupHit(w) \/ LookupMiss(w)
    \/ OpenMissing(w) \/ OpenHit(w) \/ OpenBad(w) \/ DropBadRow(w)
    \/ DropBadFile(w) \/ Fetch(w) \/ FetchFails(w) \/ FinishRead(w)
    \/ PutCheck(w) \/ PutCreate(w) \/ PutWrite(w) \/ PutRename(w)
    \/ PutFails(w) \/ PutIndex(w) \/ PutRefused(w) \/ PutDrop(w)
    \/ Upload(w) \/ InvalidateRows(w) \/ InvalidateFile(w) \/ InvalidateDone(w)

CommandStep(c) ==
    \/ ClearStart(c) \/ ClearRows(c) \/ ClearFile(c) \/ ClearDone(c)
    \/ SetQuota(c) \/ SetEnabled(c) \/ Pin(c) \/ Unpin(c)

SweeperStep == SweepStart \/ SweepFile \/ SweepRow \/ SweepDone \/ SweeperExits

\* A statement or a removal that fails, which the code ignores, and the end of the process.
WorkerFault(w) ==
    \/ DropBadRowFails(w) \/ DropBadFileFails(w) \/ PutIndexFails(w)
    \/ PutDropFails(w) \/ InvalidateRowsFail(w) \/ InvalidateFileFails(w)

CommandFault(c) == ClearRowsFail(c) \/ ClearFileFails(c)

SweeperFault == SweepFileFails \/ SweepRowFails

Fault ==
    \/ \E w \in Workers : WorkerFault(w)
    \/ \E c \in Commands : CommandFault(c)
    \/ SweeperFault
    \/ Restart

Step ==
    \/ \E w \in Workers : WorkerStep(w)
    \/ \E c \in Commands : CommandStep(c)
    \/ SweeperStep
    \/ Stop
    \/ RemoteWrite
    \/ Rot

Next == Step \/ Fault

Spec == Init /\ [][Next]_vars

\* The sweeper is a thread of its own and is scheduled.
FairSpec == Spec /\ WF_vars(SweeperStep)

-----------------------------------------------------------------------------
(* Properties *)

WorkerLabels == {"idle", "lookup", "open", "dropRow", "dropFile", "fetch", "put",
                 "create", "write", "rename", "index", "dropNew", "done",
                 "invRows", "invFiles"}

WorkerStates ==
    [pc : WorkerLabels, key : Keys, off : Offsets, len : Lens, ver : Versions,
     floor : Versions, todo : SUBSET Blocks]

CommandStates ==
    [pc : {"idle", "clearRows", "clearFiles", "clearLeft"}, was : BOOLEAN,
     todo : SUBSET Blocks]

SweeperStates ==
    [pc : {"loop", "sweep", "sweepRow", "exited"}, victims : SUBSET Blocks,
     victim : Blocks \cup {Absent}, spared : SUBSET Keys, skewed : BOOLEAN]

\* Every variable stays within its type.  (The sweeper's arithmetic in budget is
\* the business of SweepMeetsCap.)
TypeOK ==
    /\ s3 \in [Keys -> Versions]
    /\ rows \subseteq Blocks
    /\ files \in [Blocks -> FileStates]
    /\ tmp \in [Workers -> FileStates]
    /\ enabled \in BOOLEAN
    /\ maxBytes \in Nat
    /\ pinned \subseteq Keys
    /\ mounts \in Commands \cup {NoOne}
    /\ stop \in BOOLEAN
    /\ wk \in [Workers -> WorkerStates]
    /\ cmd \in [Commands -> CommandStates]
    /\ ev \in SweeperStates /\ (ev.pc = "sweepRow" => ev.victim \in Blocks)
    /\ settled \in [Keys -> Versions]
    /\ exposed \subseteq Keys
    /\ wanted \in BOOLEAN
    /\ strays \subseteq Blocks
    /\ rotten \subseteq Blocks

\* No call that touches the cache is under way.
Quiescent ==
    /\ \A w \in Workers : wk[w].pc = "idle"
    /\ \A c \in Commands : cmd[c].pc = "idle"
    /\ ev.pc \in {"loop", "exited"}

\* Concurrent put_block calls for one block, whatever their order, never leave a
\* partly written file where get_block looks: what the unique temporary names and
\* the rename are for (cache.rs, comment at put_block's temporary file).  Nor does a
\* process that ends between any two of their steps: a block that is not whole was
\* damaged on disk.
NoTornBlock ==
    \A b \in Blocks : files[b] # Absent /\ b \notin rotten => files[b].whole

\* Once clear_all has emptied the index, no put_block that was already past its
\* first look at the flag adds a row before the clear is over.
ClearedStaysEmpty ==
    \A c \in Commands : cmd[c].pc = "clearFiles" => rows = {} /\ ~enabled

\* Clears and settings from several windows may overlap; when none is under way
\* the cache is on exactly if the user last asked for it.
ClearRestoresSetting == mounts = NoOne => enabled = wanted

\* A read that starts after an upload of its key has returned sees that upload or
\* a later one, provided no block of the key was on its way into the cache when
\* the upload landed and the index could be read and changed; whatever files earlier
\* mounts left, whichever removals fail, and across restarts.
FreshUnlessExposed ==
    \A w \in Workers :
        wk[w].pc = "done" /\ wk[w].key \notin exposed => wk[w].ver >= wk[w].floor

\* At rest a file without a row, which no lookup serves and no sweep counts, is one that
\* a failed statement or removal left, a sweep or a clean-up that took its row, or a
\* process that ended; uploads, clears, toggles and readers make none in any
\* interleaving, since each of them takes rows away before the files and has the files
\* on its list.  Once it is put again it is no stray any more.
OrphansAreStrays == Quiescent => Orphans \subseteq strays

\* What is on disk is fit to be served, and what the index does not know is accounted for.
FilesSound == NoTornBlock /\ OrphansAreStrays

\* A sweep during which nothing was added and no row failed to go ends within the cap
\* it read, unless all that is left belongs to keys that were pinned when it began,
\* however many uploads, clears and pins ran beside it.
SweepMeetsCap ==
    SweepOver /\ ~ev.skewed =>
        Used <= budget.cap \/ \A b \in rows : b.key \in ev.spared

\* A step of the sweeper takes neither row nor file of a key that was pinned when
\* the sweep began.
PinnedSurviveSweep ==
    [][wk' = wk /\ cmd' = cmd /\ ev' # ev =>
        \A b \in Blocks : b.key \in ev.spared =>
            /\ b \in rows => b \in rows'
            /\ files[b] # Absent => files'[b] # Absent]_vars

\* stop() joins the sweeper, and the join returns: a sweep over any number of
\* victims, with rows coming and going beside it, is finite.  Only the end of the process
\* comes before it.
StopReturns == stop ~> (ev.pc = "exited" \/ ~stop)
=============================================================================
