--------------------------- MODULE MountLifecycle ---------------------------
(***************************************************************************)
(* The life of the mounted drives: the rows of the drives table, the map   *)
(* AppState.mounts of live handles, one WinFsp thread per mount, and the   *)
(* commands and the start-up task that work on them (commands/drives.rs,   *)
(* commands/system.rs, lib.rs, mounts.rs, credentials.rs).                 *)
(*                                                                         *)
(* Every command is async: it takes the lock of the map or of the database *)
(* for one statement at a time and runs interleaved with the others, so a  *)
(* step below is what happens under one lock.  The mount itself takes      *)
(* seconds on a thread of its own, and its handle enters the map at the    *)
(* end of it.                                                              *)
(***************************************************************************)
EXTENDS Naturals, FiniteSets

CONSTANTS
    Tasks,        \* commands that may be in progress at the same time
    Boot,         \* {} or the one task of auto_mount_drives
    Threads,      \* slots for WinFsp threads
    MaxDrives,    \* ids in the drives table are 1..MaxDrives
    OldDrives,    \* how many drives are there at the start
    MaxCommands,  \* how many commands begin
    Scenes,       \* the circumstances a behaviour may take place in
    Pro,          \* there is a Pro licence
    None

(***************************************************************************)
(* A scene bounds one family of behaviours: what the user does, how many   *)
(* commands begin, which tasks there are (with or without the one of the   *)
(* start-up), the size of the table, the letters and which the old rows    *)
(* have, whether those hold their secrets in plain text, and whether       *)
(* wrapping one may fail.                                                  *)
(***************************************************************************)
ASSUME BoundsAssumption ==
    /\ MaxDrives \in Nat /\ OldDrives \in Nat /\ MaxCommands \in Nat /\ Pro \in BOOLEAN
    /\ Boot \cap Tasks = {} /\ Cardinality(Boot) <= 1
    /\ IsFiniteSet(Tasks \cup Boot) /\ None \notin Threads \cup Nat /\ Threads \cap Nat = {}
    /\ \A s \in Scenes :
          /\ s.tasks \subseteq Tasks \cup Boot /\ s.tasks \cap Tasks # {}
          /\ s.drives \in OldDrives..MaxDrives /\ s.most \in 0..MaxCommands
          /\ s.letters \subseteq Nat /\ s.taken \in [1..OldDrives -> s.letters]
          /\ \A i, j \in 1..OldDrives : s.taken[i] = s.taken[j] => i = j
          /\ {s.legacy, s.mayFail} \subseteq BOOLEAN
          /\ Cardinality(Threads) >= s.drives + Cardinality(s.tasks)

FreeTier == 2

VARIABLES
    scene,    \* the circumstances; they do not change
    row,      \* the drives table
    mounts,   \* AppState.mounts: the live thread of each drive
    thread,   \* the WinFsp threads
    task,     \* the commands in progress
    blocks,   \* whose blocks cache_entries holds under each drive id
    shown,    \* the last drive_status_changed of each drive
    begun,    \* commands begun; names what each of them wrote
    reset,    \* the last command begun is a factory reset, whose wipe has not failed
    up        \* the process runs
vars == <<scene, row, mounts, thread, task, blocks, shown, begun, reset, up>>

Ids  == 1..MaxDrives
Gens == 0..MaxCommands + MaxDrives
All  == Tasks \cup Boot
Letters == UNION {s.letters : s \in Scenes}

(***************************************************************************)
(* A row: which drive it is (the command that added it), its letter, and   *)
(* the commands that wrote its access key, its secret and its prefix.      *)
(***************************************************************************)
Row == [inc : Gens, letter : Letters, key : Gens, secret : Gens \cup {None},
        plain : BOOLEAN, prefix : Gens]
Rows == {i \in Ids : row[i] # None}

(***************************************************************************)
(* A thread: what spawn_mount was given, how far it is, and whether its    *)
(* stop channel has fired (told: sent, or its sender dropped).  net is the *)
(* flag of its file system that says whether the store answered last: the  *)
(* request that turns it emits the event only then, so events may be due   *)
(* (calm: none has fallen due beside another or before "mounted").         *)
(***************************************************************************)
Net    == [online : BOOLEAN, due : SUBSET BOOLEAN, calm : BOOLEAN]
Online == [online |-> TRUE, due |-> {}, calm |-> TRUE]
Config == [id : Ids, inc : Gens, letter : Letters, key : Gens,
           secret : Gens \cup {None}, prefix : Gens]
Thread == [st : {"none", "starting", "failed", "ready", "parked", "leaving", "gone"},
           cfg : Config \cup {None}, told : BOOLEAN, net : Net]
Task == [pc : {"idle", "read", "secret", "migrate", "spawn", "waiting", "joining",
               "insert", "stopping", "delete", "key", "store", "prefix", "adding",
               "placed", "next", "snapshot", "resetting", "wipe", "exiting"},
         id : Ids \cup {None}, at : Threads \cup {None}, gen : Gens,
         got : Config \cup {None}, todo : SUBSET (Ids \cup Threads), rows : SUBSET Config]

\* None is told from what there is.
ASSUME NoneAssumption == None \notin Row \cup Config

Holding == {t \in Threads : thread[t].st \in {"ready", "parked"}}
Running == {t \in Threads : thread[t].st \in {"starting", "ready", "parked", "leaving"}}
Joined  == [st |-> "none", cfg |-> None, told |-> FALSE, net |-> Online]
Idle    == [pc |-> "idle", id |-> None, at |-> None, gen |-> 0, got |-> None, todo |-> {},
            rows |-> {}]

Init ==
    /\ scene \in Scenes
    /\ row = [i \in Ids |-> IF i > OldDrives THEN None
                ELSE [inc |-> i, letter |-> scene.taken[i], key |-> 0, secret |-> 0,
                      plain |-> scene.legacy, prefix |-> 0]]
    /\ mounts = [i \in Ids |-> None]
    /\ thread = [t \in Threads |-> Joined]
    /\ task = [p \in All |-> IF p \in Boot \cap scene.tasks
                             THEN [Idle EXCEPT !.pc = "snapshot"] ELSE Idle]
    /\ blocks = [i \in Ids |-> {}]
    /\ shown = [i \in Ids |-> "offline"]
    /\ begun = 0 /\ reset = FALSE /\ up = TRUE

(***************************************************************************)
(* Building blocks of the steps.                                           *)
(***************************************************************************)
At(p, pc) == up /\ task[p].pc = pc
Join(p)     == thread' = [thread EXCEPT ![task[p].at] = Joined]
Goto(p, pc) == task' = [task EXCEPT ![p].pc = pc]
Return(p)   == task' = [task EXCEPT ![p] = IF p \in Boot
                          THEN [Idle EXCEPT !.pc = "next", !.rows = task[p].rows] ELSE Idle]
Show(i, s)  == shown' = [shown EXCEPT ![i] = s]
ConfigOf(i) == [id |-> i, inc |-> row[i].inc, letter |-> row[i].letter, key |-> row[i].key,
                secret |-> None, prefix |-> row[i].prefix]

\* The task a command runs as: one that is free, it does not matter which.
Free == LET mine == Tasks \cap scene.tasks
        IN  CHOOSE p \in mine : task[p].pc = "idle" \/ \A q \in mine : task[q].pc # "idle"

Begin(p, cmd, pc, i, t, todo) ==
    /\ cmd \in scene.commands /\ p = Free /\ At(p, "idle") /\ begun < scene.most
    /\ begun' = begun + 1 /\ reset' = (cmd = "reset") /\ UNCHANGED <<scene, up>>
    /\ task' = [task EXCEPT ![p] = [pc |-> pc, id |-> i, at |-> t, todo |-> todo,
                                    rows |-> {}, got |-> None,
                                    gen |-> MaxDrives + begun + 1]]

Quiet == UNCHANGED <<scene, begun, reset, up>>

(***************************************************************************)
(* mount_drive: refused when the map has the drive; then the row, then the *)
(* secret, each under the lock of the database.                            *)
(***************************************************************************)
NotMounted(i) == mounts[i] = None

Mount(p, i) ==
    /\ NotMounted(i) /\ Begin(p, "mount", "read", i, None, {})
    /\ UNCHANGED <<row, mounts, thread, blocks, shown>>

MountRead(p) ==
    LET i == task[p].id
    IN  /\ At(p, "read")
        /\ IF row[i] = None THEN Return(p)
           ELSE task' = [task EXCEPT ![p].pc = "secret", ![p].got = ConfigOf(i)]
        /\ UNCHANGED <<row, mounts, thread, blocks, shown>> /\ Quiet

(***************************************************************************)
(* credentials::retrieve: a secret found in plain text is wrapped and      *)
(* written back in a statement of its own.                                 *)
(***************************************************************************)
Retrieve(p) ==
    LET i == task[p].id
        found == row[i] # None /\ row[i].secret # None
    IN  /\ At(p, "secret")
        /\ IF ~found THEN Return(p)
           ELSE task' = [task EXCEPT ![p].pc = IF row[i].plain THEN "migrate" ELSE "spawn",
                                     ![p].got.secret = row[i].secret]
        /\ IF ~found /\ p \in Boot THEN Show(i, "error") ELSE UNCHANGED shown
        /\ UNCHANGED <<row, mounts, thread, blocks>> /\ Quiet

Stored(i, s) == IF row[i] = None THEN row
                ELSE [row EXCEPT ![i].secret = s, ![i].plain = FALSE]

StoreEnds(i, s, failed) == \/ row' = Stored(i, s)
                           \/ scene.mayFail /\ row' = failed

Migrate(p) ==
    /\ At(p, "migrate")
    /\ StoreEnds(task[p].id, task[p].got.secret, row)
    /\ Goto(p, "spawn")
    /\ UNCHANGED <<mounts, thread, blocks, shown>> /\ Quiet

(***************************************************************************)
(* spawn_mount: the thread starts, and the caller waits 30 s for its word. *)
(* A handle in the map or in the hands of a command keeps its slot; there  *)
(* are as many threads as there are slots.                                 *)
(***************************************************************************)
Slots == {t \in Threads \ Running : /\ \A i \in Ids : mounts[i] # t
                                    /\ \A p \in All : task[p].at # t}

Spawn(p) ==
    /\ At(p, "spawn") /\ Slots # {}
    /\ LET t == CHOOSE s \in Slots : TRUE
       IN  /\ thread' = [thread EXCEPT ![t] =
                            [st |-> "starting", cfg |-> task[p].got, told |-> FALSE,
                             net |-> Online]]
           /\ task' = [task EXCEPT ![p].pc = "waiting", ![p].at = t]
    /\ Show(task[p].id, "mounting")
    /\ UNCHANGED <<row, mounts, blocks>> /\ Quiet

Failed(p) == /\ Return(p) /\ Join(p)
             /\ IF p \in Boot THEN Show(task[p].id, "error") ELSE UNCHANGED shown

\* Mutant of SpawnReturns: a mount that failed is tried again.
SpawnReturnsOrRetries(p) ==
    LET st == thread[task[p].at].st
    IN  /\ At(p, "waiting") /\ st # "starting"
        /\ IF st = "failed" THEN Goto(p, "spawn") /\ Join(p)
           ELSE Goto(p, "insert") /\ UNCHANGED thread
        /\ UNCHANGED <<row, mounts, blocks, shown>> /\ Quiet

SpawnReturns(p) ==
    LET st == thread[task[p].at].st
    IN  /\ At(p, "waiting") /\ st # "starting"
        /\ IF st = "failed" THEN Failed(p)
           ELSE Goto(p, "insert") /\ UNCHANGED <<thread, shown>>
        /\ UNCHANGED <<row, mounts, blocks>> /\ Quiet

\* Mutant of SpawnTimesOut: the thread is left to itself.
SpawnTimesOutUntold(p) ==
    /\ At(p, "waiting") /\ thread[task[p].at].st = "starting"
    /\ Return(p)
    /\ UNCHANGED <<row, mounts, thread, blocks, shown>> /\ Quiet

\* The caller gives up, tells the thread to stop and waits for it to end.
SpawnTimesOut(p) ==
    /\ At(p, "waiting") /\ thread[task[p].at].st = "starting"
    /\ thread' = [thread EXCEPT ![task[p].at].told = TRUE]
    /\ Goto(p, "joining")
    /\ UNCHANGED <<row, mounts, blocks, shown>> /\ Quiet

SpawnJoined(p) ==
    /\ At(p, "joining") /\ task[p].at \notin Running
    /\ Failed(p)
    /\ UNCHANGED <<row, mounts, blocks>> /\ Quiet

\* A handle that was in the map is dropped, and with it its stop_tx.
Dropped(i) == IF mounts[i] = None THEN thread ELSE [thread EXCEPT ![mounts[i]].told = TRUE]

Insert(p) ==
    LET i == task[p].id
    IN  /\ At(p, "insert")
        /\ mounts' = [mounts EXCEPT ![i] = task[p].at]
        /\ thread' = Dropped(i)
        /\ Return(p)
        /\ UNCHANGED <<row, blocks, shown>> /\ Quiet

(***************************************************************************)
(* auto_mount_drives: the rows once, those that are to be mounted at the   *)
(* start or, if they cannot be read, none; then one after the other.  Rows *)
(* are taken in any order.                                                 *)
(***************************************************************************)
Snapshot(p) ==
    /\ At(p, "snapshot")
    /\ \E auto \in SUBSET Rows :
          task' = [task EXCEPT ![p].pc = "next", ![p].rows = {ConfigOf(i) : i \in auto}]
    /\ UNCHANGED <<row, mounts, thread, blocks, shown>> /\ Quiet

NextRow(p) ==
    /\ p \in Boot /\ At(p, "next")
    /\ IF task[p].rows = {} THEN task' = [task EXCEPT ![p] = Idle]
       ELSE \E c \in task[p].rows :
            LET rest == task[p].rows \ {c}
            IN  task' = [task EXCEPT ![p] = IF NotMounted(c.id)
                    THEN [@ EXCEPT !.pc = "secret", !.id = c.id, !.got = c, !.rows = rest]
                    ELSE [@ EXCEPT !.rows = rest]]
    /\ UNCHANGED <<row, mounts, thread, blocks, shown>> /\ Quiet

(***************************************************************************)
(* The WinFsp thread.  Anything may fail before it serves the drive; a     *)
(* letter serves one volume (external: host.mount refuses a letter that is *)
(* in use).  It announces itself, parks, and leaves when it is told.       *)
(***************************************************************************)
\* Mutant of LetterFree: WinFsp gives a letter to everybody.
LetterShared(t) == TRUE

LetterFree(t) == \A u \in Holding : thread[u].cfg.letter # thread[t].cfg.letter

InitFails(t) ==
    /\ up /\ thread[t].st = "starting"
    /\ thread' = [thread EXCEPT ![t].st = "failed"]
    /\ UNCHANGED <<row, mounts, task, blocks, shown>> /\ Quiet

HostMounts(t) ==
    /\ up /\ thread[t].st = "starting" /\ LetterFree(t)
    /\ thread' = [thread EXCEPT ![t].st = "ready"]
    /\ UNCHANGED <<row, mounts, task, blocks, shown>> /\ Quiet

Announce(t) ==
    /\ up /\ thread[t].st = "ready"
    /\ thread' = [thread EXCEPT ![t].st = "parked"]
    /\ Show(thread[t].cfg.id, "mounted")
    /\ UNCHANGED <<row, mounts, task, blocks>> /\ Quiet

(***************************************************************************)
(* record_connectivity: a read that the store answered, or that did not    *)
(* get through, turns the flag if it said otherwise, and emits the event   *)
(* in a step of its own; requests are served beside each other.  Bound: no *)
(* event falls due a second time before it has been emitted.               *)
(***************************************************************************)
Turns(t) ==
    LET n == thread[t].net
    IN  /\ up /\ t \in Holding /\ "net" \in scene.commands
        /\ (~n.online) \notin n.due
        /\ thread' = [thread EXCEPT ![t].net =
              [online |-> ~n.online, due |-> n.due \cup {~n.online},
               calm |-> n.calm /\ n.due = {} /\ thread[t].st = "parked"]]
        /\ UNCHANGED <<row, mounts, task, blocks, shown>> /\ Quiet

Word(online) == IF online THEN "online" ELSE "offline"

Says(t) ==
    /\ up /\ t \in Running
    /\ \E b \in thread[t].net.due :
          /\ thread' = [thread EXCEPT ![t].net.due = @ \ {b}]
          /\ Show(thread[t].cfg.id, Word(b))
    /\ UNCHANGED <<row, mounts, task, blocks>> /\ Quiet

\* host.stop ends the dispatcher: no request begins any more.
Unmounts(t) ==
    /\ up /\ thread[t].st = "parked" /\ thread[t].told
    /\ thread' = [thread EXCEPT ![t].st = "leaving"]
    /\ UNCHANGED <<row, mounts, task, blocks, shown>> /\ Quiet

\* Mutant of Farewell: no event.
FarewellSilently(t) ==
    /\ up /\ thread[t].st = "leaving" /\ thread[t].net.due = {}
    /\ thread' = [thread EXCEPT ![t].st = "gone"]
    /\ UNCHANGED <<row, mounts, task, blocks, shown>> /\ Quiet

\* When those under way have returned, the drive takes its leave.
Farewell(t) ==
    /\ up /\ thread[t].st = "leaving" /\ thread[t].net.due = {}
    /\ thread' = [thread EXCEPT ![t].st = "gone"]
    /\ Show(thread[t].cfg.id, "offline")
    /\ UNCHANGED <<row, mounts, task, blocks>> /\ Quiet

\* Reading a file of the drive leaves blocks in its cache.
Reads(t) ==
    LET c == thread[t].cfg
    IN  /\ up /\ t \in Holding /\ "read" \in scene.commands
        /\ blocks' = [blocks EXCEPT ![c.id] = @ \cup {c.inc}]
        /\ UNCHANGED <<row, mounts, thread, task, shown>> /\ Quiet

(***************************************************************************)
(* unmount_drive: the handle leaves the map, its thread is told to stop    *)
(* and waited for, and the drive is reported offline.                      *)
(***************************************************************************)
Told(ts) == [t \in Threads |-> IF t \in ts THEN [thread[t] EXCEPT !.told = TRUE]
                                           ELSE thread[t]]

Unmount(p, i) ==
    /\ mounts[i] # None
    /\ Begin(p, "unmount", "stopping", i, mounts[i], {})
    /\ mounts' = [mounts EXCEPT ![i] = None]
    /\ thread' = Told({mounts[i]})
    /\ UNCHANGED <<row, blocks, shown>>

Stopped(p) ==
    /\ At(p, "stopping") /\ task[p].at \notin Running
    /\ Return(p) /\ Join(p) /\ Show(task[p].id, "offline")
    /\ UNCHANGED <<row, mounts, blocks>> /\ Quiet

(***************************************************************************)
(* remove_drive.  The blocks and pins of the drive stay in their tables.   *)
(***************************************************************************)
Remove(p, i) ==
    /\ NotMounted(i) /\ Begin(p, "remove", "delete", i, None, {})
    /\ UNCHANGED <<row, mounts, thread, blocks, shown>>

RemoveRow(p) ==
    /\ At(p, "delete")
    /\ row' = [row EXCEPT ![task[p].id] = None]
    /\ Return(p)
    /\ UNCHANGED <<mounts, thread, blocks, shown>> /\ Quiet

(***************************************************************************)
(* set_drive_credentials: refused when the map has the drive; then the     *)
(* access key, then the secret.  set_drive_prefix: the same check and one  *)
(* write.                                                                  *)
(***************************************************************************)
\* Mutant of SetCredentials: a mounted drive is not refused.
SetCredentialsMounted(p, i) ==
    /\ Begin(p, "credentials", "key", i, None, {})
    /\ UNCHANGED <<row, mounts, thread, blocks, shown>>

SetCredentials(p, i) ==
    /\ NotMounted(i) /\ Begin(p, "credentials", "key", i, None, {})
    /\ UNCHANGED <<row, mounts, thread, blocks, shown>>

SetKey(p) ==
    LET i == task[p].id
    IN  /\ At(p, "key")
        /\ row' = IF row[i] = None THEN row ELSE [row EXCEPT ![i].key = task[p].gen]
        /\ Goto(p, "store")
        /\ UNCHANGED <<mounts, thread, blocks, shown>> /\ Quiet

Store(p) ==
    /\ At(p, "store")
    /\ StoreEnds(task[p].id, task[p].gen, row)
    /\ Return(p)
    /\ UNCHANGED <<mounts, thread, blocks, shown>> /\ Quiet

SetPrefix(p, i) ==
    /\ NotMounted(i) /\ Begin(p, "prefix", "prefix", i, None, {})
    /\ UNCHANGED <<row, mounts, thread, blocks, shown>>

WritePrefix(p) ==
    LET i == task[p].id
    IN  /\ At(p, "prefix")
        /\ row' = IF row[i] = None THEN row ELSE [row EXCEPT ![i].prefix = task[p].gen]
        /\ Return(p)
        /\ UNCHANGED <<mounts, thread, blocks, shown>> /\ Quiet

(***************************************************************************)
(* add_drive: the limit of the free tier, then the row with an empty       *)
(* secret, then the secret, without which the row is taken out again.      *)
(* The id is SQLite's choice for an INTEGER PRIMARY KEY: one more than the *)
(* largest in the table, so the id of a removed drive may come back.       *)
(***************************************************************************)
NextId(i) == (i = 1 \/ i - 1 \in Rows) /\ \A k \in Rows : k < i

Admitted == Pro \/ Cardinality(Rows) < FreeTier

Add(p) ==
    /\ Admitted /\ Begin(p, "add", "adding", None, None, {})
    /\ UNCHANGED <<row, mounts, thread, blocks, shown>>

\* add_onedrive_drive, add_dropbox_drive and add_gdrive_drive know no limit.
AddCloud(p) ==
    /\ Begin(p, "addCloud", "adding", None, None, {})
    /\ UNCHANGED <<row, mounts, thread, blocks, shown>>

AddRow(p) ==
    /\ At(p, "adding")
    /\ \/ \E i \in 1..scene.drives, l \in scene.letters :
             /\ NextId(i) /\ \A k \in Rows : row[k].letter # l
             /\ row' = [row EXCEPT ![i] =
                    [inc |-> task[p].gen, letter |-> l, key |-> task[p].gen,
                     secret |-> None, plain |-> FALSE, prefix |-> task[p].gen]]
             /\ task' = [task EXCEPT ![p].pc = "placed", ![p].id = i]
       \/ /\ Return(p) /\ UNCHANGED row   \* the letter is taken, or the table is full
    /\ UNCHANGED <<mounts, thread, blocks, shown>> /\ Quiet

AddSecret(p) ==
    LET i == task[p].id
    IN  /\ At(p, "placed")
        /\ StoreEnds(i, task[p].gen, [row EXCEPT ![i] = None])
        /\ Return(p)
        /\ UNCHANGED <<mounts, thread, blocks, shown>> /\ Quiet

(***************************************************************************)
(* factory_reset: the drives in the map at the start are taken out and     *)
(* stopped one after the other, then every table is wiped.                 *)
(***************************************************************************)
\* Mutant of Reset: the mounted drives are not stopped.
ResetForgetsMounts(p) ==
    /\ Begin(p, "reset", "resetting", None, None, {})
    /\ UNCHANGED <<row, mounts, thread, blocks, shown>>

Reset(p) ==
    /\ Begin(p, "reset", "resetting", None, None, {i \in Ids : mounts[i] # None})
    /\ UNCHANGED <<row, mounts, thread, blocks, shown>>

ResetTakes(p) ==
    /\ At(p, "resetting") /\ task[p].at = None
    /\ \E i \in task[p].todo :
        /\ task' = [task EXCEPT ![p].id = i, ![p].at = mounts[i], ![p].todo = @ \ {i}]
        /\ mounts' = [mounts EXCEPT ![i] = None]
        /\ thread' = Told({mounts[i]} \cap Threads)
    /\ UNCHANGED <<row, blocks, shown>> /\ Quiet

ResetStopped(p) ==
    /\ At(p, "resetting") /\ task[p].at \in Threads \ Running
    /\ task' = [task EXCEPT ![p].at = None]
    /\ Join(p) /\ Show(task[p].id, "offline")
    /\ UNCHANGED <<row, mounts, blocks>> /\ Quiet

Wipe(p) ==
    /\ At(p, "resetting") /\ task[p].at = None /\ task[p].todo = {}
    /\ row' = [i \in Ids |-> None] /\ blocks' = [i \in Ids |-> {}]
    /\ Return(p)
    /\ UNCHANGED <<mounts, thread, shown>> /\ Quiet

\* One statement of the batch fails, and with it those after it; it is logged.
WipeFails(p) ==
    /\ At(p, "resetting") /\ task[p].at = None /\ task[p].todo = {} /\ scene.mayFail
    /\ row' \in {row, [i \in Ids |-> None]}
    /\ reset' = FALSE
    /\ Return(p)
    /\ UNCHANGED <<scene, mounts, thread, blocks, shown, begun, up>>

(***************************************************************************)
(* RunEvent::Exit: the map is emptied at once, its handles are stopped one *)
(* after the other, and the process ends, whatever else it is doing.       *)
(***************************************************************************)
Exit(p) ==
    /\ Begin(p, "exit", "exiting", None, None, {mounts[i] : i \in Ids} \cap Threads)
    /\ mounts' = [i \in Ids |-> None]
    /\ UNCHANGED <<row, thread, blocks, shown>>

ExitTells(p) ==
    /\ At(p, "exiting") /\ task[p].at \notin Running
    /\ \E t \in task[p].todo :
        /\ thread' = Told({t})
        /\ task' = [task EXCEPT ![p].at = t, ![p].todo = @ \ {t}]
    /\ UNCHANGED <<row, mounts, blocks, shown>> /\ Quiet

Exited(p) ==
    /\ At(p, "exiting") /\ task[p].at \notin Running /\ task[p].todo = {}
    /\ up' = FALSE
    /\ UNCHANGED <<scene, row, mounts, thread, task, blocks, shown, begun, reset>>

(***************************************************************************)
(* Nothing is left to do.                                                  *)
(***************************************************************************)
Rest ==
    /\ ~up \/ \A p \in All : task[p].pc = "idle"
    /\ UNCHANGED vars

Command(p) ==
    \/ Add(p) \/ AddCloud(p) \/ Reset(p) \/ Exit(p)
    \/ \E i \in 1..scene.drives : \/ Mount(p, i) \/ Unmount(p, i) \/ Remove(p, i)
                      \/ SetCredentials(p, i) \/ SetPrefix(p, i)

TaskStep(p) ==
    \/ MountRead(p) \/ Retrieve(p) \/ Migrate(p) \/ Spawn(p) \/ SpawnReturns(p)
    \/ SpawnTimesOut(p) \/ SpawnJoined(p) \/ Insert(p) \/ Snapshot(p) \/ NextRow(p)
    \/ Stopped(p) \/ RemoveRow(p) \/ SetKey(p) \/ Store(p) \/ WritePrefix(p)
    \/ AddRow(p) \/ AddSecret(p) \/ ResetTakes(p) \/ ResetStopped(p) \/ Wipe(p)
    \/ WipeFails(p) \/ ExitTells(p) \/ Exited(p)

ThreadStep(t) ==
    \/ InitFails(t) \/ HostMounts(t) \/ Announce(t) \/ Unmounts(t) \/ Farewell(t)

Next ==
    \/ \E p \in All : Command(p) \/ TaskStep(p)
    \/ \E t \in Threads : ThreadStep(t) \/ Turns(t) \/ Says(t) \/ Reads(t)
    \/ Rest

Spec == Init /\ [][Next]_vars

(***************************************************************************)
(* Tokio polls every task and the system runs every thread; a call into    *)
(* WinFsp, the network set-up of a mount included, returns.                *)
(***************************************************************************)
FairSpec == /\ Spec
            /\ \A p \in All : WF_vars(TaskStep(p))
            /\ \A t \in Threads : WF_vars(ThreadStep(t)) /\ WF_vars(Says(t))

-----------------------------------------------------------------------------
TypeOK ==
    /\ scene \in Scenes
    /\ row \in [Ids -> Row \cup {None}]
    /\ mounts \in [Ids -> Threads \cup {None}]
    /\ thread \in [Threads -> Thread]
    /\ task \in [All -> Task]
    /\ blocks \in [Ids -> SUBSET Gens]
    /\ shown \in [Ids -> {"offline", "mounting", "mounted", "online", "error"}]
    /\ begun \in 0..MaxCommands /\ {reset, up} \subseteq BOOLEAN

(***************************************************************************)
(* The map and the threads agree, whatever overlaps.  No handle of the map *)
(* is dead: its thread serves that drive and nobody has told it to stop.   *)
(* And no mount is lost: a thread that runs is in the map, or a command    *)
(* waits for it, or it has been told to stop (mounts.rs MountHandle,       *)
(* spawn_mount; drives.rs insert/remove).                                  *)
(***************************************************************************)
RegistryServes ==
    /\ TypeOK
    /\ \A i \in Ids : mounts[i] # None =>
          LET t == mounts[i]
          IN  t \in Holding /\ ~thread[t].told /\ thread[t].cfg.id = i
    /\ \A t \in Running : \/ \E i \in Ids : mounts[i] = t
                          \/ thread[t].told
                          \/ \E p \in All : task[p].at = t \/ t \in task[p].todo

(***************************************************************************)
(* A handle is never replaced in the map by another of the same drive.     *)
(* Two mounts of a drive may both pass the check; that one of them fails   *)
(* is WinFsp's doing, which gives a letter to one volume (drives.rs        *)
(* mount_drive, lib.rs auto_mount_drives).                                 *)
(***************************************************************************)
HandleKept ==
    [][\A i \in Ids : mounts[i] # None =>
        \/ mounts'[i] \in {mounts[i], None}
        \/ thread'[mounts'[i]].cfg.inc # thread[mounts[i]].cfg.inc]_vars

\* No command works on drive i, no thread of it is between two states.
Settled(i) ==
    /\ \A p \in All : task[p].id # i
    /\ \A t \in Threads : thread[t].st \in {"starting", "ready", "leaving"}
                            => thread[t].cfg.id # i

\* Commands that are refused, checked and carried out one at a time.
OneByOne == Cardinality(scene.tasks) = 1

(***************************************************************************)
(* The last event of a drive tells the truth once nothing is in progress   *)
(* on it.  A drive that is shown as mounted or online is mounted, even if  *)
(* commands, the start-up and reads overlapped.  A mounted drive is never  *)
(* left "mounting" or "error" if commands did not overlap; it is shown     *)
(* "offline" just if its store was out of reach when last asked, unless    *)
(* two of its events fell due at once or one before "mounted"              *)
(* (drive_status_changed; winfsp_vfs.rs record_connectivity).              *)
(***************************************************************************)
ShownIsTrue ==
    up => \A i \in Ids : Settled(i) =>
        /\ shown[i] \in {"mounted", "online"} => \E t \in Holding : thread[t].cfg.id = i
        /\ OneByOne /\ mounts[i] # None =>
              LET n == thread[mounts[i]].net
              IN  /\ shown[i] \in {"mounted", "online", "offline"}
                  /\ n.calm /\ n.due = {} => (shown[i] = "offline" <=> ~n.online)

(***************************************************************************)
(* "The drive must be unmounted first": a mounted drive runs with the      *)
(* settings of its row when no command works on it and none overlapped     *)
(* (drives.rs set_drive_credentials, set_drive_prefix).                    *)
(***************************************************************************)
SettingsKept ==
    up /\ OneByOne => \A i \in Rows : Settled(i) /\ mounts[i] # None =>
        LET c == thread[mounts[i]].cfg
        IN  <<c.key, c.secret, c.prefix>> = <<row[i].key, row[i].secret, row[i].prefix>>

(***************************************************************************)
(* After a factory reset that overlapped with nothing and wiped the tables *)
(* without an error, and before anything else is begun, no drive is left,  *)
(* neither in the table nor mounted, and no block of one in the cache      *)
(* (system.rs factory_reset).                                              *)
(***************************************************************************)
ResetIsClean ==
    up /\ OneByOne /\ reset /\ (\A p \in All : task[p].pc = "idle") =>
        Rows = {} /\ Running = {} /\ \A i \in Ids : blocks[i] = {}

(***************************************************************************)
(* Every command returns: nobody waits for ever for a thread to end        *)
(* (mounts.rs spawn_mount, MountHandle::stop).                             *)
(***************************************************************************)
CommandsReturn ==
    \A p \in All : [](task[p].pc # "idle" => <>(~up \/ task[p].pc = "idle"))

=============================================================================
