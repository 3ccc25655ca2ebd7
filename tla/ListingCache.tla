----------------------------- MODULE ListingCache -----------------------------
(***************************************************************************)
(* The listing of one directory as a mount sees it: the bucket, the file   *)
(* dir_listing_cache keeps on disk, list_cache in memory and meta_cache    *)
(* with an entry per name (winfsp_vfs.rs, dir_listing_cache.rs).           *)
(*                                                                         *)
(* Fillers are calls that enumerate the directory or look a name up, and   *)
(* the background refresh; droppers are calls that changed the directory,  *)
(* the receiver of peers' invalidations and the refresh command.  Every    *)
(* lock, file and request is a step of its own.                            *)
(*                                                                         *)
(* A listing remembers the change of the bucket it was taken at (epoch),   *)
(* how long ago that was (age), and whether the filler that stored it ran  *)
(* at the same time as a dropper, or a dropper failed to remove it         *)
(* (tainted); the program knows none of these.  Names do not differ in     *)
(* case only, a listing comes in one page,                                 *)
(* and the directory is one that was visited within the hour.              *)
(***************************************************************************)
EXTENDS Integers, Sequences, FiniteSets

CONSTANTS
    Names,      \* what may be in the directory
    Readers,    \* calls of the file system driver
    Refreshers, \* the background refresh task, if it runs
    Droppers,   \* calls, commands and events that invalidate
    MemTTL,     \* LIST_TTL and META_TTL
    EmptyTTL,   \* EMPTY_LIST_TTL
    DiskTTL,    \* DISK_LIST_TTL_SECS
    MaxChanges, \* bound: changes of the directory
    AgeCap,     \* bound: ages are not told apart beyond it
    MayFail,    \* the bucket may refuse to list, and the disk to store or remove
    None,       \* no such entry
    Whole       \* what an enumeration asks for

ASSUME ListingAssumption ==
    /\ {MemTTL, EmptyTTL, DiskTTL, MaxChanges, AgeCap} \subseteq Nat
    /\ EmptyTTL <= MemTTL
    /\ MayFail \in BOOLEAN
    /\ Whole \notin Names
    /\ Readers \cap Refreshers = {}

Fillers == Readers \cup Refreshers
Epochs  == 0..MaxChanges

\* What LIST answers: for each name the change that put it there, 0 if it is not.
Contents == [Names -> Epochs]

VARIABLES
    bucket,     \* the directory in the bucket
    epoch,      \* number of changes so far
    mem,        \* list_cache's entry
    disk,       \* the file on disk
    meta,       \* meta_cache's entry for each name
    pc,         \* where each filler is
    want,       \* the name a filler looks up, or Whole
    got,        \* the listing a filler holds
    todo,       \* stores a filler still has to make with it
    taint,      \* a dropper was active during the filler's call
    floor,      \* what was settled when the filler's call began
    drop,       \* stores each dropper still has to clear
    target,     \* the name a dropper's call changed, or Whole
    since,      \* epoch when the dropper began
    settled     \* per name, the last change a dropper is done with

caches   == <<mem, disk, meta>>
filling  == <<pc, want, got, todo, taint, floor>>
dropping == <<drop, target, since, settled>>
vars     == <<bucket, epoch, caches, filling, dropping>>

Listing == [contents : Contents, epoch : Epochs, age : 0..AgeCap, tainted : BOOLEAN]
Found   == [there : BOOLEAN, epoch : Epochs, age : 0..AgeCap, tainted : BOOLEAN]
Held(S, ttl) == {None} \cup [list : S, held : 0..(ttl + 1)]

IsEmpty(list) == \A n \in Names : list.contents[n] = 0

\* What a lookup of n makes of a listing.
Lookup(list, n) == [there   |-> list.contents[n] # 0, epoch |-> list.epoch,
                    age     |-> list.age, tainted |-> list.tainted]

Dropping(d) == drop[d] # <<>>

Unsettled == [n \in Names |-> 0]

Init ==
    /\ bucket = Unsettled
    /\ epoch = 0
    /\ mem = None /\ disk = None
    /\ meta = [n \in Names |-> None]
    /\ pc = [r \in Fillers |-> "idle"]
    /\ want = [r \in Fillers |-> Whole]
    /\ got = [r \in Fillers |-> None]
    /\ todo = [r \in Fillers |-> <<>>]
    /\ taint = [r \in Fillers |-> FALSE]
    /\ floor = [r \in Fillers |-> Unsettled]
    /\ drop = [d \in Droppers |-> <<>>]
    /\ target = [d \in Droppers |-> Whole]
    /\ since = [d \in Droppers |-> 0]
    /\ settled = Unsettled

-----------------------------------------------------------------------------
(* list_dir, listing_for and resolve *)

Begin(r, what, where) ==
    /\ pc[r] = "idle"
    /\ pc' = [pc EXCEPT ![r] = where]
    /\ want' = [want EXCEPT ![r] = what]
    /\ taint' = [taint EXCEPT ![r] = \E d \in Droppers : Dropping(d)]
    /\ floor' = [floor EXCEPT ![r] = settled]
    /\ UNCHANGED <<bucket, epoch, caches, got, todo, dropping>>

Enumerate(r) == r \in Readers /\ Begin(r, Whole, "mem")
Resolve(r)   == r \in Readers /\ \E n \in Names : Begin(r, n, "meta")

\* r goes on to where with the listing it found in an entry.
Take(r, list, where, stores) ==
    /\ got' = [got EXCEPT ![r] = list]
    /\ pc' = [pc EXCEPT ![r] = where]
    /\ todo' = [todo EXCEPT ![r] = stores]
    /\ taint' = [taint EXCEPT ![r] = @ \/ list.tainted]
    /\ UNCHANGED <<bucket, epoch, caches, want, floor, dropping>>

Miss(r, where) ==
    /\ pc' = [pc EXCEPT ![r] = where]
    /\ UNCHANGED <<bucket, epoch, caches, want, got, todo, taint, floor, dropping>>

\* The call of r is over, with an answer or an error.
End(r) ==
    /\ pc' = [pc EXCEPT ![r] = "idle"]
    /\ want' = [want EXCEPT ![r] = Whole]
    /\ got' = [got EXCEPT ![r] = None]
    /\ todo' = [todo EXCEPT ![r] = <<>>]
    /\ taint' = [taint EXCEPT ![r] = FALSE]
    /\ floor' = [floor EXCEPT ![r] = Unsettled]
    /\ UNCHANGED <<bucket, epoch, caches, dropping>>

InForce(entry) == entry # None /\ entry.held < MemTTL

\* What is left to do for r once it has the listing.
Answered(r) == IF want[r] = Whole THEN "answer" ELSE "conclude"

ReadMeta(r) ==
    /\ pc[r] = "meta"
    /\ IF InForce(meta[want[r]])
       THEN Take(r, meta[want[r]].list, "answer", <<>>)
       ELSE Miss(r, "mem")

ReadMem(r) ==
    /\ pc[r] = "mem"
    /\ IF InForce(mem) THEN Take(r, mem.list, Answered(r), <<>>) ELSE Miss(r, "disk")

\* Mutant of DiskStores: a hit on disk is written back to disk as well.
DiskStoresAgain == <<"mem", "disk", "meta">>

\* A hit on disk goes to memory as if it had just been fetched.
DiskStores == <<"mem", "meta">>

\* load() takes what is no older than its TTL, and the caller no empty listing.
ReadDisk(r) ==
    /\ pc[r] = "disk"
    /\ IF disk # None /\ disk.held <= DiskTTL /\ ~IsEmpty(disk.list)
       THEN Take(r, disk.list, "fill", DiskStores)
       ELSE Miss(r, "list")

\* listing_for seeds meta_cache page by page before it stores the listing, list_dir
\* afterwards.  Empty listings are not saved.
FetchStores(r, empty) ==
    LET kept == IF empty THEN <<"mem">> ELSE <<"mem", "disk">>
    IN  IF r \in Readers /\ want[r] = Whole THEN <<"meta">> \o kept ELSE kept \o <<"meta">>

List(r) ==
    /\ pc[r] = "list"
    /\ LET list == [contents |-> bucket, epoch |-> epoch, age |-> 0, tainted |-> taint[r]]
       IN  Take(r, list, IF r \in Refreshers THEN "compare" ELSE "fill",
                FetchStores(r, IsEmpty(list)))

ListFails(r) ==
    /\ MayFail
    /\ pc[r] = "list"
    /\ End(r)

\* An empty listing is stored as one of which only EmptyTTL is left.
FirstHeld(list) == IF IsEmpty(list) THEN MemTTL - EmptyTTL ELSE 0

\* seed_meta_from_listing: an entry for every name in the listing, and no other.
Seed(list) ==
    meta' = [n \in Names |-> IF list.contents[n] = 0 THEN meta[n]
                             ELSE [list |-> Lookup(list, n), held |-> 0]]

\* save() says nothing if it fails.
Saves(list) == {[list |-> list, held |-> 0]} \cup IF MayFail THEN {disk} ELSE {}

\* The next store of r, with what it knows by now of droppers.
Fill(r) ==
    LET list == [got[r] EXCEPT !.tainted = taint[r]]
    IN  /\ pc[r] = "fill"
        /\ todo[r] # <<>>
        /\ CASE Head(todo[r]) = "mem" ->
                  mem' = [list |-> list, held |-> FirstHeld(list)] /\ UNCHANGED <<disk, meta>>
             [] Head(todo[r]) = "disk" ->
                  disk' \in Saves(list) /\ UNCHANGED <<mem, meta>>
             [] OTHER -> Seed(list) /\ UNCHANGED <<mem, disk>>
        /\ todo' = [todo EXCEPT ![r] = Tail(@)]
        /\ UNCHANGED <<bucket, epoch, pc, want, got, taint, floor, dropping>>

Filled(r) ==
    /\ pc[r] = "fill"
    /\ todo[r] = <<>>
    /\ IF r \in Refreshers THEN End(r) ELSE Miss(r, Answered(r))

\* resolve stores what it made of the listing, found or not.
Conclude(r) ==
    /\ pc[r] = "conclude"
    /\ LET list == [got[r] EXCEPT !.tainted = taint[r]]
       IN  /\ meta' = [meta EXCEPT ![want[r]] = [list |-> Lookup(list, want[r]), held |-> 0]]
           /\ got' = [got EXCEPT ![r] = Lookup(list, want[r])]
    /\ pc' = [pc EXCEPT ![r] = "answer"]
    /\ UNCHANGED <<bucket, epoch, mem, disk, want, todo, taint, floor, dropping>>

Answer(r) ==
    /\ pc[r] = "answer"
    /\ End(r)

-----------------------------------------------------------------------------
(* run_background_refresh_cycle *)

Refresh(r) == r \in Refreshers /\ Begin(r, Whole, "list")

\* Nothing is stored if the listing has not changed, or is empty.
Compare(r) ==
    /\ pc[r] = "compare"
    /\ IF \/ mem # None /\ mem.list.contents = got[r].contents
          \/ IsEmpty(got[r])
       THEN End(r)
       ELSE Miss(r, "fill")

-----------------------------------------------------------------------------
(* Changes and invalidation *)

\* A name appears, is replaced or vanishes.
Changed(n) ==
    /\ epoch < MaxChanges
    /\ epoch' = epoch + 1
    /\ \/ bucket' = [bucket EXCEPT ![n] = epoch + 1]
       \/ bucket[n] # 0 /\ bucket' = [bucket EXCEPT ![n] = 0]

\* Dropper d begins to clear the stores in turn; every filler at work is tainted.
Starts(d, what, at, stores) ==
    /\ ~Dropping(d)
    /\ drop' = [drop EXCEPT ![d] = stores]
    /\ target' = [target EXCEPT ![d] = what]
    /\ since' = [since EXCEPT ![d] = at]
    /\ taint' = [r \in Fillers |-> taint[r] \/ pc[r] # "idle"]
    /\ UNCHANGED <<caches, pc, want, got, todo, floor, settled>>

\* cleanup after an upload: invalidate_meta, then invalidate_parent.
AfterUpload == <<"own", "mem", "disk", "negatives">>

\* cleanup after a deletion, create of a directory: the other way round.
AfterDelete == <<"mem", "disk", "negatives", "own">>

\* Mutant of AfterPush: the listing on disk is left to its TTL.
AfterPushMemOnly == <<"mem", "subtree">>

\* The receiver of a peer's invalidation, and RefreshHandle::refresh.
AfterPush == <<"mem", "subtree", "disk">>

LocalUpload(d) ==
    \E n \in Names : /\ Changed(n) /\ bucket'[n] # 0
                     /\ Starts(d, n, epoch + 1, AfterUpload)

LocalDelete(d) ==
    \E n \in Names : /\ Changed(n) /\ bucket'[n] = 0
                     /\ Starts(d, n, epoch + 1, AfterDelete)

RemoteChange ==
    /\ \E n \in Names : Changed(n)
    /\ UNCHANGED <<caches, filling, dropping>>

\* An invalidation from the coordinator, for whatever happened so far.
Pushed(d) == Starts(d, Whole, epoch, AfterPush) /\ UNCHANGED <<bucket, epoch>>

\* The refresh command does the same (refresh() looks a prefix up in lower case, so this
\* is a directory without capital letters).
Command(d) == Starts(d, Whole, epoch, AfterPush) /\ UNCHANGED <<bucket, epoch>>

\* What of meta_cache the next store of d takes away.
Gone(d, n) ==
    \/ Head(drop[d]) = "own" /\ n = target[d]
    \/ Head(drop[d]) = "negatives" /\ meta[n] # None /\ ~meta[n].list.there
    \/ Head(drop[d]) = "subtree"

\* invalidate() removes the file, or says nothing of its failure.
Removed ==
    {None} \cup IF MayFail /\ disk # None THEN {[disk EXCEPT !.list.tainted = TRUE]} ELSE {}

\* One store is cleared; after the last, the change is settled.
Drop(d) ==
    /\ Dropping(d)
    /\ mem' = IF Head(drop[d]) = "mem" THEN None ELSE mem
    /\ disk' \in IF Head(drop[d]) = "disk" THEN Removed ELSE {disk}
    /\ meta' = [n \in Names |-> IF Gone(d, n) THEN None ELSE meta[n]]
    /\ drop' = [drop EXCEPT ![d] = Tail(@)]
    /\ settled' = IF Len(drop[d]) > 1 THEN settled
                  ELSE [n \in Names |-> IF target[d] \in {n, Whole} /\ since[d] > settled[n]
                                        THEN since[d] ELSE settled[n]]
    /\ target' = IF Len(drop[d]) > 1 THEN target ELSE [target EXCEPT ![d] = Whole]
    /\ since' = IF Len(drop[d]) > 1 THEN since ELSE [since EXCEPT ![d] = 0]
    /\ UNCHANGED <<bucket, epoch, filling>>

-----------------------------------------------------------------------------
(* Time, restarts *)

\* An entry one unit of time later; its store looks at how long it was held.
Older(entry, ttl) ==
    IF entry = None THEN None
    ELSE [list |-> [entry.list EXCEPT !.age = IF @ < AgeCap THEN @ + 1 ELSE @],
          held |-> IF entry.held <= ttl THEN entry.held + 1 ELSE entry.held]

\* A call that has a listing stores and returns it in no time.
Tick ==
    /\ \A r \in Fillers : got[r] = None
    /\ mem' = Older(mem, MemTTL)
    /\ disk' = Older(disk, DiskTTL)
    /\ meta' = [n \in Names |-> Older(meta[n], MemTTL)]
    /\ UNCHANGED <<bucket, epoch, filling, dropping>>

\* The process starts again: of all stores the disk is left, whatever was going on.
Restart ==
    /\ mem' = None
    /\ meta' = [n \in Names |-> None]
    /\ pc' = [r \in Fillers |-> "idle"]
    /\ want' = [r \in Fillers |-> Whole]
    /\ got' = [r \in Fillers |-> None]
    /\ todo' = [r \in Fillers |-> <<>>]
    /\ taint' = [r \in Fillers |-> FALSE]
    /\ floor' = [r \in Fillers |-> Unsettled]
    /\ drop' = [d \in Droppers |-> <<>>]
    /\ target' = [d \in Droppers |-> Whole]
    /\ since' = [d \in Droppers |-> 0]
    /\ UNCHANGED <<bucket, epoch, disk, settled>>

-----------------------------------------------------------------------------
FillerStep(r) ==
    \/ Enumerate(r) \/ Resolve(r)
    \/ ReadMeta(r) \/ ReadMem(r) \/ ReadDisk(r) \/ List(r) \/ ListFails(r)
    \/ Refresh(r) \/ Compare(r)
    \/ Fill(r) \/ Filled(r) \/ Conclude(r) \/ Answer(r)

DropperStep(d) ==
    \/ LocalUpload(d) \/ LocalDelete(d) \/ Pushed(d) \/ Command(d) \/ Drop(d)

Next ==
    \/ \E r \in Fillers : FillerStep(r)
    \/ \E d \in Droppers : DropperStep(d)
    \/ RemoteChange \/ Tick \/ Restart

Spec == Init /\ [][Next]_vars

-----------------------------------------------------------------------------
(* Properties *)

TypeOK ==
    /\ bucket \in Contents /\ epoch \in Epochs
    /\ mem \in Held(Listing, MemTTL)
    /\ disk \in Held(Listing, DiskTTL)
    /\ meta \in [Names -> Held(Found, MemTTL)]
    /\ pc \in [Fillers -> {"idle", "meta", "mem", "disk", "list", "compare", "fill",
                           "conclude", "answer"}]
    /\ want \in [Fillers -> Names \cup {Whole}]
    /\ got \in [Fillers -> {None} \cup Listing \cup Found]
    /\ todo \in [Fillers -> Seq({"mem", "disk", "meta"})]
    /\ taint \in [Fillers -> BOOLEAN]
    /\ floor \in [Fillers -> Contents]
    /\ drop \in [Droppers -> Seq({"own", "mem", "disk", "negatives", "subtree"})]
    /\ target \in [Droppers -> Names \cup {Whole}]
    /\ since \in [Droppers -> Epochs]
    /\ settled \in Contents

\* r's answer shows every change of n that was settled before the call began.
Shows(r, n) == got[r].epoch >= floor[r][n]

\* An upload, a deletion, a peer's invalidation or a refresh that is done is seen by
\* every call that begins afterwards, unless what it is answered from was stored by a
\* call that ran at the same time as some invalidation, or from a file that could not be
\* removed: clearing the three stores in any of the orders the code uses leaves nothing
\* older behind.
SettledIsSeen ==
    \A r \in Readers : pc[r] = "answer" /\ ~taint[r] =>
        \A n \in Names : want[r] \in {n, Whole} => Shows(r, n)

\* Every variable has its type, no enumeration shows a listing older than the two TTLs
\* together, and no lookup one older than the three stores it may have passed through,
\* restarts included.
AgeBounded ==
    /\ TypeOK
    /\ \A r \in Readers : pc[r] = "answer" =>
        /\ want[r] = Whole => got[r].age <= DiskTTL + MemTTL
        /\ got[r].age <= DiskTTL + 2 * MemTTL
=============================================================================
