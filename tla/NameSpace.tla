------------------------------ MODULE NameSpace ------------------------------
(***************************************************************************)
(* The name space of a mounted volume: how winfsp_vfs.rs makes of the      *)
(* path it is given, in whatever case, the key of an object (resolve),     *)
(* what create, cleanup and rename do to objects and to the three caches   *)
(* (list_cache, the listings on disk, meta_cache), and how read_directory  *)
(* lists a directory page by page.                                         *)
(*                                                                         *)
(* A name is a number.  Two names are the same but for their case if they  *)
(* have the same half, and names sort as read_directory sorts them.  There *)
(* is a root and one level of directories.  A call is one step, except     *)
(* that a file is uploaded when its handle is closed and a directory is    *)
(* listed in as many calls as it takes: how the steps within calls         *)
(* interleave is the matter of ListingCache, and what happens when a call  *)
(* on many objects stops half-way, that of FolderMoves.                    *)
(***************************************************************************)
EXTENDS Naturals, Sequences, FiniteSets, FiniteSetsExt

CONSTANTS
    Top,        \* names in the root
    Inner,      \* names of files in its directories
    Room,       \* most entries that a buffer of read_directory has room for
    Wide,       \* names that are too long for an entry of read_directory
    MaxEntries, \* an enumeration asks for no more once it has so many entries
    MaxChanges, \* bound: calls, of this machine or another, that change objects
    Remote,     \* other machines write to the bucket as well
    MayRefuse,  \* the bucket may refuse to list
    Keep,       \* the name of the marker that keeps an empty directory
    Absent,     \* no such name
    None        \* no such entry

ASSUME NameSpaceAssumption ==
    /\ Top \subseteq Nat /\ Inner \subseteq Nat
    /\ IsFiniteSet(Top) /\ IsFiniteSet(Inner) /\ Keep \notin Top \cup Inner
    /\ Room \in Nat \ {0} /\ MaxEntries \in Nat \ {0} /\ MaxChanges \in Nat
    /\ Wide \subseteq Top \cup Inner
    /\ Remote \in BOOLEAN /\ MayRefuse \in BOOLEAN

VARIABLES
    bucket,  \* the objects there are
    pending, \* files that were created and are not uploaded yet: local_writers
    cache,   \* list_cache, the disk's listings, meta_cache
    scan,    \* an enumeration of a directory
    changes, \* how many calls changed objects
    odd      \* history: directories of which the caches may have it wrong

vars == <<bucket, pending, cache, scan, changes, odd>>

Names == Top \cup Inner
Root  == <<>>
Dirs  == {Root} \cup {<<d>> : d \in Top}
Files == {<<d, n>> : d \in Top, n \in Inner}
Paths == {<<n>> : n \in Top} \cup Files

Objects == Paths \cup {<<d, Keep>> : d \in Top}

Fold(n)   == n \div 2
Name(k)   == k[Len(k)]
Parent(k) == IF Len(k) = 1 THEN Root ELSE <<k[1]>>
Under(d)  == IF d = Root THEN Objects ELSE {o \in Objects : Len(o) = 2 /\ o[1] = d[1]}

\* A listing of directory d of objects B: list_objects_v2 with a delimiter.
Listing == [dirs : SUBSET Top, files : SUBSET Names]
ListOf(d, B) == [dirs  |-> {n \in Top : d = Root /\ \E o \in B : Len(o) = 2 /\ o[1] = n},
                 files |-> {n \in Names : Append(d, n) \in B}]
IsEmpty(list) == list.dirs = {} /\ list.files = {}

\* What a path turned out to be.
Found == [real : Paths, dir : BOOLEAN]

Caches == [mem : [Dirs -> Listing \cup {None}], disk : [Dirs -> Listing \cup {None}],
           meta : [Paths -> Found \cup {Absent, None}]]

\* A name, a listing or what was found is not mistaken for none.
ASSUME NothingAssumption ==
    /\ Absent # None /\ {Absent, None} \cap Found = {}
    /\ None \notin Names \cup Listing

Empty == [mem |-> [d \in Dirs |-> None], disk |-> [d \in Dirs |-> None],
          meta |-> [k \in Paths |-> None]]

\* An enumeration: of which directory, after which name it goes on, what it has listed,
\* whether anything twice, and what has been there all the time.
NoScan == [pc |-> "none", dir |-> Root, at |-> None, seen |-> {}, again |-> FALSE, must |-> {}]

\* A volume is mounted on whatever the bucket holds.
Init ==
    /\ bucket \in SUBSET Objects /\ pending = {}
    /\ cache = Empty
    /\ scan = NoScan
    /\ changes = 0 /\ odd = {}

-----------------------------------------------------------------------------
(* list_dir, listing_for and resolve, as functions of the caches *)

\* seed_meta_from_listing
Seeded(c, d, list) ==
    [c EXCEPT !.mem[d] = list,
              !.meta = [k \in Paths |->
                  IF Parent(k) = d /\ Name(k) \in list.dirs \cup list.files
                  THEN [real |-> k, dir |-> Name(k) \notin list.files]
                  ELSE c.meta[k]]]

OnDisk(c, d) == c.disk[d] # None /\ ~IsEmpty(c.disk[d])

\* The caches once d has been listed; the listing is then in memory.
Listed(c, d) ==
    LET fetched == ListOf(d, bucket)
    IN  IF c.mem[d] # None THEN c
        ELSE IF OnDisk(c, d) THEN Seeded(c, d, c.disk[d])
        ELSE IF IsEmpty(fetched) THEN Seeded(c, d, fetched)
        ELSE Seeded([c EXCEPT !.disk[d] = fetched], d, fetched)

Alike(S, n) == {m \in S : Fold(m) = Fold(n)}
Best(S, n)  == IF n \in S THEN n ELSE Min(Alike(S, n))

\* A directory, exact case first; then a file, exact case first.
Match(d, list, n) ==
    IF Alike(list.dirs, n) # {}
    THEN [real |-> Append(d, Best(list.dirs, n)), dir |-> TRUE]
    ELSE IF Alike(list.files, n) # {}
    THEN [real |-> Append(d, Best(list.files, n)), dir |-> FALSE]
    ELSE Absent

\* The walk along the segments of k.
Walk(c, k) ==
    LET c1    == Listed(c, Root)
        first == Match(Root, c1.mem[Root], k[1])
        c2    == Listed(c1, first.real)
    IN  IF Len(k) = 1 \/ first = Absent THEN [c |-> c1, is |-> first]
        ELSE IF first.dir
             THEN [c |-> c2, is |-> Match(first.real, c2.mem[first.real], k[2])]
             ELSE [c |-> c1, is |-> Absent]

\* What it comes to is remembered under the path as it was given.
Resolve(c, k) ==
    IF k = Root THEN [c |-> c, is |-> [real |-> Root, dir |-> TRUE]]
    ELSE IF c.meta[k] # None THEN [c |-> c, is |-> c.meta[k]]
    ELSE LET w == Walk(c, k) IN [c |-> [w.c EXCEPT !.meta[k] = w.is], is |-> w.is]

\* d is in no cache, and the bucket is asked for it.
Asks(c, d) == c.mem[d] = None /\ ~OnDisk(c, d)

\* What a lookup of k leaves in the caches if the listing of a directory on its way fails:
\* what it has learnt up to there.
Refused(c, k) ==
    LET c1    == Listed(c, Root)
        first == Match(Root, c1.mem[Root], k[1])
    IN  IF ~MayRefuse \/ k = Root \/ c.meta[k] # None THEN {}
        ELSE {x \in {c} : Asks(c, Root)}
             \cup {x \in {c1} : /\ Len(k) = 2 /\ first # Absent /\ first.dir
                                /\ Asks(c1, first.real)}

\* listing_for asks for no more pages once it has MaxEntries entries, of whatever names, and
\* saves nothing on disk then.
Entries(list) == Cardinality(list.dirs) + Cardinality(list.files)
Parts(list)   == [dirs : SUBSET list.dirs, files : SUBSET list.files]
Enumerated(c, d) ==
    LET all == ListOf(d, bucket)
    IN  IF Asks(c, d) /\ Entries(all) >= MaxEntries
        THEN {Seeded(c, d, l) : l \in {p \in Parts(all) : Entries(p) >= MaxEntries}}
        ELSE {Listed(c, d)}

-----------------------------------------------------------------------------
(* Invalidation *)

\* Mutant of DropParent: the listing on disk is left to its TTL.
DropParentInMemory(c, k) ==
    [c EXCEPT !.mem[Parent(k)] = None,
              !.meta = [p \in Paths |-> IF c.meta[p] = Absent /\ p \in Under(Parent(k))
                                        THEN None ELSE c.meta[p]]]

\* invalidate_parent
DropParent(c, k) ==
    [c EXCEPT !.mem[Parent(k)] = None, !.disk[Parent(k)] = None,
              !.meta = [p \in Paths |-> IF c.meta[p] = Absent /\ p \in Under(Parent(k))
                                        THEN None ELSE c.meta[p]]]

\* invalidate_parent and invalidate_meta
Drop(c, k) == [DropParent(c, k) EXCEPT !.meta[k] = None]

\* Directory d, or something in it, is still to be found in the caches: its listing, what is
\* under it, or a name in another case that led there.
Husk(c, d) ==
    \/ c.mem[d] # None \/ c.disk[d] # None
    \/ \E k \in Paths : /\ c.meta[k] \notin {None, Absent}
                        /\ {k, c.meta[k].real} \cap Under(d) # {} \/ c.meta[k].real = d

\* The directory of f, if a path that leads to f by its directory in another case is still
\* cached as one that leads nowhere: it is under another prefix than the one swept.
Missed(c, f) ==
    IF \E k \in Files \ {f} : /\ Len(f) = 2 /\ c.meta[k] = Absent
                              /\ Fold(k[1]) = Fold(f[1]) /\ Fold(k[2]) = Fold(f[2])
    THEN {Parent(f)} ELSE {}

-----------------------------------------------------------------------------
(* Objects change *)

IsDir(d, B)   == d = Root \/ \E o \in B : Len(o) = 2 /\ o[1] = d[1]
Present(k, B) == k \in B \/ (Len(k) = 1 /\ IsDir(k, B))

\* n is in directory d and no other name but for its case.
Lone(d, n, B) ==
    LET list == ListOf(d, B)
    IN  Alike(list.dirs \cup list.files, n) = {n}

\* The objects become B, and the directories in W may be wrong from now on.
Change(B, W) ==
    /\ changes < MaxChanges /\ changes' = changes + 1
    /\ bucket' = B
    /\ scan' = [scan EXCEPT !.must = {n \in @ : Lone(scan.dir, n, B)}]
    /\ odd' = odd \cup W

\* An operation on a file is not expected to make or unmake its directory: the listing that
\* shows the directory is not dropped.
Unexpected(k, B) == IF IsDir(Parent(k), bucket) = IsDir(Parent(k), B) THEN {} ELSE {Root}

Same == UNCHANGED <<bucket, changes, scan, odd>>

\* get_security_by_name and open, and a create that finds the name taken.
Lookup(k) ==
    /\ cache' = Resolve(cache, k).c
    /\ Same /\ UNCHANGED pending

\* A call whose lookup fails is refused.
LookupFails(k) ==
    /\ cache' \in Refused(cache, k)
    /\ Same /\ UNCHANGED pending

\* The driver has looked the parent up before it calls create.
CreateDir(k) ==
    \E r \in {Resolve(cache, k)} :
        /\ Len(k) = 1 /\ r.is = Absent
        /\ Change(bucket \cup {Append(k, Keep)}, {})
        /\ cache' = Drop(r.c, k)
        /\ UNCHANGED pending

\* Mutant of Anchored: the new file gets the name it was asked for.
AnchoredNowhere(parent, k) == k

\* A new file goes into the directory that is there, whatever case was asked for.
Anchored(parent, k) == Append(parent, Name(k))

CreateFile(k) ==
    \E p \in {Resolve(cache, Parent(k))} : \E r \in {Resolve(p.c, k)} :
        /\ p.is # Absent /\ p.is.dir /\ r.is = Absent
        /\ LET key == Anchored(p.is.real, k)
           IN  /\ key \notin pending
               /\ pending' = pending \cup {key}
               /\ cache' = Drop(r.c, key)
               /\ odd' = odd \cup Missed(cache', key)
        /\ UNCHANGED <<bucket, changes, scan>>

\* What create makes of a lookup that fails: "not found".
Unheard(c, k) == {[c |-> x, is |-> Absent] : x \in Refused(c, k)}

\* A create of which the lookup of the name fails, or that of its parent, or both.  The new
\* file, or directory, goes into the parent that was found, or where it was asked for.
CreateBlind(k) ==
    \E r \in {Resolve(cache, k)} \cup Unheard(cache, k) :
    \E p \in {Resolve(r.c, Parent(k))} \cup Unheard(r.c, Parent(k)) :
        LET lost == p \in Unheard(r.c, Parent(k))
            key  == IF lost THEN k ELSE Anchored(p.is.real, k)
        IN  /\ r.is = Absent
            /\ lost \/ (p.is # Absent /\ p.is.dir)
            /\ r \in Unheard(cache, k) \/ lost
            /\ cache' = Drop(p.c, key)
            /\ \/ /\ key \notin pending /\ pending' = pending \cup {key}
                  /\ Same
               \/ /\ Len(k) = 1 /\ Change(bucket \cup {Append(key, Keep)}, {})
                  /\ UNCHANGED pending

\* cleanup of a new file: finalize_write, and the caches if it succeeded.
Close(k) ==
    /\ k \in pending /\ pending' = pending \ {k}
    /\ cache' = Drop(cache, k)
    /\ Change(bucket \cup {k}, Unexpected(k, bucket \cup {k}) \cup Missed(cache', k))

CloseFails(k) ==
    /\ k \in pending /\ pending' = pending \ {k}
    /\ UNCHANGED cache /\ Same

\* open, and cleanup of a file that is to be deleted.
DeleteFile(k) ==
    \E r \in {Resolve(cache, k)} :
        /\ r.is # Absent /\ ~r.is.dir
        /\ LET f == r.is.real
           IN  /\ Change(bucket \ {f}, Unexpected(f, bucket \ {f}))
               /\ cache' = Drop(r.c, f)
        /\ UNCHANGED pending

\* open, and cleanup of a directory that is to be deleted: all that is under it.
RemoveDir(k) ==
    \E r \in {Resolve(cache, k)} :
        /\ r.is # Absent /\ r.is.dir
        /\ LET d == r.is.real
           IN  /\ cache' = Drop(r.c, d)
               /\ Change(bucket \ Under(d), IF Husk(cache', d) THEN {d} ELSE {})
        /\ UNCHANGED pending

\* Where an object of from is, once from is renamed to to.
Moved(o, from, to) == to \o SubSeq(o, Len(from) + 1, Len(o))

\* open, and rename: the parent is that of the source, and nobody asks for the target.
Rename(k, n) ==
    \E r \in {Resolve(cache, k)} :
        LET from  == r.is.real
            to    == Append(Parent(from), n)
            moved == bucket \cap (IF r.is.dir THEN Under(from) ELSE {from})
            B     == (bucket \ moved) \cup {Moved(o, from, to) : o \in moved}
        IN  /\ r.is # Absent /\ n # Name(from)
            /\ r.is.dir \/ moved # {}
            /\ cache' = Drop(Drop(r.c, from), to)
            /\ Change(B, IF r.is.dir THEN {d \in {from, to} : Husk(cache', d)}
                         ELSE Missed(cache', to))
            /\ UNCHANGED pending

\* Another machine, or another program.
RemoteChange(o) ==
    LET B == IF o \in bucket THEN bucket \ {o} ELSE bucket \cup {o}
    IN  /\ Remote
        /\ Change(B, {Parent(o)} \cup Unexpected(o, B))
        /\ UNCHANGED <<pending, cache>>

-----------------------------------------------------------------------------
(* read_directory *)

ScanStart(k) ==
    \E r \in {Resolve(cache, k)} :
        /\ scan.pc # "on"
        /\ r.is # Absent /\ r.is.dir
        /\ scan' = [NoScan EXCEPT !.pc = "on", !.dir = r.is.real,
                                  !.must = {n \in Names \ Wide : Lone(r.is.real, n, bucket)}]
        /\ cache' = r.c
        /\ UNCHANGED <<bucket, pending, changes, odd>>

\* Mutant of Remaining: the entry at the marker is listed again, as WinFsp's DirBuffer does.
RemainingWithMarker(names, at) ==
    IF at = None THEN names ELSE {n \in names : Fold(n) >= Fold(at)}

\* partition_point: what sorts after the marker, case aside.
Remaining(names, at) ==
    IF at = None THEN names ELSE {n \in names : Fold(n) > Fold(at)}

\* Mutant of Fits: the buffer is never marked as the last.
FitsNever(page, rest) == FALSE

\* Every remaining entry is in the buffer: the end is marked.
Fits(page, rest) == page = rest

\* A buffer with room for m more entries.  A name that is too long is passed over.
ScanPage ==
    \E c \in Enumerated(cache, scan.dir) :
        LET list == c.mem[scan.dir]
            rest == Remaining((list.dirs \cup list.files) \ Wide, scan.at)
            cut  == Asks(cache, scan.dir) /\ list # ListOf(scan.dir, bucket)
        IN  /\ scan.pc = "on"
            /\ \E m \in 1..Room :
                  LET page == {n \in rest : Cardinality({l \in rest : l < n}) < m}
                  IN  scan' = [scan EXCEPT !.pc = IF Fits(page, rest) THEN "done" ELSE "on",
                                           !.at = IF page = {} THEN @ ELSE Max(page),
                                           !.seen = @ \cup page,
                                           !.again = @ \/ page \cap scan.seen # {}]
            /\ cache' = c
            /\ odd' = odd \cup {d \in {scan.dir} : cut}
            /\ UNCHANGED <<bucket, pending, changes>>

\* The listing fails half-way and with it the call; meta_cache keeps what it had been told.
ScanFails ==
    /\ MayRefuse /\ scan.pc = "on" /\ Asks(cache, scan.dir)
    /\ \E l \in Parts(ListOf(scan.dir, bucket)) :
          cache' = [cache EXCEPT !.meta = Seeded(cache, scan.dir, l).meta]
    /\ scan' = NoScan
    /\ UNCHANGED <<bucket, pending, changes, odd>>

\* The caller has seen enough.
ScanStops ==
    /\ scan.pc # "none" /\ scan' = NoScan
    /\ UNCHANGED <<bucket, pending, cache, changes, odd>>

-----------------------------------------------------------------------------
(* Time, the process *)

\* An entry outlives its TTL, or is dropped by an invalidation from a peer.
ListingExpires(d) ==
    /\ \/ cache.mem[d] # None /\ cache' = [cache EXCEPT !.mem[d] = None]
       \/ cache.disk[d] # None /\ cache' = [cache EXCEPT !.disk[d] = None]
    /\ Same /\ UNCHANGED pending

MetaExpires(k) ==
    /\ cache.meta[k] # None /\ cache' = [cache EXCEPT !.meta[k] = None]
    /\ Same /\ UNCHANGED pending

Restart ==
    /\ cache' = [Empty EXCEPT !.disk = cache.disk]
    /\ pending' = {} /\ scan' = NoScan
    /\ UNCHANGED <<bucket, changes, odd>>

Next ==
    \/ \E k \in Paths :
        \/ Lookup(k) \/ LookupFails(k) \/ CreateDir(k) \/ CreateFile(k) \/ CreateBlind(k)
        \/ Close(k) \/ CloseFails(k) \/ DeleteFile(k) \/ RemoveDir(k)
        \/ \E n \in IF Len(k) = 1 THEN Top ELSE Inner : Rename(k, n)
    \/ \E k \in Paths : MetaExpires(k)
    \/ \E d \in Dirs : ScanStart(d) \/ ListingExpires(d)
    \/ \E o \in Objects : RemoteChange(o)
    \/ ScanPage \/ ScanFails \/ ScanStops \/ Restart

\* The driver asks for the next page as long as there is one.
Fairness == WF_vars(ScanPage)

Spec == Init /\ [][Next]_vars /\ Fairness

-----------------------------------------------------------------------------
(* Properties *)

TypeOK ==
    /\ bucket \subseteq Objects /\ pending \subseteq Paths
    /\ cache \in Caches
    /\ scan \in [pc : {"none", "on", "done"}, dir : Dirs, at : Names \cup {None},
                 seen : SUBSET Names, again : BOOLEAN, must : SUBSET Names]
    /\ changes \in 0..MaxChanges /\ odd \subseteq Dirs

\* Neither the root nor, in whatever case, a directory k names may be wrong.
Sound(k) == \A d \in odd : d # Root /\ Fold(d[1]) # Fold(k[1])

(***************************************************************************)
(* What this machine did to a name shows under that name at once, whatever *)
(* was cached before, under whatever case, in memory or by an earlier run  *)
(* of the program: a name that is there is found, and found as itself,     *)
(* unless a directory hides it that differs in case only; one that is      *)
(* not there is not found as itself.  Not claimed where somebody else      *)
(* wrote, where a directory was made or unmade by way of a file in it, in  *)
(* a directory that was renamed or removed while something of its content  *)
(* was cached, and in one of which an enumeration was cut off              *)
(* (winfsp_vfs.rs resolve, invalidate_parent).  And every variable has its *)
(* type.                                                                   *)
(***************************************************************************)
OwnWorkShows ==
    /\ TypeOK
    /\ \A k \in Paths : Sound(k) =>
          LET is   == Resolve(cache, k).is
              dirs == Alike(ListOf(Parent(k), bucket).dirs, Name(k)) \ {Name(k)}
          IN  /\ Present(k, bucket) /\ dirs = {} => is # Absent /\ is.real = k
              /\ ~Present(k, bucket) => is = Absent \/ is.real # k

(***************************************************************************)
(* A file or directory is created next to no other whose name differs in   *)
(* case only, over no other, and in a directory that exists as it is       *)
(* written ("so we don't accidentally spawn a ghost folder"), with the     *)
(* same exceptions, and but for a create of which a lookup fails           *)
(* (winfsp_vfs.rs create).                                                 *)
(***************************************************************************)
CreatedIsNew ==
    [][LET dirs == IF bucket \subseteq bucket' /\ pending' = pending
                   THEN {k \in Paths : Append(k, Keep) \in bucket' \ bucket} ELSE {}
       IN  \A k \in dirs \cup (pending' \ pending) : Sound(k) /\ Sound(k)' =>
              LET list == ListOf(Parent(k), bucket)
              IN  \/ /\ IsDir(Parent(k), bucket)
                     /\ Alike(list.dirs \cup list.files, Name(k)) = {}
                  \/ \E asked \in Paths : CreateBlind(asked)]_vars

(***************************************************************************)
(* An enumeration that comes to its end has listed every name that was     *)
(* there from first to last page and fits in an entry, and no name twice,  *)
(* whatever came, went or was renamed between the pages; of names that     *)
(* differ in case only it may have skipped some, and a directory it was    *)
(* cut off in is not claimed (winfsp_vfs.rs read_directory, listing_for).  *)
(***************************************************************************)
EnumerationIsWhole ==
    /\ ~scan.again
    /\ scan.pc = "done" /\ scan.dir \notin odd /\ Root \notin odd => scan.must \subseteq scan.seen

(***************************************************************************)
(* Every enumeration comes to its end, however small the buffers and       *)
(* whatever happens to the directory meanwhile: no "unbounded loop"        *)
(* (winfsp_vfs.rs read_directory).                                         *)
(***************************************************************************)
EnumerationEnds == scan.pc = "on" ~> scan.pc # "on"
=============================================================================
