----------------------------- MODULE FolderMoves -----------------------------
(***************************************************************************)
(* Renaming and removing folders and files of a drive (winfsp_vfs.rs       *)
(* rename and cleanup, commands/drives.rs rename_object and create_folder, *)
(* providers/s3.rs).  A bucket has keys and no folders: a folder is listed *)
(* page by page, and every object under it is copied and deleted, or       *)
(* deleted, with a request of its own.  There is no lock and no log: a     *)
(* request may fail after it was carried out, a call may end between any   *)
(* two of them with its process, and others do the same to the same        *)
(* folders.                                                                *)
(*                                                                         *)
(* The folders here are in one directory, since a rename keeps the parent  *)
(* of what it renames.  Contents are told apart by the write that stored   *)
(* them; what the caches show is ListingCache's subject, and whether the   *)
(* target of a file is diverted FileLock's.                                *)
(***************************************************************************)
EXTENDS Naturals, FiniteSets

CONSTANTS
    Folders,    \* folders, whether or not anything is in them
    MaxName,    \* names in a folder, .keep among them, are 1..MaxName in a listing's order
    Callers,    \* calls of all machines that may be in progress at once
    PageSize,   \* keys in a page of a listing
    First,      \* the folder that has a file of every name at the start
    MaxWrites,  \* bound: writes, those that stored the first files included
    MaxCalls,   \* bound: calls
    Same,       \* a folder rename leaves names as they are
    None        \* no key, and nobody

ASSUME FolderAssumption ==
    /\ {MaxName, PageSize, MaxWrites, MaxCalls} \subseteq Nat
    /\ PageSize > 0 /\ MaxName <= MaxWrites
    /\ First \in Folders
    /\ Same \notin Nat /\ None \notin (Folders \X Nat) \cup Callers

VARIABLES
    obj,      \* the bucket: what each key holds, 0 for no object
    writes,   \* writes so far, which number the contents
    call,     \* the calls in progress
    begun,    \* calls so far
    held,     \* the bucket when the call began (not in the code)
    touched,  \* somebody else changed something the call works on (not in the code)
    replaced, \* contents written over, or removed on demand (not in the code)
    crossed   \* somebody stored something at a key between its copy and its deletion
              \* (not in the code)
vars == <<obj, writes, call, begun, held, touched, replaced, crossed>>

Names    == 1..MaxName
Keys     == Folders \X Names
Contents == 0..MaxWrites
Buckets  == [Keys -> Contents]
NoObjects == [k \in Keys |-> 0]
Under(f) == {f} \X Names
Stored   == {obj[k] : k \in Keys} \ {0}

Call == [pc : {"idle", "list", "copy", "delete", "ok", "failed"}, op : {"move", "remove"},
         from : SUBSET Keys, to : Folders, as : Names \cup {Same}, after : Nat,
         todo : SUBSET Keys, at : Keys \cup {None}, lost : SUBSET Keys]
Idle == [pc |-> "idle", op |-> "move", from |-> {}, to |-> First, as |-> Same, after |-> 0,
         todo |-> {}, at |-> None, lost |-> {}]

\* Where call c puts what it finds at key k.
Target(c, k) == <<c.to, IF c.as = Same THEN k[2] ELSE c.as>>
Targets(c)   == IF c.op = "move" THEN {Target(c, k) : k \in c.from} ELSE {}
Scope(c)     == c.from \cup Targets(c)

Init ==
    /\ obj = [k \in Keys |-> IF k[1] = First THEN k[2] ELSE 0]
    /\ writes = MaxName
    /\ call = [p \in Callers |-> Idle]
    /\ begun = 0
    /\ held = [p \in Callers |-> NoObjects]
    /\ touched = [p \in Callers |-> FALSE]
    /\ replaced = {}
    /\ crossed = FALSE

-----------------------------------------------------------------------------
(* Requests of the provider.  p, None for somebody else, makes key k hold  *)
(* content c.                                                              *)
Put(p, k, c) ==
    /\ obj' = [obj EXCEPT ![k] = c]
    /\ touched' = [q \in Callers |->
            \/ touched[q]
            \/ q # p /\ call[q].pc # "idle" /\ k \in Scope(call[q]) /\ obj[k] # c]
    /\ crossed' = \/ crossed
                  \/ c # 0 /\ \E q \in Callers \ {p} :
                        call[q].op = "move" /\ call[q].pc = "delete" /\ call[q].at = k

Over(k, c) == replaced' = replaced \cup ({obj[k]} \ {0, c})

NoPut == UNCHANGED <<obj, touched, crossed>>

\* What a listing of S has after a name, and the first page of it.
Left(S, after) == {k \in S : obj[k] # 0 /\ k[2] > after}
Page(S, after) ==
    {k \in Left(S, after) : Cardinality({l \in Left(S, after) : l[2] < k[2]}) < PageSize}

\* k is the next of the listed keys; n is the last name on a page.
IsNext(k, S) == k \in S /\ \A l \in S : k[2] <= l[2]
IsLast(n, S) == n \in {k[2] : k \in S} /\ \A k \in S : k[2] <= n

-----------------------------------------------------------------------------
(* A call begins.  Nobody is asked whether the target exists, nor whether  *)
(* somebody else is at work on the same folder.                            *)
Begin(p, c) ==
    /\ call[p].pc = "idle" /\ begun < MaxCalls
    /\ begun' = begun + 1
    /\ call' = [call EXCEPT ![p] = c]
    /\ held' = [held EXCEPT ![p] = obj]
    /\ touched' = [touched EXCEPT ![p] = FALSE]
    /\ UNCHANGED <<obj, writes, replaced, crossed>>

\* rename on a folder, and rename_object with is_dir.
RenameFolder(p, f, g) ==
    f # g /\ Begin(p, [Idle EXCEPT !.pc = "list", !.from = Under(f), !.to = g])

\* rename on a file, onto the name asked for or the one it is diverted to.
RenameFile(p, k, n) ==
    /\ k[2] # n
    /\ Begin(p, [Idle EXCEPT !.pc = "copy", !.from = {k}, !.to = k[1], !.as = n,
                             !.todo = {k}])

\* cleanup of a folder that is to be deleted.
RemoveFolder(p, f) ==
    Begin(p, [Idle EXCEPT !.pc = "list", !.op = "remove", !.from = Under(f)])

(* The end of a call, with a result that the caller sees. *)
Ends(p, result) == call' = [call EXCEPT ![p].pc = result]

\* What comes after a request that was the last for a key.
Goes(c) == IF c.op = "move" THEN "copy" ELSE "delete"

(* list_prefix: one page, and on with the token as long as there is one. *)
List(p) ==
    LET c    == call[p]
        page == Page(c.from, c.after)
    IN  /\ c.pc = "list"
        /\ \/ /\ page = Left(c.from, c.after)
              /\ call' = [call EXCEPT ![p] =
                     [c EXCEPT !.pc = Goes(c), !.after = 0, !.todo = @ \cup page]]
           \/ /\ page # Left(c.from, c.after)
              /\ \E n \in Names :
                    /\ IsLast(n, page)
                    /\ call' = [call EXCEPT ![p] = [c EXCEPT !.after = n, !.todo = @ \cup page]]
        /\ NoPut /\ UNCHANGED <<writes, begun, held, replaced>>

\* Nothing has been done to any object yet, and the error is the result.
ListFails(p) ==
    /\ call[p].pc = "list"
    /\ call' = [call EXCEPT ![p] = [call[p] EXCEPT !.pc = "failed", !.lost = call[p].from]]
    /\ NoPut /\ UNCHANGED <<writes, begun, held, replaced>>

(* copy_object: the store copies what is there by then, if anything is.    *)
Copy(p, k) ==
    LET c == call[p]
    IN  /\ c.pc = "copy" /\ IsNext(k, c.todo) /\ obj[k] # 0
        /\ Put(p, Target(c, k), obj[k]) /\ Over(Target(c, k), obj[k])
        /\ call' = [call EXCEPT ![p] = [c EXCEPT !.pc = "delete", !.at = k]]
        /\ UNCHANGED <<writes, begun, held>>

\* Mutant of CopyFails: the error is not looked at.
CopyFailsQuietly(p, k) ==
    LET c == call[p]
    IN  /\ c.pc = "copy" /\ IsNext(k, c.todo)
        /\ call' = [call EXCEPT ![p] = [c EXCEPT !.pc = "delete", !.at = k]]
        /\ NoPut /\ UNCHANGED <<writes, begun, held, replaced>>

\* The rename ends with the first copy that fails, carried out or not.
CopyFails(p, k) ==
    LET c == call[p]
    IN  /\ c.pc = "copy" /\ IsNext(k, c.todo)
        /\ \/ NoPut /\ UNCHANGED replaced
           \/ obj[k] # 0 /\ Put(p, Target(c, k), obj[k]) /\ Over(Target(c, k), obj[k])
        /\ Ends(p, "failed")
        /\ UNCHANGED <<writes, begun, held>>

\* The original is deleted once its copy has been made, whatever is there by now.
DeleteOld(p) ==
    LET c == call[p]
    IN  /\ c.op = "move" /\ c.pc = "delete"
        /\ Put(p, c.at, 0)
        /\ call' = [call EXCEPT ![p] = [c EXCEPT !.pc = "copy", !.at = None,
                                                 !.todo = @ \ {c.at}]]
        /\ UNCHANGED <<writes, begun, held, replaced>>

\* Mutant of DeleteOldFails: the result of the deletion is dropped.
DeleteOldFailsQuietly(p) ==
    LET c == call[p]
    IN  /\ c.op = "move" /\ c.pc = "delete"
        /\ call' = [call EXCEPT ![p] = [c EXCEPT !.pc = "copy", !.at = None,
                                                 !.todo = @ \ {c.at}]]
        /\ NoPut /\ UNCHANGED <<writes, begun, held, replaced>>

DeleteOldFails(p) ==
    LET c == call[p]
    IN  /\ c.op = "move" /\ c.pc = "delete"
        /\ NoPut \/ Put(p, c.at, 0)
        /\ Ends(p, "failed")
        /\ UNCHANGED <<writes, begun, held, replaced>>

Moved(p) ==
    /\ call[p].pc = "copy" /\ call[p].todo = {}
    /\ Ends(p, "ok")
    /\ NoPut /\ UNCHANGED <<writes, begun, held, replaced>>

(* A removal goes on after a failure, and counts them. *)
Remove(p, k) ==
    LET c == call[p]
    IN  /\ c.op = "remove" /\ c.pc = "delete" /\ IsNext(k, c.todo)
        /\ Put(p, k, 0) /\ Over(k, 0)
        /\ call' = [call EXCEPT ![p].todo = @ \ {k}]
        /\ UNCHANGED <<writes, begun, held>>

\* Mutant of RemoveFails: a failure is not counted.
RemoveFailsQuietly(p, k) ==
    LET c == call[p]
    IN  /\ c.op = "remove" /\ c.pc = "delete" /\ IsNext(k, c.todo)
        /\ NoPut /\ UNCHANGED replaced
        /\ call' = [call EXCEPT ![p].todo = @ \ {k}]
        /\ UNCHANGED <<writes, begun, held>>

RemoveFails(p, k) ==
    LET c == call[p]
    IN  /\ c.op = "remove" /\ c.pc = "delete" /\ IsNext(k, c.todo)
        /\ \/ NoPut /\ UNCHANGED replaced
           \/ Put(p, k, 0) /\ Over(k, 0)
        /\ call' = [call EXCEPT ![p] = [c EXCEPT !.todo = @ \ {k}, !.lost = @ \cup {k}]]
        /\ UNCHANGED <<writes, begun, held>>

Removed(p) ==
    LET c == call[p]
    IN  /\ c.op = "remove" /\ c.pc = "delete" /\ c.todo = {}
        /\ Ends(p, IF c.lost = {} THEN "ok" ELSE "failed")
        /\ NoPut /\ UNCHANGED <<writes, begun, held, replaced>>

(* The caller has seen the result, or the process is gone. *)
Returns(p) ==
    /\ call[p].pc # "idle"
    /\ call' = [call EXCEPT ![p] = Idle]
    /\ held' = [held EXCEPT ![p] = NoObjects]
    /\ touched' = [touched EXCEPT ![p] = FALSE]
    /\ UNCHANGED <<obj, writes, begun, replaced, crossed>>

-----------------------------------------------------------------------------
(* An upload or a .keep marker, of anybody: one request, and no question   *)
(* whether the folder is being moved.                                      *)
Write(k) ==
    /\ writes < MaxWrites
    /\ writes' = writes + 1
    /\ Put(None, k, writes + 1) /\ Over(k, 0)
    /\ UNCHANGED <<call, begun, held>>

CallStep(p) ==
    \/ List(p) \/ ListFails(p) \/ DeleteOld(p) \/ DeleteOldFails(p)
    \/ Moved(p) \/ Removed(p)
    \/ \E k \in Keys : Copy(p, k) \/ CopyFails(p, k) \/ Remove(p, k) \/ RemoveFails(p, k)

Next ==
    \/ \E p \in Callers :
        \/ \E f, g \in Folders : RenameFolder(p, f, g)
        \/ \E k \in Keys, n \in Names : RenameFile(p, k, n)
        \/ \E f \in Folders : RemoveFolder(p, f)
        \/ CallStep(p) \/ Returns(p)
    \/ \E k \in Keys : Write(k)

Spec == Init /\ [][Next]_vars

-----------------------------------------------------------------------------
TypeOK ==
    /\ obj \in Buckets /\ writes \in Contents
    /\ call \in [Callers -> Call]
    /\ begun \in 0..MaxCalls
    /\ held \in [Callers -> Buckets]
    /\ touched \in [Callers -> BOOLEAN]
    /\ replaced \subseteq Contents
    /\ crossed \in BOOLEAN
    /\ \A p \in Callers : /\ call[p].todo \subseteq call[p].from
                          /\ call[p].op = "move" /\ call[p].pc = "delete"
                                => call[p].at \in call[p].todo

(***************************************************************************)
(* Nothing is lost: whatever was written is somewhere in the bucket until  *)
(* something is written over it or it is removed on demand, however many   *)
(* renames of the same folder run at once, fail half-way, are carried out  *)
(* without an answer, die with their process and are tried again; unless   *)
(* somebody stores something at a key between its copy and its deletion    *)
(* (winfsp_vfs.rs rename, commands/drives.rs rename_object: copy, then     *)
(* delete).                                                                *)
(***************************************************************************)
NothingLost == ~crossed => 1..writes \subseteq Stored \cup replaced

\* A rename that succeeds has moved all that was under the old name, in whatever state
\* earlier attempts left the two folders, and left alone what it did not move.
MovedWhole(p) ==
    LET c == call[p]
    IN  c.op = "move" /\ c.pc = "ok" =>
            /\ \A k \in c.from : obj[k] = 0 \/ k \in Targets(c)
            /\ \A k \in c.from : held[p][k] # 0 => obj[Target(c, k)] = held[p][k]
            /\ \A k \in Targets(c) : (\A l \in c.from : Target(c, l) = k => held[p][l] = 0)
                                        => obj[k] = held[p][k]

\* A folder that was deleted is empty or the failure is reported, and then all that is left
\* is what could not be deleted.
RemovalReported(p) ==
    LET c == call[p]
    IN  c.op = "remove" /\ c.pc \in {"ok", "failed"} /\ c.todo = {} =>
            {k \in c.from : obj[k] # 0} \subseteq c.lost

(***************************************************************************)
(* What a rename or a removal reports is what happened, whichever of its   *)
(* requests and of those before it failed, as long as nobody else was at   *)
(* work there; every variable has its type (winfsp_vfs.rs rename,          *)
(* cleanup).                                                               *)
(***************************************************************************)
ReportIsTrue ==
    /\ TypeOK
    /\ \A p \in Callers : ~touched[p] => MovedWhole(p) /\ RemovalReported(p)

=============================================================================
