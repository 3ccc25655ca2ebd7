--------------------------- MODULE DatabaseOpen ---------------------------
(***************************************************************************)
(* Opening the application's database (db.rs): before SQLite opens it, a   *)
(* database file that looks empty is replaced by the largest sound file    *)
(* that an earlier version had put into quarantine.                        *)
(*                                                                         *)
(* A row of the database is a model value, and so is a quarantined file,   *)
(* which stands for the rows it holds.  SQLite is its write-ahead log: a   *)
(* commit goes to the log, a checkpoint moves the log into the file, whose *)
(* size tells what was checkpointed and not what was committed.  The       *)
(* application may stop between any two steps on the disk.                 *)
(***************************************************************************)
EXTENDS Naturals, FiniteSets

CONSTANTS
    Quarantined, \* files nanocrew.db.corrupted-*
    Rows,        \* rows that may be committed
    Sizes,       \* sizes of files
    EmptyMax,    \* EMPTY_DB_SUSPECT_MAX
    Full,        \* the size of a checkpointed database, schema and all
    Live         \* the database that was not copied from a quarantined file

ASSUME DatabaseAssumption ==
    /\ IsFiniteSet(Quarantined)
    /\ Sizes \subseteq Nat /\ EmptyMax \in Nat /\ Full \in Nat
    /\ 1 \in Sizes /\ Full \in Sizes /\ 1 <= EmptyMax /\ EmptyMax < Full
    /\ Live \notin Quarantined /\ Rows \cap Quarantined = {}

VARIABLES
    kept,      \* the quarantined files: size and soundness
    main,      \* nanocrew.db: its size (0: no file), origin, rows; whole or not
    wal,       \* nanocrew.db-wal: the database it was written for, and its rows
    pc,        \* where the application is
    left,      \* candidates not tried yet
    cand,      \* the one being copied
    failed,    \* candidates on which something failed since the application started
    sure       \* rows known to be checkpointed in a whole file (not in the code)
dbVars == <<kept, main, wal, pc, left, cand, failed, sure>>

Files == [size : Sizes \cup {0}, of : Quarantined \cup {Live},
          rows : SUBSET (Rows \cup Quarantined), whole : BOOLEAN]
Logs == [of : Quarantined \cup {Live}, rows : SUBSET Rows]

NewFile(n, rows) == [size |-> n, of |-> Live, rows |-> rows, whole |-> TRUE]
NoFile == NewFile(0, {})
NoLog(d) == [of |-> d, rows |-> {}]

\* Every variable has its type, and an open database is whole with a log of its own
\* (db.rs open).
DbTypeOK ==
    /\ kept \in [Quarantined -> [size : Sizes, sound : BOOLEAN]]
    /\ main \in Files /\ wal \in Logs
    /\ pc \in {"off", "try", "strays", "remove", "copy", "copying", "opening", "open", "broken"}
    /\ left \subseteq Quarantined
    /\ cand \in Quarantined \cup {Live}
    /\ failed \subseteq Quarantined
    /\ sure \subseteq Rows \cup Quarantined
    /\ pc = "open" => main.size > 0 /\ main.whole /\ wal.of = main.of

(* What earlier versions left: no database, one that was never             *)
(* checkpointed, or one that was.                                          *)
DbInit ==
    /\ \E size \in [Quarantined -> Sizes], sound \in [Quarantined -> BOOLEAN] :
            kept = [c \in Quarantined |-> [size |-> size[c], sound |-> sound[c]]]
    /\ \E rows \in SUBSET Rows :
         \/ /\ main = NoFile /\ wal = NoLog(Live) /\ rows = {} /\ sure = {}
         \/ /\ main = NewFile(1, {}) /\ wal = [of |-> Live, rows |-> rows] /\ sure = {}
         \/ /\ main = NewFile(Full, rows) /\ wal = NoLog(Live)
            /\ sure = rows
    /\ pc = "off" /\ left = {} /\ cand = Live /\ failed = {}

-----------------------------------------------------------------------------
\* Mutant of LooksEmpty: every database does.
LooksEmptyAlways == TRUE

\* try_restore_from_bad_quarantine goes by the size of the file alone.
LooksEmpty == main.size <= EmptyMax

(* The candidates are those whose entry in the directory can be read, and  *)
(* its size; a size that cannot be read is zero, that of the database too. *)
Start ==
    /\ pc = "off"
    /\ \/ /\ ~LooksEmpty
          /\ pc' = "opening" /\ left' = {} /\ failed' = {}
          /\ UNCHANGED sure
       \/ /\ (LooksEmpty /\ UNCHANGED sure) \/ sure' = {}
          /\ \E missed \in SUBSET Quarantined : /\ left' = Quarantined \ missed
                                                /\ failed' = missed
          /\ pc' = "try"
    /\ UNCHANGED <<kept, main, wal, cand>>

\* Mutant of Best: in no order.
BestInAnyOrder == left

\* The next candidates in the order of their sizes.
Best == {c \in left : \A d \in left : kept[d].size <= kept[c].size}

Skip(c) ==
    /\ pc = "try" /\ c \in Best
    /\ kept[c].size <= EmptyMax \/ ~kept[c].sound
    /\ left' = left \ {c}
    /\ UNCHANGED <<kept, main, wal, pc, cand, failed, sure>>

\* The candidate is not opened, or its check gives no answer.
CheckFails(c) ==
    /\ pc = "try" /\ c \in Best
    /\ kept[c].size > EmptyMax
    /\ left' = left \ {c} /\ failed' = failed \cup {c}
    /\ UNCHANGED <<kept, main, wal, pc, cand, sure>>

Choose(c) ==
    /\ pc = "try" /\ c \in Best
    /\ kept[c].size > EmptyMax /\ kept[c].sound
    /\ cand' = c /\ left' = left \ {c}
    /\ pc' = "strays"
    /\ UNCHANGED <<kept, main, wal, failed, sure>>

NoneLeft ==
    /\ pc = "try" /\ left = {}
    /\ pc' = "opening"
    /\ UNCHANGED <<kept, main, wal, left, cand, failed, sure>>

(* remove_file of the log and of the database, with the error ignored.     *)
RemoveStrays ==
    /\ pc = "strays"
    /\ wal' \in {wal, NoLog(Live)}
    /\ pc' = "remove"
    /\ UNCHANGED <<kept, main, left, cand, failed, sure>>

RemoveMain ==
    /\ pc = "remove"
    /\ main' \in {main, NoFile}
    /\ pc' = "copy"
    /\ UNCHANGED <<kept, wal, left, cand, failed, sure>>

(* fs::copy is many writes: any part of the file may be there.             *)
CopyBegins ==
    /\ pc = "copy"
    /\ \E n \in Sizes : /\ n <= kept[cand].size
                        /\ main' = [size |-> n, of |-> cand, rows |-> {}, whole |-> FALSE]
    /\ pc' = "copying"
    /\ UNCHANGED <<kept, wal, left, cand, failed, sure>>

CopyEnds ==
    /\ pc = "copying"
    /\ main' = [size |-> kept[cand].size, of |-> cand, rows |-> {cand}, whole |-> TRUE]
    /\ sure' = {cand}
    /\ pc' = "opening"
    /\ UNCHANGED <<kept, wal, left, cand, failed>>

(* A copy that fails leaves what it wrote, or nothing.                     *)
CopyFails ==
    /\ pc \in {"copy", "copying"}
    /\ main' \in {main, NoFile}
    /\ failed' = failed \cup {cand}
    /\ pc' = "try"
    /\ UNCHANGED <<kept, wal, left, cand, sure>>

\* Mutant of Open: a missing file is not created.
OpenCreatesNothing ==
    /\ pc = "opening"
    /\ pc' = IF main.whole THEN "open" ELSE "broken"
    /\ wal' = [wal EXCEPT !.of = main.of]
    /\ UNCHANGED <<kept, main, left, cand, failed, sure>>

(* Connection::open and the schema: a missing file is created, a log is    *)
(* replayed, whatever file it was written for.  try_salvage_if_corrupt     *)
(* only logs what it finds.                                                *)
Open ==
    /\ pc = "opening"
    /\ IF main.size = 0
       THEN /\ main' = NewFile(1, {})
            /\ wal' = NoLog(Live)
            /\ pc' = "open"
       ELSE /\ main' = [main EXCEPT !.whole = @ /\ (wal.of = main.of \/ wal.rows = {})]
            /\ wal' = [wal EXCEPT !.of = main.of]
            /\ pc' = IF main'.whole THEN "open" ELSE "broken"
    /\ UNCHANGED <<kept, left, cand, failed, sure>>

Commit(r) ==
    /\ pc = "open" /\ r \notin main.rows \cup wal.rows
    /\ wal' = [wal EXCEPT !.rows = @ \cup {r}]
    /\ UNCHANGED <<kept, main, pc, left, cand, failed, sure>>

(* Two hundred pages of log, or the last connection is closed.             *)
Checkpoint ==
    /\ pc = "open"
    /\ main' = [main EXCEPT !.rows = @ \cup wal.rows,
                            !.size = IF @ < Full THEN Full ELSE @]
    /\ wal' = NoLog(main.of)
    /\ sure' = main'.rows
    /\ UNCHANGED <<kept, pc, left, cand, failed>>

(* The end of the process, at any time: SQLite is not closed.              *)
Stop ==
    /\ pc # "off"
    /\ pc' = "off" /\ left' = {} /\ cand' = Live
    /\ UNCHANGED <<kept, main, wal, failed, sure>>

Opening == \/ \E c \in Quarantined : Skip(c) \/ CheckFails(c) \/ Choose(c)
           \/ NoneLeft \/ RemoveStrays \/ RemoveMain \/ CopyBegins \/ CopyEnds \/ CopyFails
           \/ Open

DbNext == Start \/ Opening \/ Stop \/ Checkpoint \/ \E r \in Rows : Commit(r)

DbSpec == DbInit /\ [][DbNext]_dbVars

-----------------------------------------------------------------------------
(***************************************************************************)
(* What was checkpointed is never replaced, as long as the size of the     *)
(* file can be read, and nothing that was copied into place is: an open    *)
(* database has it (db.rs open, try_restore_from_bad_quarantine).          *)
(***************************************************************************)
CheckpointedKept == pc = "open" => sure \subseteq main.rows

(***************************************************************************)
(* Of the files in quarantine that could be listed, read, checked and      *)
(* copied, an empty database is replaced by the largest sound one, and it  *)
(* stays empty only if none of them is: one on which something failed does *)
(* not end the search (db.rs try_restore_from_bad_quarantine).             *)
(***************************************************************************)
LargestRestored ==
    \A c \in Quarantined \ failed :
        kept[c].sound => /\ pc = "strays" => kept[c].size <= kept[cand].size
                         /\ pc = "opening" /\ LooksEmpty => kept[c].size <= EmptyMax

=============================================================================
