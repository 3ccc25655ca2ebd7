--------------------------- MODULE DatabaseProofs ---------------------------
(***************************************************************************)
(* Theorems about the database of the application: how it is opened and    *)
(* recovered, and what the commands for the account, its sessions, the     *)
(* licence and the preferences make of its tables.                         *)
(***************************************************************************)
EXTENDS DatabaseOpen, Account, TLAPS

-----------------------------------------------------------------------------
(***************************************************************************)
(* A checkpointed database survives every start, whatever is in quarantine *)
(* and whenever the application stops.                                     *)
(*                                                                         *)
(* The size of the file is all the recovery looks at, so the invariant     *)
(* ties the size to what is sure: a file with checkpointed rows is larger  *)
(* than EmptyMax (Held), and while a copy is under way nothing is sure and *)
(* the candidate is larger than EmptyMax too (Copying).                    *)
(*                                                                         *)
(* And what is restored is the largest sound candidate, since those that   *)
(* were taken out before it are no good or something failed on them, and   *)
(* nothing is restored only if that is so of all of them (Search).         *)
(***************************************************************************)

Recovering == {"try", "strays", "remove", "copy", "copying"}

Held == sure # {} => /\ pc \notin Recovering
                     /\ main.size > EmptyMax
                     /\ sure \subseteq main.rows

Copying == pc \in Recovering \ {"try"} => cand \in Quarantined /\ kept[cand].size > EmptyMax

DbInv == DbTypeOK /\ Held /\ Copying

-----------------------------------------------------------------------------
(* The two files that are made from nothing. *)
LEMMA Made ==
    /\ \A n \in Sizes \cup {0}, rows \in SUBSET Rows :
          LET f == NewFile(n, rows)
          IN  f \in Files /\ f.size = n /\ f.of = Live /\ f.rows = rows /\ f.whole
    /\ NoFile \in Files
    /\ \A d \in Quarantined \cup {Live} : NoLog(d) \in Logs /\ NoLog(d).of = d
BY DEF Files, Logs, NewFile, NoFile, NoLog

(* Sizes are numbers. *)
LEMMA Numbers ==
    ASSUME DbTypeOK
    PROVE  /\ main.size \in Nat /\ EmptyMax \in Nat /\ Full \in Nat /\ Full \in Sizes
           /\ 1 \in Sizes /\ 1 <= EmptyMax /\ EmptyMax < Full
           /\ \A c \in Quarantined : kept[c].size \in Sizes /\ kept[c].size \in Nat
<1>1. main.size \in Sizes \cup {0} /\ \A c \in Quarantined : kept[c].size \in Sizes
  BY DEF DbTypeOK, Files
<1>2. /\ Sizes \subseteq Nat /\ EmptyMax \in Nat /\ Full \in Nat /\ Full \in Sizes
      /\ 1 \in Sizes /\ 1 <= EmptyMax /\ EmptyMax < Full
  BY DatabaseAssumption
<1>3. \A x \in Sizes \cup {0} : x \in Nat
  BY <1>2
<1>4. main.size \in Nat
  BY <1>1, <1>3
<1>5. \A c \in Quarantined : kept[c].size \in Sizes /\ kept[c].size \in Nat
  BY <1>1, <1>3
<1> QED BY <1>2, <1>4, <1>5

(* Nothing is recovered before the first start. *)
LEMMA DbInitInv == DbInit => DbInv
<1> SUFFICES ASSUME DbInit PROVE DbInv
  OBVIOUS
<1>1. PICK size \in [Quarantined -> Sizes], sound \in [Quarantined -> BOOLEAN] :
              kept = [c \in Quarantined |-> [size |-> size[c], sound |-> sound[c]]]
  BY DEF DbInit
<1>2. kept \in [Quarantined -> [size : Sizes, sound : BOOLEAN]]
  <2>1. \A c \in Quarantined : size[c] \in Sizes /\ sound[c] \in BOOLEAN
    OBVIOUS
  <2> QED BY <1>1, <2>1
<1>3. /\ pc = "off" /\ left = {} /\ cand = Live /\ failed = {}
  BY DEF DbInit
<1>4. PICK rows \in SUBSET Rows :
         \/ main = NoFile /\ wal = NoLog(Live) /\ sure = {}
         \/ /\ main = NewFile(1, {}) /\ wal = [of |-> Live, rows |-> rows]
            /\ sure = {}
         \/ /\ main = NewFile(Full, rows) /\ wal = NoLog(Live)
            /\ sure = rows
  BY DEF DbInit
<1>5. /\ main \in Files /\ main.rows \subseteq Rows
      /\ sure # {} => main.size = Full /\ sure = main.rows
  <2>1. PICK n \in Sizes \cup {0}, held \in SUBSET Rows :
           main = NewFile(n, held) /\ (sure = {} \/ (n = Full /\ sure = held))
    <3>1. 0 \in Sizes \cup {0} /\ 1 \in Sizes \cup {0} /\ Full \in Sizes \cup {0}
          /\ {} \in SUBSET Rows
      BY DatabaseAssumption
    <3> QED BY <1>4, <3>1 DEF NoFile
  <2> QED BY <2>1, Made
<1>6. wal \in Logs /\ wal.rows \subseteq Rows
  BY <1>4 DEF Logs, NoLog
<1>7. sure \subseteq Rows
  BY <1>5
<1>8. DbTypeOK
  BY <1>2, <1>3, <1>5, <1>6, <1>7 DEF DbTypeOK
<1>9. Full > EmptyMax
  BY DatabaseAssumption
<1> QED BY <1>3, <1>5, <1>8, <1>9 DEF DbInv, Held, Copying, Recovering

(* A start recovers only when nothing is sure. *)
LEMMA StartKeeps == ASSUME DbInv, Start PROVE DbInv'
<1>1. DbTypeOK /\ Held
  BY DEF DbInv
<1>2. /\ pc' \in {"try", "opening"}
      /\ left' \subseteq Quarantined /\ failed' \subseteq Quarantined
      /\ sure' = {} \/ sure' = sure
      /\ pc' = "try" => main.size <= EmptyMax \/ sure' = {}
      /\ kept' = kept /\ main' = main /\ wal' = wal /\ cand' = cand
  BY DEF Start, LooksEmpty
<1>3. DbTypeOK'
  BY <1>1, <1>2 DEF DbTypeOK
<1>4. main.size \in Nat /\ EmptyMax \in Nat
  BY <1>1, Numbers
<1>5. Held'
  BY <1>1, <1>2, <1>4 DEF Held, Recovering
<1> QED BY <1>2, <1>3, <1>5 DEF DbInv, Copying, Recovering

(* The search for a candidate. *)
LEMMA SearchKeeps ==
    ASSUME DbInv, NoneLeft \/ \E c \in Quarantined : Skip(c) \/ CheckFails(c) \/ Choose(c)
    PROVE  DbInv'
<1>1. DbTypeOK /\ Held /\ Copying
  BY DEF DbInv
<1>2. sure = {}
  <2>1. pc = "try"
    BY DEF NoneLeft, Skip, CheckFails, Choose
  <2> QED BY <1>1, <2>1 DEF Held, Recovering
<1>3. ASSUME NoneLeft PROVE DbInv'
  BY <1>1, <1>2, <1>3 DEF NoneLeft, DbInv, DbTypeOK, Held, Copying, Recovering
<1>4. ASSUME NEW c \in Quarantined, Skip(c) PROVE DbInv'
  BY <1>1, <1>2, <1>4 DEF Skip, DbInv, DbTypeOK, Held, Copying, Recovering
<1>5. ASSUME NEW c \in Quarantined, Choose(c) PROVE DbInv'
  BY <1>1, <1>2, <1>5 DEF Choose, DbInv, DbTypeOK, Held, Copying, Recovering
<1>6. ASSUME NEW c \in Quarantined, CheckFails(c) PROVE DbInv'
  BY <1>1, <1>2, <1>6 DEF CheckFails, DbInv, DbTypeOK, Held, Copying, Recovering
<1> QED BY <1>3, <1>4, <1>5, <1>6

(* The removal of the old files. *)
LEMMA RemovalKeeps == ASSUME DbInv, RemoveStrays \/ RemoveMain PROVE DbInv'
<1>1. DbTypeOK /\ Held /\ Copying
  BY DEF DbInv
<1>2. /\ sure = {} /\ sure' = sure
      /\ pc \in Recovering \ {"try"} /\ pc' \in {"remove", "copy"}
      /\ kept' = kept /\ left' = left /\ cand' = cand /\ failed' = failed
  BY <1>1 DEF RemoveStrays, RemoveMain, Held, Recovering
<1>3. NoFile \in Files /\ NoLog(Live) \in Logs
  BY Made
<1>5. main' \in {main, NoFile} /\ wal' \in {wal, NoLog(Live)}
  BY DEF RemoveStrays, RemoveMain
<1>6. DbTypeOK'
  BY <1>1, <1>2, <1>3, <1>5 DEF DbTypeOK, Recovering
<1> QED BY <1>1, <1>2, <1>6 DEF DbInv, Held, Copying, Recovering

(* The copy, whole or not. *)
LEMMA CopyKeeps == ASSUME DbInv, CopyBegins \/ CopyEnds \/ CopyFails PROVE DbInv'
<1>1. DbTypeOK /\ Held /\ Copying
  BY DEF DbInv
<1>2. /\ sure = {} /\ pc \in {"copy", "copying"}
      /\ cand \in Quarantined /\ kept[cand].size > EmptyMax /\ kept[cand].size \in Sizes
      /\ kept' = kept /\ cand' = cand /\ left' = left /\ wal' = wal
  BY <1>1, Numbers DEF CopyBegins, CopyEnds, CopyFails, Held, Copying, Recovering
<1>3. ASSUME CopyBegins PROVE DbInv'
  <2>1. PICK n \in Sizes : main' = [size |-> n, of |-> cand, rows |-> {}, whole |-> FALSE]
    BY <1>3 DEF CopyBegins
  <2>2. main' \in Files
    BY <1>2, <2>1 DEF Files
  <2>3. pc' = "copying" /\ failed' = failed /\ sure' = sure
    BY <1>3 DEF CopyBegins
  <2>4. DbTypeOK'
    BY <1>1, <1>2, <2>2, <2>3 DEF DbTypeOK
  <2> QED BY <1>2, <2>3, <2>4 DEF DbInv, Held, Copying, Recovering
<1>4. ASSUME CopyEnds PROVE DbInv'
  <2>1. /\ main' = [size |-> kept[cand].size, of |-> cand, rows |-> {cand}, whole |-> TRUE]
        /\ sure' = {cand} /\ pc' = "opening" /\ failed' = failed
    BY <1>4 DEF CopyEnds
  <2>2. main' \in Files
    BY <1>2, <2>1 DEF Files
  <2>3. DbTypeOK'
    BY <1>1, <1>2, <2>1, <2>2 DEF DbTypeOK
  <2> QED BY <1>2, <2>1, <2>3 DEF DbInv, Held, Copying, Recovering
<1>5. ASSUME CopyFails PROVE DbInv'
  <2>1. main' \in {main, NoFile} /\ failed' = failed \cup {cand} /\ pc' = "try" /\ sure' = sure
    BY <1>5 DEF CopyFails
  <2>2. NoFile \in Files
    BY Made
  <2>3. DbTypeOK'
    BY <1>1, <1>2, <2>1, <2>2 DEF DbTypeOK
  <2> QED BY <1>2, <2>1, <2>3 DEF DbInv, Held, Copying, Recovering
<1> QED BY <1>3, <1>4, <1>5

(* SQLite opens what is there. *)
LEMMA OpenKeeps == ASSUME DbInv, Open PROVE DbInv'
<1>1. DbTypeOK /\ Held /\ Copying
  BY DEF DbInv
<1>2. /\ pc = "opening" /\ pc' \in {"open", "broken"}
      /\ kept' = kept /\ left' = left /\ cand' = cand /\ failed' = failed /\ sure' = sure
  BY DEF Open
<1>3. ASSUME main.size = 0 PROVE DbInv'
  <2>1. /\ main' = NewFile(1, {}) /\ wal' = NoLog(Live)
        /\ pc' = "open"
    BY <1>3 DEF Open
  <2>2. sure = {}
    BY <1>1, <1>3, Numbers DEF Held
  <2>3. /\ main' \in Files
        /\ main'.size > 0 /\ main'.whole /\ main'.of = Live
    BY <1>1, <2>1, Numbers, Made
  <2>4. wal' \in Logs /\ wal'.of = Live
    BY <2>1, Made
  <2>5. DbTypeOK'
    BY <1>1, <1>2, <2>1, <2>2, <2>3, <2>4 DEF DbTypeOK
  <2> QED BY <1>2, <2>2, <2>5 DEF DbInv, Held, Copying, Recovering
<1>4. ASSUME main.size # 0 PROVE DbInv'
  <2>1. /\ main' = [main EXCEPT !.whole = @ /\ (wal.of = main.of \/ wal.rows = {})]
        /\ wal' = [wal EXCEPT !.of = main.of]
        /\ pc' = "open" => main'.whole
    BY <1>4 DEF Open
  <2>2. /\ main \in Files
        /\ wal \in Logs
        /\ main.size \in Nat
    BY <1>1, Numbers DEF DbTypeOK
  <2>3. (main.whole /\ (wal.of = main.of \/ wal.rows = {})) \in BOOLEAN
    OBVIOUS
  <2>4. /\ main' \in Files
        /\ main'.size = main.size /\ main'.of = main.of /\ main'.rows = main.rows
    BY <2>1, <2>2, <2>3 DEF Files
  <2>5. wal' \in Logs /\ wal'.of = main.of
    BY <2>1, <2>2 DEF Files, Logs
  <2>6. main'.size > 0
    BY <1>4, <2>1, <2>2, <2>4 DEF Files, Logs
  <2>7. DbTypeOK'
    BY <1>1, <1>2, <2>1, <2>4, <2>5, <2>6 DEF DbTypeOK
  <2> QED BY <1>1, <1>2, <2>4, <2>7 DEF DbInv, Held, Copying, Recovering
<1> QED BY <1>3, <1>4

(* A commit goes to the log and leaves the file alone. *)
LEMMA CommitKeeps == ASSUME DbInv, NEW r \in Rows, Commit(r) PROVE DbInv'
<1>1. DbTypeOK /\ Held /\ Copying
  BY DEF DbInv
<1>2. /\ wal' = [wal EXCEPT !.rows = @ \cup {r}]
      /\ kept' = kept /\ main' = main /\ pc' = pc /\ left' = left /\ cand' = cand
      /\ failed' = failed /\ sure' = sure
  BY DEF Commit
<1>3. wal' \in Logs /\ wal'.of = wal.of
  BY <1>1, <1>2 DEF DbTypeOK, Logs
<1>4. DbTypeOK'
  BY <1>1, <1>2, <1>3 DEF DbTypeOK
<1> QED BY <1>1, <1>2, <1>4 DEF DbInv, Held, Copying, Recovering

(* A checkpoint makes the file larger than EmptyMax. *)
LEMMA CheckpointKeeps == ASSUME DbInv, Checkpoint PROVE DbInv'
<1>1. DbTypeOK /\ Held /\ Copying
  BY DEF DbInv
<1>2. /\ pc = "open" /\ pc' = pc
      /\ main' = [main EXCEPT !.rows = @ \cup wal.rows,
                              !.size = IF @ < Full THEN Full ELSE @]
      /\ wal' = NoLog(main.of) /\ sure' = main'.rows
      /\ kept' = kept /\ left' = left /\ cand' = cand /\ failed' = failed
  BY DEF Checkpoint
<1>3. /\ main \in Files
      /\ wal.rows \subseteq Rows /\ main.size \in Nat /\ main.whole
  BY <1>1, <1>2, Numbers DEF DbTypeOK, Logs
<1>4. /\ Full \in Sizes /\ Full \in Nat /\ EmptyMax \in Nat /\ EmptyMax < Full
  BY <1>1, Numbers
<1>5. /\ main'.size = (IF main.size < Full THEN Full ELSE main.size)
      /\ main'.rows = main.rows \cup wal.rows
      /\ main'.of = main.of /\ main'.whole = main.whole
  BY <1>2, <1>3 DEF Files
<1>6. main' \in Files
  BY <1>2, <1>3, <1>4 DEF Files
<1>7. main'.size > EmptyMax /\ main'.size > 0
  BY <1>3, <1>4, <1>5
<1>8. wal' \in Logs /\ wal'.of = main.of
  BY <1>2, <1>3, Made DEF Files
<1>9. sure' \subseteq Rows \cup Quarantined
  BY <1>2, <1>3, <1>5 DEF Files
<1>10. DbTypeOK'
  BY <1>1, <1>2, <1>3, <1>5, <1>6, <1>7, <1>8, <1>9 DEF DbTypeOK
<1> QED BY <1>1, <1>2, <1>7, <1>10 DEF DbInv, Held, Copying, Recovering

(* The invariant is inductive. *)
LEMMA DbInductive == DbSpec => []DbInv
<1>1. DbInit => DbInv
  BY DbInitInv
<1>2. DbInv /\ [DbNext]_dbVars => DbInv'
  <2> SUFFICES ASSUME DbInv, [DbNext]_dbVars PROVE DbInv'
    OBVIOUS
  <2>1. ASSUME Opening PROVE DbInv'
    BY <2>1, SearchKeeps, RemovalKeeps, CopyKeeps, OpenKeeps DEF Opening
  <2>2. ASSUME NEW r \in Rows, Commit(r) PROVE DbInv'
    BY <2>2, CommitKeeps
  <2>3. ASSUME Stop PROVE DbInv'
    BY <2>3 DEF Stop, DbInv, DbTypeOK, Held, Copying, Recovering
  <2>4. ASSUME UNCHANGED dbVars PROVE DbInv'
    BY <2>4 DEF dbVars, DbInv, DbTypeOK, Held, Copying
  <2> QED BY <2>1, <2>2, <2>3, <2>4, StartKeeps, CheckpointKeeps DEF DbNext
<1> QED BY <1>1, <1>2, PTL DEF DbSpec

(***************************************************************************)
(* Every variable has its type, and an open database is whole, with a log  *)
(* of its own (db.rs open).                                                *)
(***************************************************************************)
THEOREM DatabaseTypes == DbSpec => []DbTypeOK
<1>1. DbInv => DbTypeOK
  BY DEF DbInv
<1> QED BY <1>1, DbInductive, PTL

(***************************************************************************)
(* What was checkpointed, or restored, survives every later start (db.rs   *)
(* try_restore_from_bad_quarantine).                                       *)
(***************************************************************************)
THEOREM CheckpointSurvives == DbSpec => []CheckpointedKept
<1>1. DbInv => CheckpointedKept
  BY DEF DbInv, Held, CheckpointedKept
<1> QED BY <1>1, DbInductive, PTL

-----------------------------------------------------------------------------
(* The order of the candidates.  Those that are no longer left were tried:  *)
(* too small, unsound, or something failed on them.                        *)
Spent(c) == c \in failed \/ ~kept[c].sound \/ kept[c].size <= EmptyMax

Search ==
    /\ pc = "try" => \A c \in Quarantined \ left : Spent(c)
    /\ pc \in Recovering \ {"try"} =>
          \A c \in Quarantined \ left : c = cand \/ Spent(c)
    /\ LargestRestored

LEMMA SearchNext == DbInv /\ Search /\ [DbNext]_dbVars => Search'
<1> SUFFICES ASSUME DbInv, Search, [DbNext]_dbVars PROVE Search'
  OBVIOUS
<1>n. /\ \A c \in Quarantined : kept[c].size \in Nat
      /\ EmptyMax \in Nat
      /\ left \subseteq Quarantined
  BY Numbers DEF DbInv, DbTypeOK
<1> USE DEF Search, Recovering, LargestRestored, LooksEmpty, Spent
<1>1. ASSUME Start PROVE Search'
  BY <1>1 DEF Start
<1>2. ASSUME NEW c \in Quarantined, Skip(c) \/ CheckFails(c) PROVE Search'
  BY <1>2 DEF Skip, CheckFails
<1>3. ASSUME NEW c \in Quarantined, Choose(c) PROVE Search'
  <2>1. /\ pc = "try" /\ pc' = "strays" /\ cand' = c /\ c \in left
        /\ left' = left \ {c} /\ UNCHANGED <<kept, failed>>
        /\ kept[c].size > EmptyMax
        /\ \A d \in left : kept[d].size <= kept[c].size
    BY <1>3 DEF Choose, Best
  <2>2. \A d \in Quarantined \ left : Spent(d)
    BY <2>1
  <2>3. LargestRestored'
    <3> SUFFICES ASSUME NEW d \in Quarantined, d \notin failed, kept[d].sound
                 PROVE  kept[d].size <= kept[c].size
      BY <2>1 DEF LooksEmpty
    <3>1. CASE d \in left
      BY <3>1, <2>1
    <3>2. CASE d \notin left
      BY <3>2, <2>1, <2>2, <1>n
    <3> QED BY <3>1, <3>2
  <2> QED BY <2>1, <2>2, <2>3
<1>4. ASSUME CopyFails PROVE Search'
  BY <1>4 DEF CopyFails
<1>5. ASSUME RemoveStrays \/ RemoveMain \/ CopyBegins PROVE Search'
  BY <1>5 DEF RemoveStrays, RemoveMain, CopyBegins
<1>6. ASSUME NoneLeft \/ Open \/ Stop \/ Checkpoint PROVE Search'
  BY <1>6 DEF NoneLeft, Open, Stop, Checkpoint
<1>9. ASSUME CopyEnds PROVE Search'
  <2>1. main'.size > EmptyMax /\ main'.size \in Nat /\ pc' = "opening"
    BY <1>9, <1>n DEF CopyEnds, DbInv, Copying
  <2> QED BY <2>1, <1>n
<1>7. ASSUME NEW r \in Rows, Commit(r) PROVE Search'
  BY <1>7 DEF Commit
<1>8. ASSUME UNCHANGED dbVars PROVE Search'
  BY <1>8 DEF dbVars
<1> HIDE DEF Search
<1> QED BY <1>1, <1>2, <1>3, <1>4, <1>5, <1>6, <1>7, <1>8, <1>9 DEF DbNext, Opening

(***************************************************************************)
(* What is restored is the largest sound candidate of all on which nothing *)
(* failed, and if nothing is restored there is none, whatever was tried    *)
(* before and however often the application was stopped (db.rs             *)
(* try_restore_from_bad_quarantine).                                       *)
(***************************************************************************)
THEOREM LargestIsRestored == DbSpec => []LargestRestored
<1>1. DbInit => Search
  BY DEF DbInit, Search, Recovering, LargestRestored
<1>2. Search => LargestRestored
  BY DEF Search
<1> QED BY <1>1, <1>2, DbInductive, SearchNext, PTL DEF DbSpec

-----------------------------------------------------------------------------
(***************************************************************************)
(* Sessions, the remembered record, the password, the trial and a reset,   *)
(* for any number of commands in progress, of calls, tokens and names.     *)
(*                                                                         *)
(* None of the properties is inductive.  A session is of the account in    *)
(* the table because what a command carries from one statement to the next *)
(* is (Ready, SessionsOfAccount); a password is changed on behalf of the   *)
(* account that was verified because that account cannot go while the      *)
(* command is under way, but for a reset beside it (Verified); and a reset *)
(* that ran alone leaves nothing because, from its first statement on,     *)
(* there is nobody else to put something back (Alone, Wiped).              *)
(***************************************************************************)

\* A command has what its next statement needs.
Ready(t) ==
    /\ t \in Task
    /\ t.pc \in {"check", "mint", "persist", "update"} => t.who \in Session
    /\ t.pc \in {"change", "update"} => t.new \in Passwords
    /\ t.pc = "activate" => t.value \in Keys
    /\ t.pc = "began" => t.value \in Times

TypeInv == TypeOK /\ \A p \in Tasks : Ready(task[p])

Verified ==
    "straddled" \notin marks =>
        \A p \in Tasks : At(p, "update") => Owns(task[p].who)

Alone == \A p \in Tasks : task[p].pc # "idle" /\ task[p].alone => Busy = {p}

Nothing == account = None /\ record = None /\ install = None /\ licence = None /\ root = None

Wiped ==
    /\ "lapsed" \notin marks =>
          \A p \in Tasks : At(p, "sweep") /\ task[p].alone => Nothing
    /\ clean => Busy = {}

IInv == TypeInv /\ SessionsOfAccount /\ SignOutForgets /\ Verified /\ Alone /\ Wiped
            /\ ResetLeavesNothing

-----------------------------------------------------------------------------
(* How a step changes the commands *)

LEMMA IdleIsReady == Ready(Idle)
BY DEF Ready, Idle, Task, Pc

\* What a command is ready for does not depend on whether it is alone.
LEMMA AloneOrNot ==
    ASSUME NEW t, Ready(t), NEW b \in BOOLEAN
    PROVE  Ready([t EXCEPT !.alone = b]) /\ [t EXCEPT !.alone = b] \in Task
<1>1. t \in Task
  BY DEF Ready
<1>2. [t EXCEPT !.alone = b] \in Task
  BY <1>1 DEF Task
<1>3. /\ [t EXCEPT !.alone = b].pc = t.pc /\ [t EXCEPT !.alone = b].who = t.who
      /\ [t EXCEPT !.alone = b].new = t.new /\ [t EXCEPT !.alone = b].value = t.value
  BY <1>1 DEF Task
<1> QED
  BY <1>2, <1>3 DEF Ready

\* A command begins, and is the only one that is not as it was.
LEMMA Starts ==
    ASSUME TypeInv, NEW p \in Tasks, NEW t, Ready(t), Begin(p, t)
    PROVE  /\ task' \in [Tasks -> Task] /\ \A q \in Tasks : Ready(task'[q])
           /\ begun' \in Calls /\ clean' = FALSE
           /\ task[p].pc = "idle" /\ task'[p] = [t EXCEPT !.alone = (Busy = {})]
           /\ \A q \in Tasks \ {p} : task'[q] = [task[q] EXCEPT !.alone = FALSE]
<1>1. task \in [Tasks -> Task] /\ \A q \in Tasks : Ready(task[q])
  BY DEF TypeInv, TypeOK
<1>2. task[p].pc = "idle"
  BY DEF Begin, Busy
<1>3. task'[p] = [t EXCEPT !.alone = (Busy = {})]
  BY DEF Begin
<1>4. ASSUME NEW q \in Tasks \ {p} PROVE task'[q] = [task[q] EXCEPT !.alone = FALSE]
  BY DEF Begin
<1>5. (Busy = {}) \in BOOLEAN
  OBVIOUS
<1>6. Ready(task'[p]) /\ task'[p] \in Task
  <2>1. t \in Task
    BY DEF Ready
  <2> HIDE DEF Busy
  <2>2. [t EXCEPT !.alone = (Busy = {})] \in Task
    BY <2>1, <1>5 DEF Task
  <2> QED
    BY <1>3, <2>1, <2>2 DEF Ready, Task
<1>7. ASSUME NEW q \in Tasks \ {p} PROVE Ready(task'[q]) /\ task'[q] \in Task
  <2>1. Ready(task[q]) /\ task'[q] = [task[q] EXCEPT !.alone = FALSE]
    BY <1>1, <1>4, <1>7
  <2> QED
    BY <2>1, AloneOrNot
<1>8. task' \in [Tasks -> Task]
  BY <1>6, <1>7 DEF Begin
<1>9. begun' \in Calls /\ clean' = FALSE
  BY AccountAssumption DEF Begin, Calls, TypeInv, TypeOK
<1> QED
  BY <1>2, <1>3, <1>4, <1>6, <1>7, <1>8, <1>9

\* A command returns.
LEMMA Returns ==
    ASSUME TypeInv, NEW p \in Tasks, Return(p)
    PROVE  /\ task' \in [Tasks -> Task] /\ \A q \in Tasks : Ready(task'[q])
           /\ task'[p] = Idle /\ \A q \in Tasks \ {p} : task'[q] = task[q]
<1>1. task \in [Tasks -> Task] /\ \A q \in Tasks : Ready(task[q])
  BY DEF TypeInv, TypeOK
<1>2. task'[p] = Idle /\ \A q \in Tasks \ {p} : task'[q] = task[q]
  BY <1>1 DEF Return
<1>3. Idle \in Task
  BY IdleIsReady DEF Ready
<1> QED
  BY <1>1, <1>2, <1>3, IdleIsReady DEF Return

\* A command goes on.
LEMMA Goes ==
    ASSUME TypeInv, NEW p \in Tasks, NEW t, Ready(t), task' = [task EXCEPT ![p] = t]
    PROVE  /\ task' \in [Tasks -> Task] /\ \A q \in Tasks : Ready(task'[q])
           /\ task'[p] = t /\ \A q \in Tasks \ {p} : task'[q] = task[q]
<1>1. task \in [Tasks -> Task] /\ \A q \in Tasks : Ready(task[q])
  BY DEF TypeInv, TypeOK
<1>2. task'[p] = t /\ \A q \in Tasks \ {p} : task'[q] = task[q]
  BY <1>1
<1>3. t \in Task
  BY DEF Ready
<1> QED
  BY <1>1, <1>2, <1>3

LEMMA GoesTo ==
    ASSUME TypeInv, NEW p \in Tasks, NEW then \in Pc, Goto(p, then),
           Ready([task[p] EXCEPT !.pc = then])
    PROVE  /\ task' \in [Tasks -> Task] /\ \A q \in Tasks : Ready(task'[q])
           /\ task'[p] = [task[p] EXCEPT !.pc = then]
           /\ \A q \in Tasks \ {p} : task'[q] = task[q]
<1>1. task' = [task EXCEPT ![p] = [task[p] EXCEPT !.pc = then]]
  BY DEF Goto, TypeInv, TypeOK
<1> QED
  BY <1>1, Goes

LEMMA Shapes ==
    /\ 0 \in Calls /\ 0 \in Times
    /\ \A p \in Tasks : TypeInv => task[p] \in Task /\ Ready(task[p])
BY AccountAssumption DEF Calls, Times, Ready, TypeInv

-----------------------------------------------------------------------------
(* Every variable has its type *)

LEMMA InitType == Init => TypeInv
<1> SUFFICES ASSUME Init PROVE TypeInv
  OBVIOUS
<1>1. \A p \in Tasks : task[p] = Idle
  BY DEF Init
<1>2. task \in [Tasks -> Task] /\ \A p \in Tasks : Ready(task[p])
  BY <1>1, IdleIsReady DEF Init, Ready
<1>3. sessions \in [Tokens -> Session \cup {None}]
  BY DEF Init
<1> QED
  BY <1>2, <1>3, Shapes DEF Init, TypeInv, TypeOK, Mark

\* What the types of everything but the commands come to.
Stored ==
    /\ now \in Times /\ account \in Row \cup {None} /\ record \in Saved \cup {None, Foreign}
    /\ install \in Times \cup {Foreign, None} /\ licence \in Keys \cup {Foreign, None}
    /\ root \in Roots \cup {None} /\ filled \subseteq Roots
    /\ sessions \in [Tokens -> Session \cup {None}] /\ spent \subseteq Tokens
    /\ marks \subseteq Mark

Tasked ==
    /\ task' \in [Tasks -> Task] /\ \A q \in Tasks : Ready(task'[q])
    /\ begun' \in Calls /\ clean' \in BOOLEAN

LEMMA Parts == ASSUME Stored', Tasked PROVE TypeInv'
BY DEF Stored, Tasked, TypeInv, TypeOK

LEMMA CommandType == ASSUME TypeInv, NEW p \in Tasks, Command(p) PROVE TypeInv'
<1> USE DEF prefs, live
<1>0. Stored
  BY DEF TypeInv, TypeOK, Stored
<1>1. CASE CreateAdmin(p)
  <2>1. Tasked
    <3>1. \A q \in Tasks : task'[q] = [task[q] EXCEPT !.alone = FALSE] /\ Ready(task[q])
      BY <1>1 DEF CreateAdmin, TypeInv
    <3>2. \A q \in Tasks : Ready(task'[q]) /\ task'[q] \in Task
      BY <3>1, AloneOrNot
    <3>3. begun' \in Calls /\ clean' \in BOOLEAN
      <4>1. begun < MaxCalls /\ begun' = begun + 1 /\ clean' = FALSE
        BY <1>1 DEF CreateAdmin
      <4>2. begun' \in Calls
        BY <4>1, AccountAssumption DEF Calls, TypeInv, TypeOK
      <4>3. clean' \in BOOLEAN
        BY <4>1
      <4> QED
        BY <4>2, <4>3
    <3> QED
      BY <1>1, <3>2, <3>3 DEF CreateAdmin, Tasked
  <2>2. account' \in Row
    BY <1>1, AccountAssumption DEF CreateAdmin, Row, Calls, TypeInv, TypeOK
  <2> QED
    BY <1>0, <1>1, <2>1, <2>2, Parts DEF CreateAdmin, Stored
<1>2. CASE SignIn(p)
  <2>1. PICK b \in BOOLEAN : Begin(p, [Idle EXCEPT !.pc = "mint", !.remember = b,
                                !.who = [born |-> account.born, name |-> account.name]])
    BY <1>2 DEF SignIn
  <2>2. [born |-> account.born, name |-> account.name] \in Session
    BY <1>0, <1>2 DEF SignIn, Stored, Row, Session
  <2>3. Ready([Idle EXCEPT !.pc = "mint", !.remember = b,
                           !.who = [born |-> account.born, name |-> account.name]])
    BY <2>2 DEF Ready, Task, Idle, Pc
  <2>4. Tasked
    BY <2>1, <2>3, Starts DEF Tasked
  <2> QED
    BY <1>0, <1>2, <2>4, Parts DEF SignIn, Stored
<1>3. CASE Restore(p)
  <2> DEFINE t == IF record = Foreign THEN [Idle EXCEPT !.pc = "clear"]
                  ELSE IF record.expires <= now THEN [Idle EXCEPT !.pc = "clear"]
                  ELSE [Idle EXCEPT !.pc = "check", !.remember = TRUE,
                                    !.who = [born |-> record.born, name |-> record.name]]
  <2>1. Ready(t)
    <3>1. CASE t = [Idle EXCEPT !.pc = "clear"]
      BY <3>1 DEF Ready, Task, Idle, Pc
    <3>2. CASE record # Foreign
      <4>1. [born |-> record.born, name |-> record.name] \in Session
        BY <3>2, <1>0, <1>3 DEF Restore, Stored, Saved, Session
      <4>2. Ready([Idle EXCEPT !.pc = "check", !.remember = TRUE,
                               !.who = [born |-> record.born, name |-> record.name]])
        BY <4>1 DEF Ready, Task, Idle, Pc
      <4> QED
        BY <3>1, <3>2, <4>2
    <3> QED
      BY <3>1, <3>2
  <2>2. Begin(p, t)
    BY <1>3 DEF Restore
  <2> HIDE DEF t
  <2>3. Tasked
    BY <2>1, <2>2, Starts DEF Tasked
  <2> QED
    BY <1>0, <1>3, <2>3, Parts DEF Restore, Stored
<1>4. CASE SignOut(p)
  <2>1. PICK x \in spent : /\ Begin(p, [Idle EXCEPT !.pc = "forget"])
                           /\ sessions' = [sessions EXCEPT ![x] = None]
    BY <1>4 DEF SignOut
  <2>2. Ready([Idle EXCEPT !.pc = "forget"])
    BY DEF Ready, Task, Idle, Pc
  <2>3. Tasked
    BY <2>1, <2>2, Starts DEF Tasked
  <2>4. record' \in Saved \cup {None, Foreign}
    BY <1>0, <1>4 DEF SignOut, Stored, Saved
  <2>5. sessions' \in [Tokens -> Session \cup {None}]
    BY <1>0, <2>1 DEF Stored
  <2> QED
    BY <1>0, <1>4, <2>3, <2>4, <2>5, Parts DEF SignOut, Stored
<1>5. CASE ChangePassword(p)
  <2>1. PICK x \in Tokens, o \in Passwords, n \in Passwords :
            Begin(p, [Idle EXCEPT !.pc = "change", !.old = o, !.new = n])
    BY <1>5 DEF ChangePassword
  <2>2. Ready([Idle EXCEPT !.pc = "change", !.old = o, !.new = n])
    BY DEF Ready, Task, Idle, Pc
  <2>3. Tasked
    BY <2>1, <2>2, Starts DEF Tasked
  <2> QED
    BY <1>0, <1>5, <2>3, Parts DEF ChangePassword, Stored
<1>6. CASE SetPref(p)
  <2>1. Begin(p, [Idle EXCEPT !.pc = "prefer"])
    BY <1>6 DEF SetPref
  <2>2. Ready([Idle EXCEPT !.pc = "prefer"])
    BY DEF Ready, Task, Idle, Pc
  <2>3. Tasked
    BY <2>1, <2>2, Starts DEF Tasked
  <2> QED
    BY <1>0, <1>6, <2>3, Parts DEF SetPref, Stored
<1>7. CASE Activate(p)
  <2>1. PICK x \in Tokens, k \in Keys :
            Begin(p, [Idle EXCEPT !.pc = "activate", !.value = k])
    BY <1>7 DEF Activate
  <2>2. Ready([Idle EXCEPT !.pc = "activate", !.value = k])
    BY DEF Ready, Task, Idle, Pc
  <2>3. Tasked
    BY <2>1, <2>2, Starts DEF Tasked
  <2> QED
    BY <1>0, <1>7, <2>3, Parts DEF Activate, Stored
<1>8. CASE Deactivate(p) \/ Status(p) \/ Reset(p)
  <2>1. PICK then \in {"deactivate", "status", "wipe"} : Begin(p, [Idle EXCEPT !.pc = then])
    BY <1>8 DEF Deactivate, Status, Reset
  <2>2. Ready([Idle EXCEPT !.pc = then])
    BY DEF Ready, Task, Idle, Pc
  <2>3. Tasked
    BY <2>1, <2>2, Starts DEF Tasked
  <2>4. Stored'
    BY <1>0, <1>8 DEF Deactivate, Status, Reset, Stored
  <2> QED
    BY <2>3, <2>4, Parts
<1> QED
  BY <1>1, <1>2, <1>3, <1>4, <1>5, <1>6, <1>7, <1>8 DEF Command

\* A step of a command that leaves its counters alone.
LEMMA Steps ==
    ASSUME TypeInv, task' \in [Tasks -> Task], \A q \in Tasks : Ready(task'[q]), Quiet
    PROVE  Tasked
BY DEF Tasked, Quiet, TypeInv, TypeOK

LEMMA TaskStepType == ASSUME TypeInv, NEW p \in Tasks, TaskStep(p) PROVE TypeInv'
<1> USE DEF prefs, live
<1>0. Stored /\ Ready(task[p]) /\ task[p] \in Task
  BY Shapes DEF TypeInv, TypeOK, Stored
<1>1. CASE Check(p)
  <2>1. PICK then \in {"clear", "mint"} : Goto(p, then)
    BY <1>1 DEF Check
  <2>2. Ready([task[p] EXCEPT !.pc = then])
    BY <1>0, <1>1 DEF Check, At, Ready, Task, Pc
  <2>3. then \in Pc
    BY DEF Pc
  <2>4. Tasked
    BY <1>1, <2>1, <2>2, <2>3, GoesTo, Steps DEF Check
  <2>5. Stored'
    BY <1>0, <1>1 DEF Check, Stored
  <2> QED
    BY <2>4, <2>5, Parts
<1>2. CASE Mint(p)
  <2>1. PICK x \in Tokens \ spent : /\ sessions' = [sessions EXCEPT ![x] = task[p].who]
                                   /\ spent' = spent \cup {x}
    BY <1>2 DEF Mint
  <2>2. Stored'
    <3>1. task[p].who \in Session
      BY <1>0, <1>2 DEF Mint, At, Ready
    <3> QED
      BY <1>0, <1>2, <2>1, <3>1 DEF Mint, Stored
  <2>3. Tasked
    <3>1. CASE Goto(p, "persist")
      <4>1. Ready([task[p] EXCEPT !.pc = "persist"])
        BY <1>0, <1>2 DEF Mint, At, Ready, Task, Pc
      <4>2. "persist" \in Pc
        BY DEF Pc
      <4> QED
        BY <1>2, <3>1, <4>1, <4>2, GoesTo, Steps DEF Mint
    <3>2. CASE Return(p)
      BY <1>2, <3>2, Returns, Steps DEF Mint
    <3> QED
      BY <1>2, <3>1, <3>2 DEF Mint
  <2> QED
    BY <2>2, <2>3, Parts
<1>3. CASE Persist(p)
  <2>1. Tasked
    BY <1>3, Returns, Steps DEF Persist
  <2>2. record' \in Saved \cup {None, Foreign}
    <3>1. task[p].who \in Session
      BY <1>0, <1>3 DEF Persist, At, Ready
    <3>2. now + Lifetime \in Nat
      BY <1>0, AccountAssumption DEF Stored, Times
    <3>3. [born |-> task[p].who.born, name |-> task[p].who.name,
           expires |-> now + Lifetime, doomed |-> FALSE] \in Saved
      BY <3>1, <3>2 DEF Session, Saved
    <3> QED
      BY <1>0, <1>3, <3>3 DEF Persist, Holds, Stored
  <2>3. marks' \subseteq Mark
    BY <1>0, <1>3 DEF Persist, Holds, Stored, Mark
  <2> QED
    BY <1>0, <1>3, <2>1, <2>2, <2>3, Parts DEF Persist, Stored
<1>4. CASE Clear(p)
  <2>1. Tasked
    BY <1>4, Returns, Steps DEF Clear
  <2>2. record' \in Saved \cup {None, Foreign} /\ marks' \subseteq Mark
    BY <1>0, <1>4 DEF Clear, Holds, Stored, Mark
  <2> QED
    BY <1>0, <1>4, <2>1, <2>2, Parts DEF Clear, Stored
<1>5. CASE ChangeVerifies(p)
  <2>1. Tasked
    <3>1. CASE Return(p)
      BY <1>5, <3>1, Returns, Steps DEF ChangeVerifies
    <3>2. CASE account # None /\ account.pw = task[p].old
      <4> DEFINE s == [born |-> account.born, name |-> account.name]
      <4>1. s \in Session
        BY <1>0, <3>2 DEF Stored, Row, Session
      <4> HIDE DEF s
      <4>2. Ready([task[p] EXCEPT !.pc = "update", !.who = s])
        <5>1. task[p].new \in Passwords
          BY <1>0, <1>5 DEF ChangeVerifies, At, Ready
        <5> QED
          BY <1>0, <4>1, <5>1 DEF Ready, Task, Pc
      <4>3. task' = [task EXCEPT ![p] = [task[p] EXCEPT !.pc = "update", !.who = s]]
        BY <1>5, <3>2 DEF ChangeVerifies, s, TypeInv, TypeOK
      <4> QED
        BY <1>5, <4>2, <4>3, Goes, Steps DEF ChangeVerifies
    <3> QED
      BY <1>5, <3>1, <3>2 DEF ChangeVerifies
  <2> QED
    BY <1>0, <1>5, <2>1, Parts DEF ChangeVerifies, Stored
<1>6. CASE Update(p)
  <2>1. Tasked
    BY <1>6, Returns, Steps DEF Update
  <2>2. account' \in Row \cup {None}
    <3>1. task[p].new \in Passwords
      BY <1>0, <1>6 DEF Update, At, Ready
    <3> QED
      BY <1>0, <1>6, <3>1 DEF Update, Stored, Row
  <2> QED
    BY <1>0, <1>6, <2>1, <2>2, Parts DEF Update, Stored
<1>7. CASE Prefer(p)
  <2>1. Tasked
    BY <1>7, Returns, Steps DEF Prefer
  <2>2. /\ root' \in Roots \cup {None} /\ record' \in Saved \cup {None, Foreign}
        /\ install' \in Times \cup {Foreign, None} /\ licence' \in Keys \cup {Foreign, None}
    BY <1>0, <1>7 DEF Prefer, Stored
  <2> QED
    BY <1>0, <1>7, <2>1, <2>2, Parts DEF Prefer, Stored
<1>8. CASE StoreKey(p)
  <2>1. Ready([task[p] EXCEPT !.pc = "status"]) /\ "status" \in Pc
    BY <1>0 DEF Ready, Task, Pc
  <2>2. Tasked
    BY <1>8, <2>1, GoesTo, Steps DEF StoreKey
  <2>3. licence' \in Keys \cup {Foreign, None}
    BY <1>0, <1>8 DEF StoreKey, At, Ready
  <2> QED
    BY <1>0, <1>8, <2>2, <2>3, Parts DEF StoreKey, Stored
<1>9. CASE ReadInstall(p)
  <2>1. Tasked
    <3>1. CASE Return(p)
      BY <1>9, <3>1, Returns, Steps DEF ReadInstall
    <3>2. CASE task' = [task EXCEPT ![p] = [task[p] EXCEPT !.pc = "began", !.value = now]]
      <4>1. Ready([task[p] EXCEPT !.pc = "began", !.value = now])
        BY <1>0 DEF Ready, Task, Pc, Stored
      <4> QED
        BY <1>9, <3>2, <4>1, Goes, Steps DEF ReadInstall
    <3>3. task' = [task EXCEPT ![p].pc = "began", ![p].value = now]
              => task' = [task EXCEPT ![p] = [task[p] EXCEPT !.pc = "began", !.value = now]]
      BY DEF TypeInv, TypeOK
    <3> QED
      BY <1>9, <3>1, <3>2, <3>3 DEF ReadInstall
  <2> QED
    BY <1>0, <1>9, <2>1, Parts DEF ReadInstall, Stored
<1>10. CASE BeginTrial(p)
  <2>1. Tasked
    BY <1>10, Returns, Steps DEF BeginTrial
  <2>2. install' \in Times \cup {Foreign, None}
    BY <1>0, <1>10 DEF BeginTrial, At, Ready, Stored
  <2> QED
    BY <1>0, <1>10, <2>1, <2>2, Parts DEF BeginTrial, Stored
<1>11. CASE Wipe(p)
  <2>1. Ready([task[p] EXCEPT !.pc = "sweep"]) /\ "sweep" \in Pc
    BY <1>0 DEF Ready, Task, Pc
  <2>2. Tasked
    BY <1>11, <2>1, GoesTo, Steps DEF Wipe
  <2>3. Stored'
    BY <1>0, <1>11 DEF Wipe, Beside, Stored, Mark
  <2> QED
    BY <2>2, <2>3, Parts
<1>12. CASE Sweep(p)
  <2>1. Tasked
    <3>1. begun' \in Calls /\ clean' = task[p].alone
      BY <1>12 DEF Sweep, TypeInv, TypeOK
    <3>2. clean' \in BOOLEAN
      BY <1>0, <3>1 DEF Task
    <3> QED
      BY <1>12, <3>1, <3>2, Returns DEF Sweep, Tasked
  <2>2. filled' \subseteq Roots /\ marks' \subseteq Mark
    BY <1>0, <1>12 DEF Sweep, Holds, Stored, Mark
  <2> QED
    BY <1>0, <1>12, <2>1, <2>2, Parts DEF Sweep, Stored
<1> QED
  BY <1>1, <1>2, <1>3, <1>4, <1>5, <1>6, <1>7, <1>8, <1>9, <1>10, <1>11, <1>12 DEF TaskStep

\* The drives, the clock, the machine and the process.
World == Fills \/ Tick \/ Copied \/ Restart

LEMMA WorldType == ASSUME TypeInv, World \/ UNCHANGED vars PROVE TypeInv'
<1> USE DEF prefs, live
<1>0. Stored
  BY DEF TypeInv, TypeOK, Stored
<1>1. CASE UNCHANGED <<task, begun, clean>> /\ Stored'
  BY <1>1, Parts DEF Tasked, TypeInv, TypeOK
<1>2. CASE Fills
  <2>1. CacheRoot \in Roots
    BY <1>0, AccountAssumption DEF CacheRoot, Stored
  <2> QED
    BY <1>0, <1>1, <1>2, <2>1 DEF Fills, Stored
<1>3. CASE Tick
  <2>1. now' \in Times
    BY <1>0, <1>3, AccountAssumption DEF Tick, Stored, Times
  <2> QED
    BY <1>0, <1>1, <1>3, <2>1 DEF Tick, Stored
<1>4. CASE Copied
  BY <1>0, <1>1, <1>4 DEF Copied, Stored
<1>5. CASE Restart
  <2>1. Tasked
    <3>1. \A q \in Tasks : task'[q] = Idle
      BY <1>5 DEF Restart
    <3>2. task' \in [Tasks -> Task] /\ \A q \in Tasks : Ready(task'[q])
      BY <1>5, <3>1, IdleIsReady DEF Restart, Ready
    <3>3. clean' \in BOOLEAN
      BY <1>5 DEF Restart
    <3>4. begun' \in Calls
      BY <1>5 DEF Restart, TypeInv, TypeOK
    <3> QED
      BY <3>2, <3>3, <3>4 DEF Tasked
  <2>2. record' \in Saved \cup {None, Foreign}
    BY <1>0, <1>5 DEF Restart, Stored, Saved
  <2>3. sessions' \in [Tokens -> Session \cup {None}]
    BY <1>5 DEF Restart
  <2> QED
    BY <1>0, <1>5, <2>1, <2>2, <2>3, Parts DEF Restart, Stored
<1>6. CASE UNCHANGED vars
  BY <1>0, <1>1, <1>6 DEF vars, Stored
<1> QED
  BY <1>2, <1>3, <1>4, <1>5, <1>6 DEF World, vars

LEMMA NextType == TypeInv /\ [Next]_vars => TypeInv'
BY CommandType, TaskStepType, WorldType DEF Next, World

-----------------------------------------------------------------------------
(* What a step does that the properties look at *)

\* A command that begins changes no mark, and disturbs what others do only in that they
\* are not alone.
LEMMA Begins ==
    ASSUME TypeInv, NEW p \in Tasks, Command(p)
    PROVE  /\ clean' = FALSE /\ marks' = marks
           /\ task[p].pc = "idle"
           /\ \A q \in Tasks \ {p} : /\ task'[q].pc = task[q].pc
                                      /\ task'[q].who = task[q].who /\ ~task'[q].alone
           /\ task'[p].alone => Busy = {}
           /\ task'[p].pc \notin {"update", "sweep", "persist"}
<1>1. ASSUME NEW t, Ready(t), Begin(p, t), t.pc \notin {"update", "sweep", "persist"},
             marks' = marks
      PROVE  /\ clean' = FALSE /\ marks' = marks /\ task[p].pc = "idle"
             /\ \A q \in Tasks \ {p} : /\ task'[q].pc = task[q].pc
                                        /\ task'[q].who = task[q].who /\ ~task'[q].alone
             /\ task'[p].alone => Busy = {}
             /\ task'[p].pc \notin {"update", "sweep", "persist"}
  <2>1. /\ clean' = FALSE /\ task[p].pc = "idle"
        /\ task'[p] = [t EXCEPT !.alone = (Busy = {})]
        /\ \A q \in Tasks \ {p} : task'[q] = [task[q] EXCEPT !.alone = FALSE]
    BY <1>1, Starts
  <2>2. t \in Task /\ \A q \in Tasks : task[q] \in Task
    BY <1>1, Shapes DEF Ready
  <2>3. task'[p].alone = (Busy = {}) /\ task'[p].pc = t.pc
    BY <2>1, <2>2 DEF Task
  <2>4. ASSUME NEW q \in Tasks \ {p}
        PROVE  task'[q].pc = task[q].pc /\ task'[q].who = task[q].who /\ ~task'[q].alone
    BY <2>1, <2>2 DEF Task
  <2> QED
    BY <1>1, <2>1, <2>3, <2>4
<1>2. CASE CreateAdmin(p)
  <2>1. /\ clean' = FALSE /\ marks' = marks /\ task[p].pc = "idle"
        /\ \A q \in Tasks : task'[q] = [task[q] EXCEPT !.alone = FALSE] /\ task[q] \in Task
    BY <1>2, Shapes DEF CreateAdmin, Busy
  <2>2. ASSUME NEW q \in Tasks
        PROVE  task'[q].pc = task[q].pc /\ task'[q].who = task[q].who /\ ~task'[q].alone
    BY <2>1 DEF Task
  <2> QED
    BY <2>1, <2>2
<1>3. CASE SignIn(p)
  <2>1. PICK b \in BOOLEAN : Begin(p, [Idle EXCEPT !.pc = "mint", !.remember = b,
                                !.who = [born |-> account.born, name |-> account.name]])
    BY <1>3 DEF SignIn
  <2>2. [born |-> account.born, name |-> account.name] \in Session
    BY <1>3 DEF SignIn, TypeInv, TypeOK, Row, Session
  <2>3. Ready([Idle EXCEPT !.pc = "mint", !.remember = b,
                           !.who = [born |-> account.born, name |-> account.name]])
    BY <2>2 DEF Ready, Task, Idle, Pc
  <2> QED
    BY <1>1, <1>3, <2>1, <2>3 DEF SignIn, Idle
<1>4. CASE Restore(p)
  <2> DEFINE s == [born |-> record.born, name |-> record.name]
             t == [Idle EXCEPT !.pc = "check", !.remember = TRUE, !.who = s]
             c == [Idle EXCEPT !.pc = "clear"]
  <2>1. Ready(c) /\ c.pc = "clear"
    BY DEF Ready, Task, Idle, Pc
  <2>2. record \notin {None, Foreign} => Ready(t) /\ t.pc = "check"
    <3>1. record \notin {None, Foreign} => s \in Session
      BY DEF TypeInv, TypeOK, Saved, Session
    <3> HIDE DEF s
    <3> QED
      BY <3>1 DEF Ready, Task, Idle, Pc
  <2>3. record # None /\ (Begin(p, c) \/ (record # Foreign /\ Begin(p, t))) /\ marks' = marks
    BY <1>4 DEF Restore
  <2> HIDE DEF c, t
  <2> QED
    BY <1>1, <2>1, <2>2, <2>3
<1>5. CASE ChangePassword(p)
  <2>1. PICK x \in Tokens, o \in Passwords, n \in Passwords :
            Begin(p, [Idle EXCEPT !.pc = "change", !.old = o, !.new = n])
    BY <1>5 DEF ChangePassword
  <2>2. Ready([Idle EXCEPT !.pc = "change", !.old = o, !.new = n])
    BY DEF Ready, Task, Idle, Pc
  <2> QED
    BY <1>1, <1>5, <2>1, <2>2 DEF ChangePassword, Idle
<1>6. CASE SetPref(p)
  <2>1. Begin(p, [Idle EXCEPT !.pc = "prefer"])
    BY <1>6 DEF SetPref
  <2>2. Ready([Idle EXCEPT !.pc = "prefer"])
    BY DEF Ready, Task, Idle, Pc
  <2> QED
    BY <1>1, <1>6, <2>1, <2>2 DEF SetPref, Idle
<1>7. CASE Activate(p)
  <2>1. PICK x \in Tokens, k \in Keys :
            Begin(p, [Idle EXCEPT !.pc = "activate", !.value = k])
    BY <1>7 DEF Activate
  <2>2. Ready([Idle EXCEPT !.pc = "activate", !.value = k])
    BY DEF Ready, Task, Idle, Pc
  <2> QED
    BY <1>1, <1>7, <2>1, <2>2 DEF Activate, Idle
<1>8. CASE Deactivate(p) \/ Status(p) \/ Reset(p) \/ SignOut(p)
  <2>1. PICK then \in {"deactivate", "status", "wipe", "forget"} :
            Begin(p, [Idle EXCEPT !.pc = then])
    BY <1>8 DEF Deactivate, Status, Reset, SignOut
  <2>2. Ready([Idle EXCEPT !.pc = then])
    BY DEF Ready, Task, Idle, Pc
  <2>3. marks' = marks
    BY <1>8 DEF Deactivate, Status, Reset, SignOut
  <2>4. [Idle EXCEPT !.pc = then].pc = then
    BY DEF Idle
  <2> QED
    BY <1>1, <2>1, <2>2, <2>3, <2>4
<1> QED
  BY <1>2, <1>3, <1>4, <1>5, <1>6, <1>7, <1>8 DEF Command

\* A step of a command disturbs no other; only the last step of a reset sets clean.
LEMMA Proceeds ==
    ASSUME TypeInv, NEW p \in Tasks, TaskStep(p)
    PROVE  /\ task[p].pc # "idle"
           /\ \A q \in Tasks \ {p} : task'[q] = task[q]
           /\ task'[p] = Idle \/ task'[p].alone = task[p].alone
           /\ \/ clean' = clean
              \/ At(p, "sweep") /\ task'[p] = Idle /\ clean' = task[p].alone
<1>1. task \in [Tasks -> Task] /\ task[p] \in Task
  BY Shapes DEF TypeInv, TypeOK
<1>2. ASSUME Return(p) PROVE task'[p] = Idle /\ \A q \in Tasks \ {p} : task'[q] = task[q]
  BY <1>2, <1>1 DEF Return
<1>3. ASSUME NEW then, Goto(p, then)
      PROVE  task'[p].alone = task[p].alone /\ \A q \in Tasks \ {p} : task'[q] = task[q]
  <2>1. task'[p] = [task[p] EXCEPT !.pc = then] /\ \A q \in Tasks \ {p} : task'[q] = task[q]
    BY <1>1, <1>3 DEF Goto
  <2> QED
    BY <1>1, <2>1 DEF Task
<1>4. CASE Sweep(p)
  BY <1>2, <1>4 DEF Sweep, At
<1>5. CASE Check(p) \/ Mint(p) \/ StoreKey(p) \/ Wipe(p)
  <2>1. task[p].pc # "idle" /\ clean' = clean
    BY <1>5 DEF Check, Mint, StoreKey, Wipe, At, Quiet
  <2>2. PICK then \in Pc : Goto(p, then) \/ Return(p)
    BY <1>5 DEF Check, Mint, StoreKey, Wipe, Pc
  <2> QED
    BY <1>2, <1>3, <2>1, <2>2
<1>6. CASE Persist(p) \/ Clear(p) \/ Update(p) \/ Prefer(p) \/ BeginTrial(p)
  BY <1>2, <1>6 DEF Persist, Clear, Update, Prefer, BeginTrial, At, Quiet
<1>7. CASE ChangeVerifies(p)
  <2>1. task[p].pc # "idle" /\ clean' = clean
    BY <1>7 DEF ChangeVerifies, At, Quiet
  <2>2. CASE ~Return(p)
    <3> DEFINE s == [born |-> account.born, name |-> account.name]
    <3>1. task' = [task EXCEPT ![p] = [task[p] EXCEPT !.pc = "update", !.who = s]]
      BY <1>1, <1>7, <2>2 DEF ChangeVerifies
    <3> HIDE DEF s
    <3>2. /\ task'[p] = [task[p] EXCEPT !.pc = "update", !.who = s]
          /\ \A q \in Tasks \ {p} : task'[q] = task[q]
      BY <1>1, <3>1
    <3>3. task'[p].alone = task[p].alone
      BY <1>1, <3>2 DEF Task
    <3> QED
      BY <2>1, <3>2, <3>3
  <2> QED
    BY <1>2, <2>1, <2>2
<1>8. CASE ReadInstall(p)
  <2>1. task[p].pc # "idle" /\ clean' = clean
    BY <1>8 DEF ReadInstall, At, Quiet
  <2>2. CASE ~Return(p)
    <3>1. task' = [task EXCEPT ![p] = [task[p] EXCEPT !.pc = "began", !.value = now]]
      BY <1>1, <1>8, <2>2 DEF ReadInstall
    <3>2. /\ task'[p] = [task[p] EXCEPT !.pc = "began", !.value = now]
          /\ \A q \in Tasks \ {p} : task'[q] = task[q]
      BY <1>1, <3>1
    <3>3. task'[p].alone = task[p].alone
      BY <1>1, <3>2 DEF Task
    <3> QED
      BY <2>1, <3>2, <3>3
  <2> QED
    BY <1>2, <2>1, <2>2
<1> QED
  BY <1>4, <1>5, <1>6, <1>7, <1>8 DEF TaskStep

-----------------------------------------------------------------------------
(* Alone, and what a reset leaves *)

LEMMA AloneStep == TypeInv /\ Alone /\ [Next]_vars => Alone'
<1> SUFFICES ASSUME TypeInv, Alone, [Next]_vars,
                    NEW q \in Tasks, task'[q].pc # "idle", task'[q].alone
             PROVE  \A r \in Tasks : r # q => task'[r].pc = "idle"
  BY DEF Alone, Busy
<1>0. Idle.pc = "idle" /\ Idle.alone = FALSE
  BY DEF Idle
<1>1. CASE \E p \in Tasks : Command(p)
  <2>1. PICK p \in Tasks : Command(p)
    BY <1>1
  <2>2. q = p /\ Busy = {}
    BY <2>1, Begins
  <2> QED
    BY <2>1, <2>2, Begins DEF Busy
<1>2. CASE \E p \in Tasks : TaskStep(p)
  <2>1. PICK p \in Tasks : TaskStep(p)
    BY <1>2
  <2>2. /\ task[p].pc # "idle" /\ \A r \in Tasks \ {p} : task'[r] = task[r]
        /\ task'[p] = Idle \/ task'[p].alone = task[p].alone
    BY <2>1, Proceeds
  <2>3. task[q].pc # "idle" /\ task[q].alone
    BY <2>2, <1>0
  <2>4. Busy = {q}
    BY <2>3 DEF Alone
  <2>5. p = q
    BY <2>2, <2>4 DEF Busy
  <2> QED
    BY <2>2, <2>4, <2>5 DEF Busy
<1>3. CASE Restart
  BY <1>0, <1>3 DEF Restart
<1>4. CASE task' = task
  BY <1>4 DEF Alone, Busy
<1> QED
  BY <1>1, <1>2, <1>3, <1>4 DEF Next, Fills, Tick, Copied, vars

LEMMA WipedStep ==
    TypeInv /\ Alone /\ Wiped /\ ResetLeavesNothing /\ [Next]_vars
        => Wiped' /\ ResetLeavesNothing'
<1> SUFFICES ASSUME TypeInv, Alone, Wiped, ResetLeavesNothing, [Next]_vars
             PROVE  Wiped' /\ ResetLeavesNothing'
  OBVIOUS
<1> USE DEF prefs, live
<1>0. Idle.pc = "idle" /\ Idle.alone = FALSE
  BY DEF Idle
<1>1. CASE \E p \in Tasks : Command(p)
  <2>1. PICK p \in Tasks : Command(p)
    BY <1>1
  <2>2. clean' = FALSE
    BY <2>1, Begins
  <2>3. ASSUME NEW q \in Tasks, At(q, "sweep")' PROVE ~task'[q].alone
    BY <2>1, <2>3, Begins DEF At
  <2> QED
    BY <2>2, <2>3 DEF Wiped, ResetLeavesNothing
<1>2. CASE \E p \in Tasks : TaskStep(p)
  <2>1. PICK p \in Tasks : TaskStep(p)
    BY <1>2
  <2>2. /\ task[p].pc # "idle" /\ \A r \in Tasks \ {p} : task'[r] = task[r]
        /\ task'[p] = Idle \/ task'[p].alone = task[p].alone
        /\ \/ clean' = clean
           \/ At(p, "sweep") /\ task'[p] = Idle /\ clean' = task[p].alone
    BY <2>1, Proceeds
  <2>3. ~clean
    BY <2>2 DEF Wiped, Busy
  <2>4. "lapsed" \in marks => "lapsed" \in marks'
    BY <2>1 DEF TaskStep, Check, Mint, Persist, Clear, ChangeVerifies, Update, Prefer, StoreKey,
                ReadInstall, BeginTrial, Wipe, Sweep, Holds
  <2>5. CASE clean'
    <3>1. At(p, "sweep") /\ task'[p] = Idle /\ task[p].alone
      BY <2>2, <2>3, <2>5
    <3>2. Busy = {p}
      BY <2>2, <3>1 DEF Alone
    <3>3. Busy' = {}
      BY <1>0, <2>2, <3>1, <3>2 DEF Busy
    <3>4. ASSUME NEW q \in Tasks PROVE task'[q].pc = "idle"
      BY <3>3 DEF Busy
    <3>5. Wiped'
      BY <3>3, <3>4 DEF Wiped, At
    <3>6. Sweep(p)
      BY <2>1, <3>1 DEF TaskStep, At, Check, Mint, Persist, Clear, ChangeVerifies, Update,
                        Prefer, StoreKey, ReadInstall, BeginTrial, Wipe
    <3>7. "lapsed" \notin marks' => Nothing /\ Nothing' /\ Default \notin filled'
      BY <3>1, <3>6 DEF Sweep, Holds, Wiped, Nothing, CacheRoot
    <3> QED
      BY <3>5, <3>7 DEF ResetLeavesNothing, Nothing
  <2>6. CASE ~clean'
    <3>1. ResetLeavesNothing' /\ (clean' => Busy' = {})
      BY <2>6 DEF ResetLeavesNothing
    <3>2. ASSUME "lapsed" \notin marks', NEW q \in Tasks, At(q, "sweep")', task'[q].alone
          PROVE  Nothing'
      <4>1. q = p
        <5>1. CASE q # p
          <6>1. task[q].pc # "idle" /\ task[q].alone
            BY <2>2, <3>2, <5>1 DEF At
          <6>2. Busy = {q}
            BY <6>1 DEF Alone
          <6> QED
            BY <2>2, <5>1, <6>2 DEF Busy
        <5> QED
          BY <5>1
      <4>2. CASE Wipe(p)
        BY <3>2, <4>2 DEF Wipe, Nothing
      <4>3. CASE ~Wipe(p)
        <5>1. task'[p].pc = "sweep" /\ task[p] \in Task /\ task \in [Tasks -> Task]
          BY <3>2, <4>1, Shapes DEF At, TypeInv, TypeOK
        <5>2. \A then : Goto(p, then) => task'[p].pc = then
          BY <5>1 DEF Goto, Task
        <5>3. ~Return(p)
          BY <5>1, <1>0 DEF Return
        <5>4. ~Check(p) /\ ~Mint(p) /\ ~StoreKey(p)
          BY <5>1, <5>2, <5>3 DEF Check, Mint, StoreKey
        <5>5. ~Persist(p) /\ ~Clear(p) /\ ~Update(p) /\ ~Prefer(p) /\ ~BeginTrial(p) /\ ~Sweep(p)
          BY <5>3 DEF Persist, Clear, Update, Prefer, BeginTrial, Sweep
        <5>6. ~ReadInstall(p)
          BY <5>1, <5>3 DEF ReadInstall, Task
        <5>7. ~ChangeVerifies(p)
          BY <5>1, <5>3 DEF ChangeVerifies, Task
        <5> QED
          BY <2>1, <4>3, <5>4, <5>5, <5>6, <5>7 DEF TaskStep
      <4> QED
        BY <4>2, <4>3
    <3> QED
      BY <2>6, <3>1, <3>2 DEF Wiped
  <2> QED
    BY <2>5, <2>6
<1>3. CASE Restart
  BY <1>0, <1>3 DEF Restart, Wiped, ResetLeavesNothing, At
<1>4. CASE task' = task /\ clean' = clean /\ marks' = marks
             /\ (Nothing => Nothing' /\ filled' = filled)
  BY <1>4 DEF Wiped, ResetLeavesNothing, At, Busy, Nothing
<1>5. Fills \/ Tick \/ Copied \/ UNCHANGED vars
        => /\ task' = task /\ clean' = clean /\ marks' = marks
           /\ (Nothing => Nothing' /\ filled' = filled)
  BY DEF Fills, Tick, Copied, vars, Nothing
<1> QED
  BY <1>1, <1>2, <1>3, <1>4, <1>5 DEF Next

-----------------------------------------------------------------------------
(* A sign-out forgets *)

LEMMA ForgetStep == TypeInv /\ SignOutForgets /\ [Next]_vars => SignOutForgets'
<1> SUFFICES ASSUME TypeInv, SignOutForgets, [Next]_vars,
                    "lapsed" \notin marks', record' \notin {None, Foreign}, record'.doomed
             PROVE  \E q \in Tasks : task'[q].pc = "forget"
  BY DEF SignOutForgets
<1> USE DEF prefs, live
<1>1. CASE \E p \in Tasks : Command(p)
  <2>1. PICK p \in Tasks : Command(p)
    BY <1>1
  <2>2. CASE SignOut(p)
    <3>1. Begin(p, [Idle EXCEPT !.pc = "forget"]) /\ Ready([Idle EXCEPT !.pc = "forget"])
      BY <2>2 DEF SignOut, Ready, Task, Idle, Pc
    <3>2. task'[p] = [[Idle EXCEPT !.pc = "forget"] EXCEPT !.alone = (Busy = {})]
      BY <3>1, Starts
    <3>3. task'[p].pc = "forget"
      BY <3>2 DEF Idle
    <3> QED
      BY <3>3
  <2>3. CASE ~SignOut(p)
    <3>1. record' = record
      BY <2>1, <2>3 DEF Command, CreateAdmin, SignIn, Restore, ChangePassword, SetPref, Activate,
                        Deactivate, Status, Reset
    <3>2. /\ marks' = marks /\ task[p].pc = "idle"
          /\ \A q \in Tasks \ {p} : task'[q].pc = task[q].pc
      BY <2>1, Begins
    <3>3. PICK q \in Tasks : task[q].pc = "forget"
      BY <3>1, <3>2 DEF SignOutForgets
    <3> QED
      BY <3>2, <3>3
  <2> QED
    BY <2>2, <2>3
<1>2. CASE \E p \in Tasks : TaskStep(p)
  <2>1. PICK p \in Tasks : TaskStep(p)
    BY <1>2
  <2>2. \A q \in Tasks \ {p} : task'[q] = task[q]
    BY <2>1, Proceeds
  <2>3. "lapsed" \notin marks
    BY <2>1 DEF TaskStep, Check, Mint, Persist, Clear, ChangeVerifies, Update, Prefer, StoreKey,
                ReadInstall, BeginTrial, Wipe, Sweep, Holds
  <2>4. ~Clear(p) /\ ~Wipe(p)
    BY DEF Clear, Wipe, Holds
  <2>5. ~Persist(p)
    BY DEF Persist, Holds
  <2>8. ~Prefer(p) \/ record' = record
    BY DEF Prefer
  <2>6. record' = record /\ task[p].pc # "forget"
    BY <2>1, <2>4, <2>5, <2>8 DEF TaskStep, Check, Mint, ChangeVerifies, Update, Prefer, StoreKey,
                            ReadInstall, BeginTrial, Sweep, At
  <2>7. PICK q \in Tasks : task[q].pc = "forget"
    BY <2>3, <2>6 DEF SignOutForgets
  <2> QED
    BY <2>2, <2>6, <2>7
<1>3. CASE Restart
  <2>1. record' = [record EXCEPT !.doomed = FALSE] /\ record \in Saved
    BY <1>3 DEF Restart, TypeInv, TypeOK
  <2> QED
    BY <2>1 DEF Saved
<1>4. CASE Copied
  BY <1>4 DEF Copied
<1>5. CASE record' = record /\ task' = task /\ marks' = marks
  BY <1>5 DEF SignOutForgets
<1> QED
  BY <1>1, <1>2, <1>3, <1>4, <1>5 DEF Next, Fills, Tick, vars

-----------------------------------------------------------------------------
(* Sessions and commands are of the account in the table *)

\* Nothing is changed on behalf of the wrong account: the conditions SessionsOfAccount and
\* Verified make exceptions for, once they hold, stay.
LEMMA MarksStay ==
    [Next]_vars => (marks \cap {"straddled", "lapsed"}) \subseteq marks'
                   /\ ("reset" \in marks => "reset" \in marks' \/ Restart)
BY DEF Next, Command, CreateAdmin, SignIn, Restore, SignOut, ChangePassword, SetPref, Activate,
       Deactivate, Status, Reset, TaskStep, Check, Mint, Persist, Clear, ChangeVerifies, Update,
       Prefer, StoreKey, ReadInstall, BeginTrial, Wipe, Sweep, Fills, Tick, Copied, Restart,
       Holds, vars, prefs, live

\* The account goes only by a reset, and then nobody else is at work unless it is noted;
\* whatever else changes in the row, it is the same account.
LEMMA AccountStays ==
    ASSUME TypeInv, [Next]_vars, account # None
    PROVE  \/ account' # None /\ account'.born = account.born /\ account'.name = account.name
           \/ \E p \in Tasks : Wipe(p)
<1> USE DEF prefs, live
<1>1. CASE account' = account
  BY <1>1
<1>2. CASE \E p \in Tasks : Update(p)
  <2>1. account \in Row
    BY DEF TypeInv, TypeOK
  <2>2. /\ account' \in Row
        /\ account'.born = account.born /\ account'.name = account.name
    <3>1. PICK p \in Tasks : Update(p)
      BY <1>2
    <3>2. task[p].new \in Passwords /\ account' = [account EXCEPT !.pw = task[p].new]
      BY <3>1, Shapes DEF Update, At, Ready
    <3> QED
      BY <2>1, <3>2 DEF Row
  <2> QED
    BY <2>2, NoRowAssumption
<1> QED
  BY <1>1, <1>2 DEF Next, Command, CreateAdmin, SignIn, Restore, SignOut, ChangePassword, SetPref,
       Activate, Deactivate, Status, Reset, TaskStep, Check, Mint, Persist, Clear,
       ChangeVerifies, Prefer, StoreKey, ReadInstall, BeginTrial, Sweep, Fills, Tick,
       Copied, Restart, vars

\* A command begins on behalf of the account it has read, or of the one that is remembered.
LEMMA BeginsFor ==
    ASSUME TypeInv, NEW p \in Tasks, Command(p), ~CreateAdmin(p),
           task'[p].pc \in {"check", "mint"}
    PROVE  \/ account # None /\ task'[p].who = [born |-> account.born, name |-> account.name]
           \/ /\ record \notin {None, Foreign}
              /\ task'[p].who = [born |-> record.born, name |-> record.name]
<1>1. ASSUME NEW t, Ready(t), Begin(p, t)
      PROVE  task'[p].pc = t.pc /\ task'[p].who = t.who
  <2>1. task'[p] = [t EXCEPT !.alone = (Busy = {})] /\ t \in Task
    BY <1>1, Starts DEF Ready
  <2> QED
    BY <2>1 DEF Task
<1>2. CASE SignIn(p)
  <2>1. PICK b \in BOOLEAN : Begin(p, [Idle EXCEPT !.pc = "mint", !.remember = b,
                                !.who = [born |-> account.born, name |-> account.name]])
    BY <1>2 DEF SignIn
  <2>2. account # None /\ [born |-> account.born, name |-> account.name] \in Session
    BY <1>2 DEF SignIn, TypeInv, TypeOK, Row, Session
  <2>3. Ready([Idle EXCEPT !.pc = "mint", !.remember = b,
                           !.who = [born |-> account.born, name |-> account.name]])
    BY <2>2 DEF Ready, Task, Idle, Pc
  <2> DEFINE t == [Idle EXCEPT !.pc = "mint", !.remember = b,
                               !.who = [born |-> account.born, name |-> account.name]]
  <2>4. t.who = [born |-> account.born, name |-> account.name]
    BY DEF Idle
  <2>5. Ready(t) /\ Begin(p, t)
    BY <2>1, <2>3
  <2> HIDE DEF t
  <2> QED
    BY <1>1, <2>2, <2>4, <2>5
<1>3. CASE Restore(p)
  <2> DEFINE s == [born |-> record.born, name |-> record.name]
             t == [Idle EXCEPT !.pc = "check", !.remember = TRUE, !.who = s]
             c == [Idle EXCEPT !.pc = "clear"]
  <2>1. Ready(c) /\ c.pc = "clear"
    BY DEF Ready, Task, Idle, Pc
  <2>2. record \notin {None, Foreign} => Ready(t) /\ t.who = s
    <3>1. record \notin {None, Foreign} => s \in Session
      BY DEF TypeInv, TypeOK, Saved, Session
    <3> HIDE DEF s
    <3> QED
      BY <3>1 DEF Ready, Task, Idle, Pc
  <2>3. record # None /\ (Begin(p, c) \/ (record # Foreign /\ Begin(p, t)))
    BY <1>3 DEF Restore
  <2> HIDE DEF c, t
  <2> QED
    BY <1>1, <2>1, <2>2, <2>3
<1>4. CASE ChangePassword(p)
  <2>1. PICK x \in Tokens, o \in Passwords, n \in Passwords :
            Begin(p, [Idle EXCEPT !.pc = "change", !.old = o, !.new = n])
    BY <1>4 DEF ChangePassword
  <2> DEFINE t == [Idle EXCEPT !.pc = "change", !.old = o, !.new = n]
  <2>2. Ready(t) /\ t.pc = "change" /\ Begin(p, t)
    BY <2>1 DEF Ready, Task, Idle, Pc
  <2> HIDE DEF t
  <2> QED
    BY <1>1, <2>2
<1>5. CASE SetPref(p)
  <2>1. Begin(p, [Idle EXCEPT !.pc = "prefer"])
    BY <1>5 DEF SetPref
  <2> DEFINE t == [Idle EXCEPT !.pc = "prefer"]
  <2>2. Ready(t) /\ t.pc = "prefer" /\ Begin(p, t)
    BY <2>1 DEF Ready, Task, Idle, Pc
  <2> HIDE DEF t
  <2> QED
    BY <1>1, <2>2
<1>6. CASE Activate(p)
  <2>1. PICK x \in Tokens, k \in Keys :
            Begin(p, [Idle EXCEPT !.pc = "activate", !.value = k])
    BY <1>6 DEF Activate
  <2> DEFINE t == [Idle EXCEPT !.pc = "activate", !.value = k]
  <2>2. Ready(t) /\ t.pc = "activate" /\ Begin(p, t)
    BY <2>1 DEF Ready, Task, Idle, Pc
  <2> HIDE DEF t
  <2> QED
    BY <1>1, <2>2
<1>7. CASE Deactivate(p) \/ Status(p) \/ Reset(p) \/ SignOut(p)
  <2>1. PICK then \in {"deactivate", "status", "wipe", "forget"} :
            Begin(p, [Idle EXCEPT !.pc = then])
    BY <1>7 DEF Deactivate, Status, Reset, SignOut
  <2>2. Ready([Idle EXCEPT !.pc = then]) /\ [Idle EXCEPT !.pc = then].pc = then
    BY DEF Ready, Task, Idle, Pc
  <2> QED
    BY <1>1, <2>1, <2>2
<1> QED
  BY <1>2, <1>3, <1>4, <1>5, <1>6, <1>7 DEF Command

\* A step of a command that goes on to mint or persist acts for the same account.
LEMMA ProceedsFor ==
    ASSUME TypeInv, NEW p \in Tasks, TaskStep(p), task'[p].pc \in {"check", "mint", "persist"}
    PROVE  task[p].pc \in {"check", "mint"} /\ task'[p].who = task[p].who
<1>1. task \in [Tasks -> Task] /\ task[p] \in Task
  BY Shapes DEF TypeInv, TypeOK
<1>2. ~Return(p)
  BY <1>1 DEF Return, Idle
<1>3. ASSUME NEW then, Goto(p, then) PROVE task'[p].pc = then /\ task'[p].who = task[p].who
  BY <1>1, <1>3 DEF Goto, Task
<1>4. ~Persist(p) /\ ~Clear(p) /\ ~Update(p) /\ ~Prefer(p) /\ ~BeginTrial(p) /\ ~Sweep(p)
  BY <1>2 DEF Persist, Clear, Update, Prefer, BeginTrial, Sweep
<1>5. ~StoreKey(p) /\ ~Wipe(p)
  BY <1>3 DEF StoreKey, Wipe
<1>6. ~ReadInstall(p)
  BY <1>1, <1>2 DEF ReadInstall, Task
<1>7. ~ChangeVerifies(p)
  <2>1. CASE ChangeVerifies(p)
    <3> DEFINE s == [born |-> account.born, name |-> account.name]
    <3>1. task' = [task EXCEPT ![p] = [task[p] EXCEPT !.pc = "update", !.who = s]]
      BY <1>1, <1>2, <2>1 DEF ChangeVerifies
    <3> HIDE DEF s
    <3>2. task'[p].pc = "update"
      BY <1>1, <3>1 DEF Task
    <3> QED
      BY <3>2
  <2> QED
    BY <2>1
<1> QED
  BY <1>2, <1>3, <1>4, <1>5, <1>6, <1>7 DEF TaskStep, Check, Mint, At

LEMMA SessionsStep == TypeInv /\ SessionsOfAccount /\ [Next]_vars => SessionsOfAccount'
<1> SUFFICES ASSUME TypeInv, SessionsOfAccount, [Next]_vars,
                    marks' \cap {"straddled", "lapsed"} = {}
             PROVE  /\ record' \notin {None, Foreign} => Owns(record)'
                    /\ \A q \in Tasks : task'[q].pc \in {"check", "mint", "persist"}
                                          => Owns(task[q].who)'
                    /\ "reset" \notin marks' =>
                          \A t \in Tokens : sessions'[t] # None => Owns(sessions[t])'
  BY DEF SessionsOfAccount
<1> USE DEF prefs, live
<1>0. /\ record \notin {None, Foreign} => Owns(record)
      /\ \A q \in Tasks : task[q].pc \in {"check", "mint", "persist"} => Owns(task[q].who)
      /\ "reset" \notin marks => \A t \in Tokens : sessions[t] # None => Owns(sessions[t])
  BY MarksStay DEF SessionsOfAccount
<1>1. CASE \E p \in Tasks : Command(p)
  <2>1. PICK p \in Tasks : Command(p)
    BY <1>1
  <2>2. /\ marks' = marks /\ \A q \in Tasks \ {p} : /\ task'[q].pc = task[q].pc
                                                     /\ task'[q].who = task[q].who
        /\ task'[p].pc # "persist"
    BY <2>1, Begins
  <2>3. CASE CreateAdmin(p)
    <3>1. account = None /\ record' = record /\ sessions' = sessions
      BY <2>3 DEF CreateAdmin
    <3>2. task'[p].pc \notin {"check", "mint", "persist"}
      <4>1. task'[p] = [task[p] EXCEPT !.alone = FALSE] /\ task[p].pc = "idle" /\ task[p] \in Task
        BY <2>3, Shapes DEF CreateAdmin, Busy
      <4> QED
        BY <4>1 DEF Task
    <3> QED
      BY <1>0, <2>2, <3>1, <3>2 DEF Owns
  <2>4. CASE ~CreateAdmin(p)
    <3>1. account' = account
      BY <2>1, <2>4 DEF Command, SignIn, Restore, SignOut, ChangePassword, SetPref, Activate,
                        Deactivate, Status, Reset
    <3>2. record' \notin {None, Foreign} => /\ record \notin {None, Foreign}
                                            /\ record'.born = record.born
                                            /\ record'.name = record.name
      <4>1. CASE SignOut(p)
        BY <4>1 DEF SignOut, TypeInv, TypeOK, Saved
      <4>2. CASE record' = record
        BY <4>2
      <4> QED
        BY <2>1, <2>4, <4>1, <4>2 DEF Command, SignIn, Restore, ChangePassword, SetPref, Activate,
                                      Deactivate, Status, Reset
    <3>3. ASSUME NEW t \in Tokens PROVE sessions'[t] \in {sessions[t], None}
      BY <2>1, <2>4 DEF Command, SignIn, Restore, SignOut, ChangePassword, SetPref, Activate,
                        Deactivate, Status, Reset, TypeInv, TypeOK
    <3>4. task'[p].pc \in {"check", "mint"} => Owns(task[p].who)'
      BY <1>0, <2>1, <2>4, <3>1, BeginsFor DEF Owns
    <3> QED
      BY <1>0, <2>2, <3>1, <3>2, <3>3, <3>4 DEF Owns
  <2> QED
    BY <2>3, <2>4
<1>2. CASE \E p \in Tasks : TaskStep(p)
  <2>1. PICK p \in Tasks : TaskStep(p)
    BY <1>2
  <2>2. /\ task[p].pc # "idle" /\ \A q \in Tasks \ {p} : task'[q] = task[q]
    BY <2>1, Proceeds
  <2>3. CASE Wipe(p)
    <3>1. record' = None /\ "reset" \in marks' /\ Busy = {p} /\ Goto(p, "sweep")
      BY <2>3 DEF Wipe, Beside
    <3>2. task'[p].pc = "sweep"
      BY <3>1, Shapes DEF Goto, TypeInv, TypeOK, Task
    <3>3. ASSUME NEW q \in Tasks \ {p} PROVE task'[q].pc = "idle"
      BY <2>2, <3>1 DEF Busy
    <3> QED
      BY <3>1, <3>2, <3>3
  <2>4. CASE ~Wipe(p)
    <3>1. account # None => /\ account' # None /\ account'.born = account.born
                            /\ account'.name = account.name
      <4>1. ASSUME NEW q \in Tasks, Wipe(q) PROVE FALSE
        <5>1. q # p /\ task[q].pc = "wipe" /\ task'[q] = task[q]
          BY <2>2, <2>4, <4>1 DEF Wipe, At
        <5>2. task'[q] = [task[q] EXCEPT !.pc = "sweep"] /\ task[q] \in Task
          BY <4>1, Shapes DEF Wipe, Goto, TypeInv, TypeOK
        <5> QED
          BY <5>1, <5>2 DEF Task
      <4> QED
        BY <4>1, AccountStays
    <3>2. ASSUME NEW s, Owns(s)
          PROVE  account' # None /\ s.born = account'.born /\ s.name = account'.name
      BY <3>1, <3>2 DEF Owns
    <3>3. record' \notin {None, Foreign} => Owns(record)'
      <4>1. CASE Persist(p)
        <5>1. record' = record \/ /\ record'.born = task[p].who.born
                                  /\ record'.name = task[p].who.name
          BY <4>1 DEF Persist, Holds
        <5> QED
          BY <1>0, <3>2, <4>1, <5>1 DEF Persist, At, Owns
      <4>2. CASE ~Persist(p)
        <5>1. record' \in {record, None, Foreign}
          BY <2>1, <2>4, <4>2 DEF TaskStep, Check, Mint, Clear, ChangeVerifies, Update, Prefer,
                                  StoreKey, ReadInstall, BeginTrial, Sweep, Holds
        <5> QED
          BY <1>0, <3>2, <5>1 DEF Owns
      <4> QED
        BY <4>1, <4>2
    <3>4. ASSUME NEW q \in Tasks, task'[q].pc \in {"check", "mint", "persist"}
          PROVE  Owns(task[q].who)'
      <4>1. task'[q].who = task[q].who /\ task[q].pc \in {"check", "mint", "persist"}
        BY <2>1, <2>2, <3>4, ProceedsFor
      <4> QED
        BY <1>0, <3>2, <4>1 DEF Owns
    <3>5. ASSUME "reset" \notin marks', NEW t \in Tokens, sessions'[t] # None
          PROVE  Owns(sessions[t])'
      <4>1. "reset" \notin marks
        BY <2>1, <2>4, <3>5 DEF TaskStep, Check, Mint, Persist, Clear, ChangeVerifies, Update,
                           Prefer, StoreKey, ReadInstall, BeginTrial, Sweep, Holds
      <4>2. CASE sessions'[t] = sessions[t]
        BY <1>0, <3>2, <3>5, <4>1, <4>2 DEF Owns
      <4>3. CASE Mint(p) /\ sessions'[t] = task[p].who
        BY <1>0, <3>2, <4>3 DEF Mint, At, Owns
      <4>4. Mint(p) => sessions'[t] \in {sessions[t], task[p].who}
        BY DEF Mint, TypeInv, TypeOK
      <4>5. ~Mint(p) => sessions' = sessions
        BY <2>1, <2>4 DEF TaskStep, Check, Persist, Clear, ChangeVerifies, Update, Prefer,
                          StoreKey, ReadInstall, BeginTrial, Sweep
      <4> QED
        BY <4>2, <4>3, <4>4, <4>5
    <3> QED
      BY <3>3, <3>4, <3>5
  <2> QED
    BY <2>3, <2>4
<1>3. CASE Restart
  <2>1. \A q \in Tasks : task'[q].pc = "idle"
    BY <1>3 DEF Restart, Idle
  <2>2. \A t \in Tokens : sessions'[t] = None
    BY <1>3 DEF Restart
  <2>3. record' \notin {None, Foreign} => Owns(record)'
    BY <1>0, <1>3 DEF Restart, TypeInv, TypeOK, Saved, Owns
  <2> QED
    BY <2>1, <2>2, <2>3
<1>4. CASE Copied
  BY <1>0, <1>4 DEF Copied, Owns
<1>5. CASE record' = record /\ task' = task /\ marks' = marks /\ sessions' = sessions
             /\ account' = account
  BY <1>0, <1>5 DEF Owns
<1> QED
  BY <1>1, <1>2, <1>3, <1>4, <1>5 DEF Next, Fills, Tick, vars

-----------------------------------------------------------------------------
(* The account a password was verified for *)

LEMMA VerifiedStep == TypeInv /\ Verified /\ [Next]_vars => Verified'
<1> SUFFICES ASSUME TypeInv, Verified, [Next]_vars, "straddled" \notin marks',
                    NEW q \in Tasks, task'[q].pc = "update"
             PROVE  Owns(task[q].who)'
  BY DEF Verified, At
<1> USE DEF prefs, live
<1>0. "straddled" \notin marks /\ (task[q].pc = "update" => Owns(task[q].who))
  BY MarksStay DEF Verified, At
<1>1. CASE \E p \in Tasks : Command(p)
  <2>1. PICK p \in Tasks : Command(p)
    BY <1>1
  <2>2. task'[q].who = task[q].who /\ task[q].pc = "update"
    BY <2>1, Begins
  <2>3. account' = account
    BY <1>0, <2>1, <2>2 DEF Command, CreateAdmin, SignIn, Restore, SignOut, ChangePassword,
                            SetPref, Activate, Deactivate, Status, Reset, Owns
  <2> QED
    BY <1>0, <2>2, <2>3 DEF Owns
<1>2. CASE \E p \in Tasks : TaskStep(p)
  <2>1. PICK p \in Tasks : TaskStep(p)
    BY <1>2
  <2>2. /\ task[p].pc # "idle" /\ \A r \in Tasks \ {p} : task'[r] = task[r]
    BY <2>1, Proceeds
  <2>3. CASE p # q
    <3>1. task'[q] = task[q] /\ Owns(task[q].who)
      BY <1>0, <2>2, <2>3
    <3>2. ASSUME NEW r \in Tasks, Wipe(r) PROVE FALSE
      <4>1. CASE r = p
        BY <2>2, <2>3, <3>1, <3>2, <4>1 DEF Wipe, Beside, Busy, At
      <4>2. CASE r # p
        <5>1. task[r].pc = "wipe" /\ task'[r] = task[r]
          BY <2>2, <3>2, <4>2 DEF Wipe, At
        <5>2. task'[r] = [task[r] EXCEPT !.pc = "sweep"] /\ task[r] \in Task
          BY <3>2, Shapes DEF Wipe, Goto, TypeInv, TypeOK
        <5> QED
          BY <5>1, <5>2 DEF Task
      <4> QED
        BY <4>1, <4>2
    <3> QED
      BY <3>1, <3>2, AccountStays DEF Owns
  <2>4. CASE p = q
    <3>1. task \in [Tasks -> Task] /\ task[p] \in Task
      BY Shapes DEF TypeInv, TypeOK
    <3>2. ~Return(p)
      BY <2>4, <3>1 DEF Return, Idle
    <3>3. ASSUME NEW then, Goto(p, then) PROVE then = "update"
      BY <2>4, <3>1, <3>3 DEF Goto, Task
    <3>4. ~ReadInstall(p)
      BY <2>4, <3>1, <3>2 DEF ReadInstall, Task
    <3>5. ChangeVerifies(p)
      BY <2>1, <3>2, <3>3, <3>4 DEF TaskStep, Check, Mint, Persist, Clear, Update, Prefer, StoreKey,
                                    BeginTrial, Wipe, Sweep
    <3> DEFINE s == [born |-> account.born, name |-> account.name]
    <3>6. /\ account # None /\ account' = account
          /\ task' = [task EXCEPT ![p] = [task[p] EXCEPT !.pc = "update", !.who = s]]
      BY <3>1, <3>2, <3>5 DEF ChangeVerifies
    <3>7. s.born = account.born /\ s.name = account.name
      OBVIOUS
    <3> HIDE DEF s
    <3>8. task'[p].who = s
      BY <3>1, <3>6 DEF Task
    <3> QED
      BY <2>4, <3>6, <3>7, <3>8 DEF Owns
  <2> QED
    BY <2>3, <2>4
<1>3. CASE Restart
  BY <1>3 DEF Restart, Idle
<1>4. CASE task' = task /\ account' = account
  BY <1>0, <1>4 DEF Owns
<1> QED
  BY <1>1, <1>2, <1>3, <1>4 DEF Next, Fills, Tick, Copied, vars

-----------------------------------------------------------------------------
(* The theorems *)

LEMMA InitInv == Init => IInv
<1> SUFFICES ASSUME Init PROVE IInv
  OBVIOUS
<1>1. \A p \in Tasks : task[p].pc = "idle" /\ ~task[p].alone
  BY DEF Init, Idle
<1> QED
  BY <1>1, InitType DEF Init, IInv, SessionsOfAccount, SignOutForgets, Verified, Alone, Wiped,
                        ResetLeavesNothing, At

LEMMA NextInv == IInv /\ [Next]_vars => IInv'
BY NextType, SessionsStep, ForgetStep, VerifiedStep, AloneStep, WipedStep DEF IInv

LEMMA Inductive == Spec => []IInv
BY InitInv, NextInv, PTL DEF Spec

\* Every variable of the account, its sessions, the preferences and the commands in progress
\* keeps its type.
THEOREM TypeCorrect == Spec => []TypeOK
<1>1. IInv => TypeOK
  BY DEF IInv, TypeInv
<1> QED
  BY <1>1, Inductive, PTL

\* Every session in memory, remembered or about to be is of the account in the table, except
\* after a reset, and a failure, that SessionsOfAccount names (auth.rs, system.rs).
THEOREM SessionsTheorem == Spec => []SessionsOfAccount
<1>1. IInv => SessionsOfAccount
  BY DEF IInv
<1> QED
  BY <1>1, Inductive, PTL

\* What was remembered when a sign-out began is gone when it has returned, however many
\* commands overlap with it (auth.rs sign_out).
THEOREM SignOutTheorem == Spec => []SignOutForgets
<1>1. IInv => SignOutForgets
  BY DEF IInv
<1> QED
  BY <1>1, Inductive, PTL

\* A reset beside which nothing ran leaves no account, no preference, and nothing in the
\* directory of the cache unless another one was chosen (system.rs factory_reset).
THEOREM ResetTheorem == Spec => []ResetLeavesNothing
<1>1. IInv => ResetLeavesNothing
  BY DEF IInv
<1> QED
  BY <1>1, Inductive, PTL

\* A password changes on behalf of the account whose old one was verified, and the start of
\* the trial only with a reset or at the word of whoever sets it (auth.rs change_password,
\* license.rs compute_status, prefs.rs set_pref, clear_pref).
THEOREM LastingTheorem == Spec => LastingIsKept
<1> DEFINE Kept ==
      /\ account # None /\ account' # None /\ account'.pw # account.pw
            /\ "straddled" \notin marks
         => \E p \in Tasks : At(p, "update") /\ Owns(task[p].who)
      /\ install # None /\ install' # install
         => \/ install' = None /\ account' = None
            \/ \E p \in Tasks : At(p, "prefer") /\ task'[p] = Idle
<1>1. ASSUME IInv, [Next]_vars PROVE [Kept]_vars
  <2> USE DEF prefs, live
  <2>1. CASE \E p \in Tasks : Update(p)
    BY <1>1, <2>1 DEF Update, IInv, Verified, At
  <2>2. CASE \E p \in Tasks : Wipe(p)
    <3>1. /\ account' \in {account, None}
          /\ install' = install \/ (install' = None /\ account' = None)
      BY <2>2 DEF Wipe
    <3> QED
      BY <3>1
  <2>3. CASE \E p \in Tasks : BeginTrial(p)
    BY <2>3 DEF BeginTrial
  <2>4. CASE \E p \in Tasks : Prefer(p)
    <3>1. PICK p \in Tasks : Prefer(p)
      BY <2>4
    <3>2. account' = account /\ At(p, "prefer") /\ task'[p] = Idle
      BY <1>1, <3>1 DEF Prefer, Return, IInv, TypeInv, TypeOK
    <3> QED
      BY <3>2
  <2>5. CASE (account' = account \/ account = None) /\ install' = install
    BY <2>5
  <2> QED
    BY <1>1, <2>1, <2>2, <2>3, <2>4, <2>5 DEF Next, Command, CreateAdmin, SignIn, Restore,
         SignOut, ChangePassword, SetPref, Activate, Deactivate, Status, Reset, TaskStep, Check,
         Mint, Persist, Clear, ChangeVerifies, StoreKey, ReadInstall, Sweep,
         Fills, Tick, Copied, Restart, vars
<1> QED
  BY <1>1, Inductive, PTL DEF Spec, LastingIsKept
=============================================================================
