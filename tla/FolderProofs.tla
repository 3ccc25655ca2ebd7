----------------------------- MODULE FolderProofs -----------------------------
(***************************************************************************)
(* Renames and removals of any number of callers on any number of folders, *)
(* names and pages lose nothing, failures and crashes included, as long as *)
(* nobody stores something at a key between its copy and its deletion.     *)
(*                                                                         *)
(* That every content is somewhere in the bucket is not inductive: the     *)
(* place may be one that a rename is about to delete.  Copies says more:   *)
(* the content is at a key that no rename is about to delete.              *)
(*                                                                         *)
(* And a call that was not disturbed reports what it did: Honest follows   *)
(* it key by key.                                                          *)
(***************************************************************************)
EXTENDS FolderMoves, FiniteSetTheorems, TLAPS

\* A rename has copied k and is to delete it.
Leaving(k) == \E p \in Callers : call[p].op = "move" /\ call[p].pc = "delete" /\ call[p].at = k

Copies == ~crossed => \A n \in 1..writes :
              n \in replaced \/ \E k \in Keys : ~Leaving(k) /\ obj[k] = n

\* Nothing is renamed to itself.
Aims == \A p \in Callers : call[p].op = "move" =>
            \A k \in call[p].from : Target(call[p], k) # k

IInv == TypeOK /\ Aims /\ Copies

-----------------------------------------------------------------------------
LEMMA Shapes ==
    /\ Names \subseteq Nat /\ {0} \subseteq Contents /\ Contents \subseteq Nat
    /\ 1..MaxName \subseteq Contents
    /\ First \in Folders /\ Same \notin Names /\ None \notin Callers
    /\ Idle \in Call /\ NoObjects \in Buckets
    /\ \A k \in Keys : k[1] \in Folders /\ k[2] \in Names /\ k = <<k[1], k[2]>>
    /\ \A f \in Folders : Under(f) \subseteq Keys /\ \A k \in Under(f) : k[1] = f
BY FolderAssumption DEF Names, Contents, Keys, Under, Idle, Call, NoObjects, Buckets

\* A call puts what it finds at one of the keys.
LEMMA TargetsAreKeys == \A c \in Call, k \in Keys : Target(c, k) \in Keys
BY Shapes DEF Call, Target, Keys

LEMMA InitInv == Init => IInv
<1> SUFFICES ASSUME Init PROVE IInv
  OBVIOUS
<1>1. obj \in Buckets /\ writes \in Contents /\ writes = MaxName
  <2>1. \A k \in Keys : k[2] \in Contents /\ 0 \in Contents
    BY Shapes DEF Names
  <2>2. obj \in [Keys -> Contents]
    BY <2>1 DEF Init
  <2>3. writes = MaxName /\ MaxName \in Contents
    BY FolderAssumption DEF Init, Contents
  <2> QED
    BY <2>2, <2>3 DEF Buckets
<1>2. call \in [Callers -> Call] /\ \A p \in Callers : call[p] = Idle
  BY Shapes DEF Init
<1>3. TypeOK
  <2>1. held \in [Callers -> Buckets]
    BY Shapes DEF Init
  <2>2. touched \in [Callers -> BOOLEAN] /\ begun \in 0..MaxCalls
    BY FolderAssumption DEF Init
  <2>3. replaced = {} /\ crossed \in BOOLEAN
    BY DEF Init
  <2>4. \A p \in Callers : call[p].todo = {} /\ call[p].pc = "idle"
    BY <1>2 DEF Idle
  <2> QED
    BY <1>1, <1>2, <2>1, <2>2, <2>3, <2>4 DEF TypeOK
<1>4. Aims
  BY <1>2 DEF Aims, Idle
<1>5. Copies
  <2> SUFFICES ASSUME NEW n \in 1..writes
               PROVE  \E k \in Keys : ~Leaving(k) /\ obj[k] = n
    BY DEF Copies
  <2>1. <<First, n>> \in Keys
    BY <1>1, Shapes DEF Keys, Names
  <2>2. obj[<<First, n>>] = n
    BY <2>1 DEF Init
  <2>3. ~Leaving(<<First, n>>)
    BY <1>2 DEF Leaving, Idle
  <2> QED
    BY <2>1, <2>2, <2>3
<1> QED
  BY <1>3, <1>4, <1>5 DEF IInv

-----------------------------------------------------------------------------
(* Steps that leave the bucket alone. *)

\* Types of what a step that changes one call may change.
LEMMA CallTyped ==
    ASSUME TypeOK, NEW p \in Callers, NEW c \in Call, call' = [call EXCEPT ![p] = c],
           c.todo \subseteq c.from,
           c.op = "move" /\ c.pc = "delete" => c.at \in c.todo
    PROVE  /\ call' \in [Callers -> Call]
           /\ call'[p] = c /\ \A q \in Callers \ {p} : call'[q] = call[q]
           /\ \A q \in Callers : /\ call'[q].todo \subseteq call'[q].from
                                 /\ call'[q].op = "move" /\ call'[q].pc = "delete"
                                       => call'[q].at \in call'[q].todo
BY DEF TypeOK

\* A step that stores nothing keeps the copies, if it is not the end of one.
LEMMA CopiesKept ==
    ASSUME IInv, NEW p \in Callers, NEW c \in Call, call' = [call EXCEPT ![p] = c],
           ~(c.op = "move" /\ c.pc = "delete"),
           NoPut, writes' = writes, replaced' = replaced
    PROVE  Copies'
<1>1. \A k \in Keys : Leaving(k)' => Leaving(k)
  BY DEF Leaving, IInv, TypeOK
<1> QED
  BY <1>1 DEF Copies, IInv, NoPut

LEMMA BeginKeeps ==
    ASSUME IInv, NEW p \in Callers, NEW c \in Call, Begin(p, c),
           c.pc # "delete", c.todo \subseteq c.from,
           c.op = "move" => \A k \in c.from : Target(c, k) # k
    PROVE  IInv'
<1>1. /\ call' = [call EXCEPT ![p] = c] /\ begun' \in 0..MaxCalls
      /\ held' = [held EXCEPT ![p] = obj] /\ touched' = [touched EXCEPT ![p] = FALSE]
      /\ obj' = obj /\ writes' = writes /\ replaced' = replaced /\ crossed' = crossed
  BY FolderAssumption DEF Begin, IInv, TypeOK
<1>2. TypeOK'
  <2>1. held' \in [Callers -> Buckets] /\ touched' \in [Callers -> BOOLEAN]
    BY <1>1 DEF IInv, TypeOK
  <2> QED
    BY <1>1, <2>1, CallTyped DEF IInv, TypeOK
<1>3. Aims'
  BY <1>1 DEF Aims, IInv, TypeOK, Target
<1>4. Copies'
  <2>1. \A k \in Keys : Leaving(k)' => Leaving(k)
    BY <1>1 DEF Leaving, IInv, TypeOK
  <2> QED
    BY <1>1, <2>1 DEF Copies, IInv
<1> QED
  BY <1>2, <1>3, <1>4 DEF IInv

\* What a call works on does not change while it is in progress.
LEMMA AimsKept ==
    ASSUME IInv, NEW p \in Callers, NEW c \in Call, call' = [call EXCEPT ![p] = c],
           <<c.op, c.from, c.to, c.as>>
               = <<call[p].op, call[p].from, call[p].to, call[p].as>>
    PROVE  Aims'
BY DEF IInv, TypeOK, Aims, Target

\* The same for every step of a call that stores nothing.
LEMMA StepKeeps ==
    ASSUME IInv, NEW p \in Callers, NEW c \in Call, call' = [call EXCEPT ![p] = c],
           <<c.op, c.from, c.to, c.as>>
               = <<call[p].op, call[p].from, call[p].to, call[p].as>>,
           ~(c.op = "move" /\ c.pc = "delete"), c.todo \subseteq c.from,
           NoPut, UNCHANGED <<writes, begun, held, replaced>>
    PROVE  IInv'
<1>1. TypeOK'
  BY CallTyped DEF IInv, TypeOK, NoPut
<1>2. Aims' /\ Copies'
  BY AimsKept, CopiesKept
<1> QED
  BY <1>1, <1>2 DEF IInv

LEMMA ListKeeps == ASSUME IInv, NEW p \in Callers, List(p) PROVE IInv'
<1> DEFINE c    == call[p]
           page == Page(c.from, c.after)
<1>1. c \in Call /\ c.todo \subseteq c.from /\ page \subseteq c.from
  BY DEF IInv, TypeOK, Page, Left
<1>2. NoPut /\ UNCHANGED <<writes, begun, held, replaced>> /\ c.pc = "list"
  BY DEF List
<1>3. CASE call' = [call EXCEPT ![p] =
                        [c EXCEPT !.pc = Goes(c), !.after = 0, !.todo = @ \cup page]]
  <2> DEFINE d == [c EXCEPT !.pc = Goes(c), !.after = 0, !.todo = @ \cup page]
  <2>1. /\ d \in Call /\ d.todo \subseteq d.from
        /\ ~(d.op = "move" /\ d.pc = "delete")
        /\ <<d.op, d.from, d.to, d.as>> = <<c.op, c.from, c.to, c.as>>
    BY <1>1 DEF Call, Goes
  <2>2. call' = [call EXCEPT ![p] = d]
    BY <1>3
  <2> HIDE DEF d
  <2> QED
    BY <1>2, <2>1, <2>2, StepKeeps
<1>4. CASE \E n \in Names :
              call' = [call EXCEPT ![p] = [c EXCEPT !.after = n, !.todo = @ \cup page]]
  <2>1. PICK n \in Names :
            call' = [call EXCEPT ![p] = [c EXCEPT !.after = n, !.todo = @ \cup page]]
    BY <1>4
  <2> DEFINE d == [c EXCEPT !.after = n, !.todo = @ \cup page]
  <2>2. /\ d \in Call /\ d.todo \subseteq d.from
        /\ ~(d.op = "move" /\ d.pc = "delete")
        /\ <<d.op, d.from, d.to, d.as>> = <<c.op, c.from, c.to, c.as>>
    BY <1>1, <1>2, Shapes DEF Call
  <2>3. call' = [call EXCEPT ![p] = d]
    BY <2>1
  <2> HIDE DEF d
  <2> QED
    BY <1>2, <2>2, <2>3, StepKeeps
<1>5. \/ call' = [call EXCEPT ![p] =
              [c EXCEPT !.pc = Goes(c), !.after = 0, !.todo = @ \cup page]]
      \/ \E n \in Names :
            call' = [call EXCEPT ![p] = [c EXCEPT !.after = n, !.todo = @ \cup page]]
  BY <1>1, Zenon DEF List, IInv, TypeOK
<1> QED
  BY <1>3, <1>4, <1>5

LEMMA QuietKeeps ==
    ASSUME IInv, NEW p \in Callers, ListFails(p) \/ Moved(p) \/ Removed(p)
    PROVE  IInv'
<1> DEFINE c == call[p]
<1>1. c \in Call /\ c.todo \subseteq c.from
  BY DEF IInv, TypeOK
<1>2. PICK r \in {"ok", "failed"}, l \in {c.lost, c.from} :
          call' = [call EXCEPT ![p] = [c EXCEPT !.pc = r, !.lost = l]]
  <2>1. [c EXCEPT !.lost = c.lost] = c
    BY <1>1 DEF Call
  <2>2. ASSUME NEW r \in {"ok", "failed"}, Ends(p, r)
        PROVE  call' = [call EXCEPT ![p] = [c EXCEPT !.pc = r, !.lost = c.lost]]
    BY <1>1, <2>2 DEF Ends, Call
  <2> QED
    BY <2>2 DEF ListFails, Moved, Removed
<1> DEFINE d == [c EXCEPT !.pc = r, !.lost = l]
<1>3. /\ d \in Call /\ d.todo \subseteq d.from
      /\ ~(d.op = "move" /\ d.pc = "delete")
      /\ <<d.op, d.from, d.to, d.as>> = <<c.op, c.from, c.to, c.as>>
  BY <1>1 DEF Call
<1>4. call' = [call EXCEPT ![p] = d]
  BY <1>2
<1>5. NoPut /\ UNCHANGED <<writes, begun, held, replaced>>
  BY DEF ListFails, Moved, Removed
<1> HIDE DEF d
<1> QED
  BY <1>3, <1>4, <1>5, StepKeeps

LEMMA ReturnsKeeps == ASSUME IInv, NEW p \in Callers, Returns(p) PROVE IInv'
<1>1. /\ call' = [call EXCEPT ![p] = Idle]
      /\ held' = [held EXCEPT ![p] = NoObjects] /\ touched' = [touched EXCEPT ![p] = FALSE]
      /\ UNCHANGED <<obj, writes, begun, replaced, crossed>>
  BY DEF Returns
<1>2. /\ Idle \in Call /\ Idle.todo = {} /\ Idle.from = {} /\ Idle.pc = "idle"
  BY Shapes DEF Idle
<1>3. TypeOK'
  <2>1. held' \in [Callers -> Buckets] /\ touched' \in [Callers -> BOOLEAN]
    BY <1>1, Shapes DEF IInv, TypeOK
  <2> QED
    BY <1>1, <1>2, <2>1, CallTyped DEF IInv, TypeOK
<1>4. Aims'
  BY <1>1, <1>2 DEF IInv, TypeOK, Aims, Target
<1>5. Copies'
  <2>1. \A k \in Keys : Leaving(k)' => Leaving(k)
    BY <1>1, <1>2 DEF Leaving, IInv, TypeOK
  <2> QED
    BY <1>1, <2>1 DEF Copies, IInv
<1> QED
  BY <1>3, <1>4, <1>5 DEF IInv

-----------------------------------------------------------------------------
(* Steps that store or delete. *)

LEMMA PutTyped ==
    ASSUME TypeOK, NEW p, NEW k \in Keys, NEW c \in Contents, Put(p, k, c)
    PROVE  /\ obj' \in Buckets /\ obj' = [obj EXCEPT ![k] = c]
           /\ touched' \in [Callers -> BOOLEAN] /\ crossed' \in BOOLEAN
           /\ crossed => crossed'
           /\ \A l \in Keys : obj[l] \in Contents
<1>1. obj' = [obj EXCEPT ![k] = c] /\ obj \in [Keys -> Contents]
  BY DEF Put, TypeOK, Buckets
<1>2. touched' \in [Callers -> BOOLEAN]
  BY DEF Put
<1>3. crossed' \in BOOLEAN /\ (crossed => crossed')
  BY DEF Put
<1> QED
  BY <1>1, <1>2, <1>3 DEF Buckets

LEMMA OverTyped ==
    ASSUME TypeOK, NEW k \in Keys, NEW c, Over(k, c)
    PROVE  /\ replaced' \subseteq Contents /\ replaced \subseteq replaced'
           /\ obj[k] \in replaced' \cup {0, c}
BY DEF Over, TypeOK, Buckets

\* A key takes another content: what it held is written over, was copied before, or
\* is the same.
LEMMA PutCopies ==
    ASSUME IInv, NEW k \in Keys, NEW c, obj' = [obj EXCEPT ![k] = c],
           crossed => crossed', writes' = writes, replaced \subseteq replaced',
           \A l \in Keys : Leaving(l)' => Leaving(l),
           Leaving(k) \/ obj[k] \in replaced' \cup {0, c}
    PROVE  Copies'
<1> SUFFICES ASSUME ~crossed', NEW n \in 1..writes, n \notin replaced'
             PROVE  \E l \in Keys : ~Leaving(l)' /\ obj'[l] = n
  BY DEF Copies
<1>1. PICK l \in Keys : ~Leaving(l) /\ obj[l] = n
  BY DEF IInv, Copies
<1>2. obj'[l] = n
  BY <1>1 DEF IInv, TypeOK, Buckets
<1> QED
  BY <1>1, <1>2

\* A call ends in a failure, whatever became of its request.
LEMMA FailureKeeps ==
    ASSUME IInv, NEW p \in Callers, NEW k \in Keys, NEW c \in Contents,
           \/ NoPut /\ UNCHANGED replaced
           \/ /\ Put(p, k, c) /\ replaced \subseteq replaced' /\ replaced' \subseteq Contents
              /\ Leaving(k) \/ obj[k] \in replaced' \cup {0, c},
           Ends(p, "failed"), UNCHANGED <<writes, begun, held>>
    PROVE  IInv'
<1> DEFINE d == [call[p] EXCEPT !.pc = "failed"]
<1>1. call' = [call EXCEPT ![p] = d]
  BY DEF Ends, IInv, TypeOK
<1>2. /\ d \in Call /\ d.todo \subseteq d.from /\ d.pc = "failed"
      /\ <<d.op, d.from, d.to, d.as>>
             = <<call[p].op, call[p].from, call[p].to, call[p].as>>
  BY DEF IInv, TypeOK, Call
<1> HIDE DEF d
<1>3. CASE NoPut /\ UNCHANGED replaced
  BY <1>1, <1>2, <1>3, StepKeeps
<1>4. CASE /\ Put(p, k, c) /\ replaced \subseteq replaced' /\ replaced' \subseteq Contents
           /\ Leaving(k) \/ obj[k] \in replaced' \cup {0, c}
  <2>1. TypeOK'
    BY <1>1, <1>2, <1>4, CallTyped, PutTyped DEF IInv, TypeOK
  <2>2. \A l \in Keys : Leaving(l)' => Leaving(l)
    BY <1>1, <1>2 DEF Leaving, IInv, TypeOK
  <2>3. Copies'
    BY <1>4, <2>2, PutTyped, PutCopies DEF IInv
  <2>4. Aims'
    BY <1>1, <1>2, AimsKept
  <2> QED
    BY <2>1, <2>3, <2>4 DEF IInv
<1> QED
  BY <1>3, <1>4

LEMMA CopyKeeps == ASSUME IInv, NEW p \in Callers, NEW k \in Keys, Copy(p, k) PROVE IInv'
<1> DEFINE c == call[p]
           d == [c EXCEPT !.pc = "delete", !.at = k]
<1>1. c \in Call /\ c.todo \subseteq c.from /\ k \in c.todo
  BY DEF IInv, TypeOK, Copy, IsNext
<1> PICK t \in Keys : t = Target(c, k)
  BY <1>1, TargetsAreKeys
<1>2. /\ call' = [call EXCEPT ![p] = d] /\ Put(p, t, obj[k]) /\ Over(t, obj[k])
      /\ UNCHANGED <<writes, begun, held>> /\ obj[k] \in Contents /\ obj[k] # 0
      /\ c.pc = "copy"
  BY DEF Copy, IInv, TypeOK, Buckets
<1>3. /\ d \in Call /\ d.todo \subseteq d.from /\ d.at \in d.todo /\ d.at = k
      /\ d.op = c.op
      /\ <<d.op, d.from, d.to, d.as>> = <<c.op, c.from, c.to, c.as>>
  BY <1>1 DEF Call
<1> HIDE DEF d
<1>4. TypeOK'
  BY <1>1, <1>2, <1>3, CallTyped, PutTyped, OverTyped DEF IInv, TypeOK
<1>5. Aims'
  BY <1>2, <1>3, AimsKept
<1>6. Copies'
  <2> SUFFICES ASSUME ~crossed', NEW n \in 1..writes, n \notin replaced'
               PROVE  \E l \in Keys : ~Leaving(l)' /\ obj'[l] = n
    BY <1>2 DEF Copies
  <2>1. PICK l \in Keys : ~Leaving(l) /\ obj[l] = n
    BY <1>1, <1>2, OverTyped, PutTyped DEF IInv, Copies
  <2>2. d.op = "move" => t # k
    BY <1>1, <1>3 DEF IInv, Aims
  <2>3. call'[p] = d /\ \A q \in Callers \ {p} : call'[q] = call[q]
    BY <1>2, <1>3 DEF IInv, TypeOK
  <2>4. ~Leaving(t)'
    <3>1. \A q \in Callers \ {p} :
              ~(call[q].op = "move" /\ call[q].pc = "delete" /\ call[q].at = t)
      BY <1>2 DEF Put
    <3>2. ~(d.op = "move" /\ d.pc = "delete" /\ d.at = t)
      BY <1>3, <2>2
    <3> QED
      BY <2>3, <3>1, <3>2 DEF Leaving
  <2>5. /\ obj'[t] = obj[k] /\ t \in Keys
        /\ \A m \in Keys \ {t} : obj'[m] = obj[m]
    <3>1. obj' = [obj EXCEPT ![t] = obj[k]] /\ obj \in [Keys -> Contents]
      BY <1>2 DEF Put, IInv, TypeOK, Buckets
    <3> QED
      BY <1>1, <3>1
  <2>6. CASE l = k \/ l = t
    <3>1. n = obj[k]
      BY <1>1, <1>2, <2>1, <2>6, OverTyped DEF IInv
    <3> QED
      BY <2>4, <2>5, <3>1
  <2>7. CASE l # k /\ l # t
    <3>1. ~Leaving(l)'
      BY <2>1, <2>3, <2>7, <1>3 DEF Leaving
    <3> QED
      BY <2>1, <2>5, <2>7, <3>1
  <2> QED
    BY <2>6, <2>7
<1> QED
  BY <1>4, <1>5, <1>6 DEF IInv

LEMMA CopyFailsKeeps ==
    ASSUME IInv, NEW p \in Callers, NEW k \in Keys, CopyFails(p, k) PROVE IInv'
<1> DEFINE t == Target(call[p], k)
<1>1. t \in Keys /\ obj[k] \in Contents
  BY TargetsAreKeys DEF IInv, TypeOK, Buckets
<1>2. /\ \/ NoPut /\ UNCHANGED replaced
         \/ Put(p, t, obj[k]) /\ Over(t, obj[k])
      /\ Ends(p, "failed") /\ UNCHANGED <<writes, begun, held>>
  BY DEF CopyFails
<1> HIDE DEF t
<1> QED
  BY <1>1, <1>2, OverTyped, FailureKeeps DEF IInv

LEMMA DeleteOldFailsKeeps ==
    ASSUME IInv, NEW p \in Callers, DeleteOldFails(p) PROVE IInv'
<1> DEFINE k == call[p].at
<1>1. call[p].op = "move" /\ call[p].pc = "delete"
  BY DEF DeleteOldFails
<1>2. k \in Keys /\ Leaving(k)
  BY <1>1 DEF IInv, TypeOK, Call, Leaving
<1>3. /\ NoPut \/ Put(p, k, 0)
      /\ Ends(p, "failed") /\ UNCHANGED <<writes, begun, held, replaced>>
  BY DEF DeleteOldFails
<1>4. 0 \in Contents /\ replaced \subseteq Contents
  BY Shapes DEF IInv, TypeOK
<1> HIDE DEF k
<1> QED
  BY <1>2, <1>3, <1>4, FailureKeeps

\* A call goes on after it has deleted a key.
LEMMA DeletionKeeps ==
    ASSUME IInv, NEW p \in Callers, NEW k \in Keys, NEW d \in Call,
           call' = [call EXCEPT ![p] = d],
           <<d.op, d.from, d.to, d.as>>
               = <<call[p].op, call[p].from, call[p].to, call[p].as>>,
           ~(d.op = "move" /\ d.pc = "delete"), d.todo \subseteq d.from,
           Put(p, k, 0), replaced \subseteq replaced', replaced' \subseteq Contents,
           Leaving(k) \/ obj[k] \in replaced' \cup {0},
           UNCHANGED <<writes, begun, held>>
    PROVE  IInv'
<1>1. 0 \in Contents
  BY Shapes
<1>2. TypeOK'
  BY <1>1, CallTyped, PutTyped DEF IInv, TypeOK
<1>3. \A l \in Keys : Leaving(l)' => Leaving(l)
  BY DEF Leaving, IInv, TypeOK
<1>4. Copies'
  BY <1>1, <1>3, PutTyped, PutCopies DEF IInv
<1>5. Aims'
  BY AimsKept
<1> QED
  BY <1>2, <1>4, <1>5 DEF IInv

LEMMA DeleteOldKeeps == ASSUME IInv, NEW p \in Callers, DeleteOld(p) PROVE IInv'
<1> DEFINE c == call[p]
           d == [c EXCEPT !.pc = "copy", !.at = None, !.todo = @ \ {c.at}]
<1>1. /\ c \in Call /\ c.todo \subseteq c.from /\ c.at \in c.todo
      /\ c.op = "move" /\ c.pc = "delete"
  BY DEF IInv, TypeOK, DeleteOld
<1>2. c.at \in Keys /\ Leaving(c.at)
  BY <1>1 DEF Call, Leaving
<1>3. /\ d \in Call /\ d.todo \subseteq d.from /\ d.pc = "copy"
      /\ <<d.op, d.from, d.to, d.as>> = <<c.op, c.from, c.to, c.as>>
  BY <1>1 DEF Call
<1>4. /\ call' = [call EXCEPT ![p] = d] /\ Put(p, c.at, 0)
      /\ UNCHANGED <<writes, begun, held, replaced>>
  BY DEF DeleteOld
<1>5. replaced \subseteq Contents
  BY DEF IInv, TypeOK
<1> HIDE DEF d
<1> QED
  BY <1>2, <1>3, <1>4, <1>5, DeletionKeeps

LEMMA RemoveKeeps ==
    ASSUME IInv, NEW p \in Callers, NEW k \in Keys, Remove(p, k) PROVE IInv'
<1> DEFINE c == call[p]
           d == [c EXCEPT !.todo = c.todo \ {k}]
<1>1. c \in Call /\ c.todo \subseteq c.from /\ c.op = "remove"
  BY DEF IInv, TypeOK, Remove
<1>2. /\ d \in Call /\ d.todo \subseteq d.from /\ d.op = "remove"
      /\ <<d.op, d.from, d.to, d.as>> = <<c.op, c.from, c.to, c.as>>
  BY <1>1 DEF Call
<1>3. call' = [call EXCEPT ![p] = d]
  BY DEF Remove, IInv, TypeOK
<1>4. Put(p, k, 0) /\ Over(k, 0) /\ UNCHANGED <<writes, begun, held>>
  BY DEF Remove
<1> HIDE DEF d
<1> QED
  BY <1>2, <1>3, <1>4, OverTyped, DeletionKeeps DEF IInv

LEMMA RemoveFailsKeeps ==
    ASSUME IInv, NEW p \in Callers, NEW k \in Keys, RemoveFails(p, k) PROVE IInv'
<1> DEFINE c == call[p]
           d == [c EXCEPT !.todo = @ \ {k}, !.lost = @ \cup {k}]
<1>1. c \in Call /\ c.todo \subseteq c.from /\ c.op = "remove"
  BY DEF IInv, TypeOK, RemoveFails
<1>2. /\ d \in Call /\ d.todo \subseteq d.from /\ d.op = "remove"
      /\ <<d.op, d.from, d.to, d.as>> = <<c.op, c.from, c.to, c.as>>
  BY <1>1 DEF Call
<1>3. /\ call' = [call EXCEPT ![p] = d]
      /\ (NoPut /\ UNCHANGED replaced) \/ (Put(p, k, 0) /\ Over(k, 0))
      /\ UNCHANGED <<writes, begun, held>>
  BY DEF RemoveFails
<1> HIDE DEF d
<1>4. CASE NoPut /\ UNCHANGED replaced
  BY <1>2, <1>3, <1>4, StepKeeps
<1>5. CASE Put(p, k, 0) /\ Over(k, 0)
  BY <1>2, <1>3, <1>5, OverTyped, DeletionKeeps DEF IInv
<1> QED
  BY <1>3, <1>4, <1>5

LEMMA WriteKeeps == ASSUME IInv, NEW k \in Keys, Write(k) PROVE IInv'
<1>1. /\ writes + 1 \in Contents /\ writes + 1 # 0 /\ writes \in Nat
      /\ writes' = writes + 1
  BY FolderAssumption DEF Write, IInv, TypeOK, Contents
<1>2. /\ Put(None, k, writes + 1) /\ Over(k, 0) /\ UNCHANGED <<call, begun, held>>
  BY <1>1 DEF Write
<1>3. TypeOK'
  BY <1>1, <1>2, PutTyped, OverTyped DEF IInv, TypeOK
<1>4. Aims'
  BY <1>2 DEF IInv, Aims, Target
<1>5. Copies'
  <2> SUFFICES ASSUME ~crossed', NEW n \in 1..writes', n \notin replaced'
               PROVE  \E l \in Keys : ~Leaving(l)' /\ obj'[l] = n
    BY DEF Copies
  <2>1. \A l \in Keys : Leaving(l)' = Leaving(l)
    BY <1>2 DEF Leaving
  <2>2. /\ obj'[k] = writes + 1
        /\ \A m \in Keys \ {k} : obj'[m] = obj[m]
    BY <1>1, <1>2, PutTyped DEF IInv, TypeOK, Buckets
  <2>3. CASE n = writes + 1
    <3>1. ~Leaving(k)
      BY <1>1, <1>2, Shapes DEF Put, Leaving
    <3> QED
      BY <2>1, <2>2, <2>3, <3>1
  <2>4. CASE n # writes + 1
    <3>1. n \in 1..writes /\ ~crossed /\ n \notin replaced
      BY <1>1, <1>2, <2>4, PutTyped, OverTyped DEF IInv
    <3>2. PICK l \in Keys : ~Leaving(l) /\ obj[l] = n
      BY <3>1 DEF IInv, Copies
    <3>3. l # k
      BY <1>2, <3>1, <3>2, OverTyped DEF IInv
    <3> QED
      BY <2>1, <2>2, <3>2, <3>3
  <2> QED
    BY <2>3, <2>4
<1> QED
  BY <1>3, <1>4, <1>5 DEF IInv

-----------------------------------------------------------------------------
LEMMA CallsKeep ==
    ASSUME IInv, NEW p \in Callers,
           \/ \E f, g \in Folders : RenameFolder(p, f, g)
           \/ \E k \in Keys, n \in Names : RenameFile(p, k, n)
           \/ \E f \in Folders : RemoveFolder(p, f)
    PROVE  IInv'
<1>1. ASSUME NEW f \in Folders, NEW g \in Folders, RenameFolder(p, f, g) PROVE IInv'
  <2> DEFINE c == [Idle EXCEPT !.pc = "list", !.from = Under(f), !.to = g]
  <2>1. /\ c \in Call /\ c.pc = "list" /\ c.todo \subseteq c.from
        /\ c.from = Under(f) /\ c.to = g
    BY Shapes DEF Idle, Call
  <2>2. Begin(p, c) /\ f # g
    BY <1>1 DEF RenameFolder
  <2> HIDE DEF c
  <2>3. \A k \in c.from : Target(c, k) # k
    <3>1. \A k \in c.from : k[1] = f /\ Target(c, k)[1] = g
      BY <2>1, Shapes DEF Target
    <3> QED
      BY <2>2, <3>1
  <2> QED
    BY <2>1, <2>2, <2>3, BeginKeeps
<1>2. ASSUME NEW k \in Keys, NEW n \in Names, RenameFile(p, k, n) PROVE IInv'
  <2> DEFINE c == [Idle EXCEPT !.pc = "copy", !.from = {k}, !.to = k[1], !.as = n,
                               !.todo = {k}]
  <2>1. /\ c \in Call /\ c.pc = "copy" /\ c.todo \subseteq c.from
        /\ c.from = {k} /\ c.as = n
    BY Shapes DEF Idle, Call
  <2>2. Begin(p, c) /\ k[2] # n
    BY <1>2 DEF RenameFile
  <2> HIDE DEF c
  <2>3. \A l \in c.from : Target(c, l) # l
    <3>1. Target(c, k)[2] = n
      BY <2>1, Shapes DEF Target
    <3> QED
      BY <2>1, <2>2, <3>1
  <2> QED
    BY <2>1, <2>2, <2>3, BeginKeeps
<1>3. ASSUME NEW f \in Folders, RemoveFolder(p, f) PROVE IInv'
  <2> DEFINE c == [Idle EXCEPT !.pc = "list", !.op = "remove", !.from = Under(f)]
  <2>1. c \in Call /\ c.pc = "list" /\ c.todo \subseteq c.from /\ c.op = "remove"
    BY Shapes DEF Idle, Call
  <2>2. Begin(p, c)
    BY <1>3 DEF RemoveFolder
  <2> HIDE DEF c
  <2> QED
    BY <2>1, <2>2, BeginKeeps
<1> QED
  BY <1>1, <1>2, <1>3

LEMMA CallStepKeeps == ASSUME IInv, NEW p \in Callers, CallStep(p) PROVE IInv'
BY ListKeeps, QuietKeeps, DeleteOldKeeps, DeleteOldFailsKeeps, CopyKeeps, CopyFailsKeeps,
   RemoveKeeps, RemoveFailsKeeps DEF CallStep

LEMMA Inductive == IInv /\ [Next]_vars => IInv'
<1> SUFFICES ASSUME IInv, [Next]_vars PROVE IInv'
  OBVIOUS
<1>1. CASE \E p \in Callers :
              \/ \E f, g \in Folders : RenameFolder(p, f, g)
              \/ \E k \in Keys, n \in Names : RenameFile(p, k, n)
              \/ \E f \in Folders : RemoveFolder(p, f)
  BY <1>1, CallsKeep
<1>2. CASE \E p \in Callers : CallStep(p) \/ Returns(p)
  BY <1>2, CallStepKeeps, ReturnsKeeps
<1>3. CASE \E k \in Keys : Write(k)
  BY <1>3, WriteKeeps
<1>4. CASE UNCHANGED vars
  BY <1>4 DEF vars, IInv, TypeOK, Aims, Copies, Leaving, Target
<1> QED
  BY <1>1, <1>2, <1>3, <1>4 DEF Next

LEMMA Kept == IInv => NothingLost
BY DEF IInv, Copies, NothingLost, Stored, TypeOK, Buckets

(***************************************************************************)
(* Whatever was written is somewhere in the bucket until it is written     *)
(* over or removed on demand, with any number of callers, folders, names   *)
(* and keys in a page, whichever requests fail, are carried out without an *)
(* answer or are the last of their process, unless something is stored at  *)
(* a key between its copy and its deletion.                                *)
(***************************************************************************)
THEOREM NothingIsLost == Spec => []NothingLost
<1>1. Spec => []IInv
  BY InitInv, Inductive, PTL DEF Spec
<1> QED
  BY <1>1, Kept, PTL

-----------------------------------------------------------------------------
(***************************************************************************)
(* What a call reports.  Honest says of a call c in progress, the bucket h *)
(* it began with and the bucket o of now, key by key, how far it has come: *)
(* what is still to be done is as it was, and what is done is done.        *)
(***************************************************************************)

\* A call works on finitely many keys, and a rename on two sets that are disjoint.
Shaped(c) ==
    /\ IsFiniteSet(c.from)
    /\ c.op = "move" =>
          /\ \A k \in c.from : Target(c, k) \notin c.from
          /\ \A k, l \in c.from : Target(c, k) = Target(c, l) => k = l

\* The pages so far have shown all that is there, up to the last name on them.
Listed(c, o) == c.pc = "list" => \A k \in c.from : o[k] # 0 /\ k[2] <= c.after => k \in c.todo

Untouched(c, h, o, k) == o[k] = h[k] /\ o[Target(c, k)] = h[Target(c, k)]
Halfway(c, h, o, k)   == o[k] = h[k] /\ h[k] # 0 /\ o[Target(c, k)] = h[k]
Done(c, h, o, k)      == /\ o[k] = 0
                         /\ o[Target(c, k)] = IF h[k] = 0 THEN h[Target(c, k)] ELSE h[k]

Progress(c, h, o, k) ==
    IF k \notin c.todo THEN Done(c, h, o, k)
    ELSE IF c.pc = "delete" /\ k = c.at THEN Halfway(c, h, o, k)
    ELSE Untouched(c, h, o, k)

Moving(c, h, o) ==
    c.op = "move" =>
        /\ c.pc = "list" => \A k \in c.from : Untouched(c, h, o, k)
        /\ c.pc \in {"copy", "delete", "ok"} => \A k \in c.from : Progress(c, h, o, k)
        /\ c.pc = "ok" => c.todo = {}

Removing(c, o) ==
    c.op = "remove" =>
        /\ c.pc # "copy"
        /\ c.pc \in {"delete", "ok", "failed"} =>
              \A k \in c.from : o[k] # 0 => k \in c.todo \cup c.lost

Honest(c, h, o) == Listed(c, o) /\ Moving(c, h, o) /\ Removing(c, o)

Reports == \A p \in Callers :
              Shaped(call[p]) /\ (~touched[p] => Honest(call[p], held[p], obj))

-----------------------------------------------------------------------------
\* Nothing is said of a bucket beyond what the call works on.
LEMMA ScopeOnly ==
    ASSUME NEW c, NEW h, NEW o1, NEW o2, \A l \in Scope(c) : o2[l] = o1[l], Honest(c, h, o1)
    PROVE  Honest(c, h, o2)
<1>1. \A k \in c.from : o2[k] = o1[k]
  BY DEF Scope
<1>2. c.op = "move" => \A k \in c.from : o2[Target(c, k)] = o1[Target(c, k)]
  BY DEF Scope, Targets
<1>3. Listed(c, o2) /\ Removing(c, o2)
  BY <1>1 DEF Honest, Listed, Removing
<1>4. c.op = "move" => \A k \in c.from :
          /\ Untouched(c, h, o1, k) => Untouched(c, h, o2, k)
          /\ Progress(c, h, o1, k) => Progress(c, h, o2, k)
  BY <1>1, <1>2 DEF Untouched, Progress, Halfway, Done
<1>5. Moving(c, h, o2)
  BY <1>4 DEF Honest, Moving
<1> QED
  BY <1>3, <1>5 DEF Honest

\* A request of somebody else that changes what a call works on marks the call.
LEMMA OthersHonest ==
    ASSUME IInv, NEW q \in Callers, NEW p, p # q, NEW k \in Keys, NEW v \in Contents,
           Put(p, k, v), ~touched'[q], ~touched[q] => Honest(call[q], held[q], obj)
    PROVE  Honest(call[q], held[q], obj')
<1>1. /\ ~touched[q]
      /\ ~(call[q].pc # "idle" /\ k \in Scope(call[q]) /\ obj[k] # v)
  BY DEF Put
<1>2. /\ obj' = [obj EXCEPT ![k] = v] /\ obj \in [Keys -> Contents]
  BY DEF Put, IInv, TypeOK, Buckets
<1>3. CASE call[q].pc = "idle"
  BY <1>3 DEF Honest, Listed, Moving, Removing
<1>4. CASE call[q].pc # "idle"
  <2>1. \A l \in Scope(call[q]) : obj'[l] = obj[l]
    <3>1. obj[k] = v => obj' = obj
      BY <1>2
    <3>2. obj[k] # v => k \notin Scope(call[q])
      BY <1>1, <1>4
    <3>3. \A l \in Scope(call[q]) : l \in Keys
      BY TargetsAreKeys DEF IInv, TypeOK, Scope, Targets, Call
    <3> QED
      BY <1>2, <3>1, <3>2, <3>3
  <2> QED
    BY <1>1, <2>1, ScopeOnly
<1> QED
  BY <1>3, <1>4

\* A step of a call keeps every report if it keeps its own.
LEMMA ReportsStep ==
    ASSUME IInv, Reports, NEW p \in Callers, NEW d \in Call,
           call' = [call EXCEPT ![p] = d],
           <<d.op, d.from, d.to, d.as>>
               = <<call[p].op, call[p].from, call[p].to, call[p].as>>,
           held' = held,
           NoPut \/ \E k \in Keys, v \in Contents : Put(p, k, v),
           Honest(call[p], held[p], obj) => Honest(d, held[p], obj')
    PROVE  Reports'
<1>1. call'[p] = d /\ \A q \in Callers \ {p} : call'[q] = call[q]
  BY DEF IInv, TypeOK
<1>2. touched'[p] = touched[p]
  BY DEF Put, NoPut, IInv, TypeOK
<1>3. Shaped(d)
  BY DEF Reports, Shaped, Target
<1>4. ~touched'[p] => Honest(call'[p], held'[p], obj')
  BY <1>1, <1>2 DEF Reports
<1>5. ASSUME NEW q \in Callers, q # p, ~touched'[q] PROVE Honest(call'[q], held'[q], obj')
  <2>1. ~touched[q] => Honest(call[q], held[q], obj)
    BY DEF Reports
  <2>2. call'[q] = call[q] /\ held'[q] = held[q]
    BY <1>1, <1>5
  <2>3. CASE NoPut
    BY <1>5, <2>1, <2>2, <2>3 DEF NoPut
  <2>4. CASE \E k \in Keys, v \in Contents : Put(p, k, v)
    BY <1>5, <2>1, <2>2, <2>4, OthersHonest
  <2> QED
    BY <2>3, <2>4
<1>6. \A q \in Callers : Shaped(call'[q])
  BY <1>1, <1>3 DEF Reports
<1>7. \A q \in Callers : ~touched'[q] => Honest(call'[q], held'[q], obj')
  BY <1>4, <1>5
<1> QED
  BY <1>6, <1>7 DEF Reports, Shaped, Target

-----------------------------------------------------------------------------
(* The listing.  A page is the beginning, in the order of names, of what is *)
(* left, so nothing up to its last name is missing on it.                   *)
LEMMA PageIsBeginning ==
    ASSUME NEW S, IsFiniteSet(S), NEW after, PageSize \in Nat,
           NEW k \in Left(S, after), NEW l \in Page(S, after),
           k[2] \in Nat, l[2] \in Nat, k[2] <= l[2], \A m \in S : m[2] \in Nat
    PROVE  k \in Page(S, after)
<1> DEFINE Before(x) == {m \in Left(S, after) : m[2] < x[2]}
<1>1. Before(k) \subseteq Before(l)
  BY DEF Left
<1>2. IsFiniteSet(Before(l))
  <2>1. Before(l) \subseteq S
    BY DEF Left
  <2> HIDE DEF Before
  <2> QED
    BY <2>1, FS_Subset
<1>3. /\ IsFiniteSet(Before(k)) /\ Cardinality(Before(k)) <= Cardinality(Before(l))
      /\ Cardinality(Before(k)) \in Nat /\ Cardinality(Before(l)) \in Nat
  <2> HIDE DEF Before
  <2> QED
    BY <1>1, <1>2, FS_Subset, FS_CardinalityType
<1>4. Cardinality(Before(l)) < PageSize
  BY DEF Page
<1>5. Cardinality(Before(k)) < PageSize
  <2> HIDE DEF Before
  <2> QED
    BY <1>3, <1>4
<1> QED
  BY <1>5 DEF Page

LEMMA ListReports == ASSUME IInv, Reports, NEW p \in Callers, List(p) PROVE Reports'
<1> DEFINE c    == call[p]
           page == Page(c.from, c.after)
<1>1. /\ c \in Call /\ c.todo \subseteq c.from /\ page \subseteq Left(c.from, c.after)
      /\ Left(c.from, c.after) \subseteq c.from /\ page \subseteq c.from
      /\ c.from \subseteq Keys /\ c.after \in Nat /\ c.op \in {"move", "remove"}
  BY DEF IInv, TypeOK, Page, Left, Call
<1>2. NoPut /\ UNCHANGED <<writes, begun, held, replaced>> /\ c.pc = "list" /\ obj' = obj
  BY DEF List, NoPut
<1>n. /\ \A k \in Keys : k[2] \in Names /\ k[2] \in Nat
      /\ IsFiniteSet(c.from) /\ PageSize \in Nat
  BY Shapes, FolderAssumption DEF Reports, Shaped
<1>l. Left(c.from, c.after) = {k \in c.from : obj[k] # 0 /\ k[2] > c.after}
  BY DEF Left
<1>3. CASE /\ page = Left(c.from, c.after)
           /\ call' = [call EXCEPT ![p] =
                  [c EXCEPT !.pc = Goes(c), !.after = 0, !.todo = @ \cup page]]
  <2> DEFINE d == [c EXCEPT !.pc = Goes(c), !.after = 0, !.todo = @ \cup page]
  <2>1. /\ d \in Call /\ d.pc = Goes(c) /\ d.todo = c.todo \cup page /\ d.lost = c.lost
        /\ <<d.op, d.from, d.to, d.as>> = <<c.op, c.from, c.to, c.as>>
    BY <1>1 DEF Call, Goes
  <2>2. call' = [call EXCEPT ![p] = d]
    BY <1>3
  <2> HIDE DEF d
  <2>3. ASSUME Honest(c, held[p], obj) PROVE Honest(d, held[p], obj)
    <3>1. \A k \in c.from : obj[k] # 0 => k \in d.todo
      <4>1. \A k \in c.from : obj[k] # 0 /\ k[2] <= c.after => k \in c.todo
        BY <1>2, <2>3 DEF Honest, Listed
      <4>2. \A k \in c.from : k[2] <= c.after \/ k[2] > c.after
        BY <1>1, <1>n
      <4> QED
        BY <1>3, <1>l, <2>1, <4>1, <4>2
    <3>2. Listed(d, obj) /\ Removing(d, obj)
      BY <2>1, <3>1 DEF Listed, Removing, Goes
    <3>3. ASSUME d.op = "move" PROVE d.pc = "copy" /\ \A k \in d.from : Progress(d, held[p], obj, k)
      <4>1. d.pc = "copy"
        BY <2>1, <3>3 DEF Goes
      <4>2. ASSUME NEW k \in d.from PROVE Progress(d, held[p], obj, k)
        <5>1. Untouched(c, held[p], obj, k)
          BY <1>2, <2>1, <2>3, <3>3 DEF Honest, Moving
        <5>2. Untouched(d, held[p], obj, k)
          BY <2>1, <5>1 DEF Untouched, Target
        <5>3. k \notin d.todo => obj[k] = 0
          BY <2>1, <3>1
        <5> QED
          BY <4>1, <5>2, <5>3 DEF Progress, Untouched, Done
      <4> QED
        BY <4>1, <4>2
    <3> QED
      BY <3>2, <3>3 DEF Honest, Moving
  <2> QED
    BY <1>2, <2>1, <2>2, <2>3, ReportsStep
<1>4. CASE \E n \in Names :
              /\ IsLast(n, page)
              /\ call' = [call EXCEPT ![p] = [c EXCEPT !.after = n, !.todo = @ \cup page]]
  <2>1. PICK n \in Names :
            /\ IsLast(n, page)
            /\ call' = [call EXCEPT ![p] = [c EXCEPT !.after = n, !.todo = @ \cup page]]
    BY <1>4
  <2> DEFINE d == [c EXCEPT !.after = n, !.todo = @ \cup page]
  <2>2. /\ d \in Call /\ d.pc = "list" /\ d.after = n /\ d.todo = c.todo \cup page
        /\ <<d.op, d.from, d.to, d.as>> = <<c.op, c.from, c.to, c.as>>
    BY <1>1, <1>2, Shapes DEF Call
  <2>3. call' = [call EXCEPT ![p] = d]
    BY <2>1
  <2> HIDE DEF d
  <2>4. PICK l \in page : l[2] = n
    BY <2>1 DEF IsLast
  <2>5. ASSUME Honest(c, held[p], obj) PROVE Honest(d, held[p], obj)
    <3>1. ASSUME NEW k \in c.from, obj[k] # 0, k[2] <= n PROVE k \in d.todo
      <4>1. CASE k[2] <= c.after
        BY <1>2, <2>2, <2>5, <3>1, <4>1 DEF Honest, Listed
      <4>2. CASE k[2] > c.after
        <5>1. k \in Left(c.from, c.after)
          BY <1>l, <3>1, <4>2
        <5>2. k \in page
          BY <1>1, <1>n, <2>4, <3>1, <5>1, PageIsBeginning
        <5> QED
          BY <2>2, <5>2
      <4> QED
        BY <1>1, <1>n, <4>1, <4>2
    <3>2. Listed(d, obj) /\ Removing(d, obj)
      BY <2>2, <3>1 DEF Listed, Removing
    <3>3. Moving(d, held[p], obj)
      BY <1>2, <2>2, <2>5 DEF Honest, Moving, Untouched, Target
    <3> QED
      BY <3>2, <3>3 DEF Honest
  <2> QED
    BY <1>2, <2>2, <2>3, <2>5, ReportsStep
<1>5. \/ /\ page = Left(c.from, c.after)
         /\ call' = [call EXCEPT ![p] =
                [c EXCEPT !.pc = Goes(c), !.after = 0, !.todo = @ \cup page]]
      \/ \E n \in Names :
            /\ IsLast(n, page)
            /\ call' = [call EXCEPT ![p] = [c EXCEPT !.after = n, !.todo = @ \cup page]]
  BY Zenon DEF List
<1> QED
  BY <1>3, <1>4, <1>5

-----------------------------------------------------------------------------
(* The requests. *)

\* What a call's own request leaves.
LEMMA PutLeaves ==
    ASSUME IInv, NEW p, NEW k \in Keys, NEW v \in Contents, Put(p, k, v)
    PROVE  obj'[k] = v /\ \A l \in Keys : l # k => obj'[l] = obj[l]
BY PutTyped DEF IInv, TypeOK, Buckets

\* A rename that has failed, and a removal that has, claim no more than before.
LEMMA CopyFailsReports ==
    ASSUME IInv, Reports, NEW p \in Callers, NEW k \in Keys, CopyFails(p, k) PROVE Reports'
<1> DEFINE c == call[p]
           d == [c EXCEPT !.pc = "failed"]
<1>1. c \in Call /\ c.todo \subseteq c.from /\ k \in c.todo /\ c.pc = "copy"
  BY DEF IInv, TypeOK, CopyFails, IsNext
<1>2. call' = [call EXCEPT ![p] = d] /\ held' = held
  BY DEF CopyFails, Ends, IInv, TypeOK
<1>3. /\ d \in Call /\ d.pc = "failed"
      /\ <<d.op, d.from, d.to, d.as>> = <<c.op, c.from, c.to, c.as>>
  BY <1>1 DEF Call
<1>4. Target(c, k) \in Keys /\ obj[k] \in Contents
  BY <1>1, TargetsAreKeys DEF IInv, TypeOK, Buckets
<1>5. NoPut \/ \E l \in Keys, v \in Contents : Put(p, l, v)
  BY <1>4 DEF CopyFails
<1> HIDE DEF d
<1>6. Honest(c, held[p], obj) => Honest(d, held[p], obj')
  BY <1>1, <1>3 DEF Honest, Listed, Moving, Removing
<1> QED
  BY <1>2, <1>3, <1>5, <1>6, ReportsStep

LEMMA DeleteOldFailsReports ==
    ASSUME IInv, Reports, NEW p \in Callers, DeleteOldFails(p) PROVE Reports'
<1> DEFINE c == call[p]
           d == [c EXCEPT !.pc = "failed"]
<1>1. c \in Call /\ c.todo \subseteq c.from /\ c.at \in c.todo /\ c.op = "move"
  BY DEF IInv, TypeOK, DeleteOldFails
<1>2. call' = [call EXCEPT ![p] = d] /\ held' = held
  BY DEF DeleteOldFails, Ends, IInv, TypeOK
<1>3. /\ d \in Call /\ d.pc = "failed"
      /\ <<d.op, d.from, d.to, d.as>> = <<c.op, c.from, c.to, c.as>>
  BY <1>1 DEF Call
<1>4. c.at \in Keys /\ 0 \in Contents
  BY <1>1, Shapes DEF Call
<1>5. NoPut \/ \E l \in Keys, v \in Contents : Put(p, l, v)
  BY <1>4 DEF DeleteOldFails
<1> HIDE DEF d
<1>6. Honest(c, held[p], obj) => Honest(d, held[p], obj')
  BY <1>1, <1>3 DEF Honest, Listed, Moving, Removing
<1> QED
  BY <1>2, <1>3, <1>5, <1>6, ReportsStep

\* The copy is what was under the old name when the call began.
LEMMA CopyReports ==
    ASSUME IInv, Reports, NEW p \in Callers, NEW k \in Keys, Copy(p, k) PROVE Reports'
<1> DEFINE c == call[p]
           d == [c EXCEPT !.pc = "delete", !.at = k]
           h == held[p]
<1>1. c \in Call /\ c.todo \subseteq c.from /\ k \in c.todo /\ c.pc = "copy"
  BY DEF IInv, TypeOK, Copy, IsNext
<1>2. call' = [call EXCEPT ![p] = d] /\ held' = held /\ obj[k] # 0
  BY DEF Copy
<1>3. /\ d \in Call /\ d.pc = "delete" /\ d.at = k /\ d.todo = c.todo /\ d.lost = c.lost
      /\ <<d.op, d.from, d.to, d.as>> = <<c.op, c.from, c.to, c.as>>
  BY <1>1 DEF Call
<1>4. Target(c, k) \in Keys /\ obj[k] \in Contents /\ c.from \subseteq Keys
  BY <1>1, TargetsAreKeys DEF IInv, TypeOK, Buckets, Call
<1>5. Put(p, Target(c, k), obj[k])
  BY DEF Copy
<1>6. /\ obj'[Target(c, k)] = obj[k]
      /\ \A l \in Keys : l # Target(c, k) => obj'[l] = obj[l]
  BY <1>4, <1>5, PutLeaves
<1> HIDE DEF d
<1>7. ASSUME Honest(c, h, obj) PROVE Honest(d, h, obj')
  <2>1. c.op = "move"
    BY <1>1, <1>7 DEF Honest, Removing, Call
  <2>2. \A l \in c.from : Progress(c, h, obj, l)
    BY <1>1, <1>7, <2>1 DEF Honest, Moving
  <2>3. ASSUME NEW l \in c.from PROVE Progress(d, h, obj', l)
    <3>1. /\ Target(c, l) \in Keys /\ Target(c, l) # l /\ l # Target(c, k)
          /\ Target(d, l) = Target(c, l)
          /\ l # k => Target(c, l) # Target(c, k)
      BY <1>1, <1>3, <1>4, <2>1, TargetsAreKeys DEF Reports, Shaped, Target
    <3>2. obj'[l] = obj[l]
      BY <1>4, <1>6, <3>1
    <3>3. CASE l = k
      <4>1. Untouched(c, h, obj, k)
        BY <1>1, <2>2 DEF Progress
      <4> QED
        BY <1>1, <1>2, <1>3, <1>6, <3>1, <3>2, <3>3, <4>1 DEF Progress, Halfway, Untouched
    <3>4. CASE l # k
      <4>1. obj'[Target(c, l)] = obj[Target(c, l)]
        BY <1>6, <3>1, <3>4
      <4> QED
        BY <1>1, <1>3, <2>2, <3>1, <3>2, <3>4, <4>1 DEF Progress, Untouched, Done
    <3> QED
      BY <3>3, <3>4
  <2> QED
    BY <1>3, <2>1, <2>3 DEF Honest, Listed, Moving, Removing
<1>8. \E l \in Keys, v \in Contents : Put(p, l, v)
  BY <1>4, <1>5
<1> QED
  BY <1>2, <1>3, <1>7, <1>8, ReportsStep

\* What is deleted has been copied.
LEMMA DeleteOldReports ==
    ASSUME IInv, Reports, NEW p \in Callers, DeleteOld(p) PROVE Reports'
<1> DEFINE c == call[p]
           d == [c EXCEPT !.pc = "copy", !.at = None, !.todo = @ \ {c.at}]
           h == held[p]
<1>1. /\ c \in Call /\ c.todo \subseteq c.from /\ c.at \in c.todo
      /\ c.op = "move" /\ c.pc = "delete"
  BY DEF IInv, TypeOK, DeleteOld
<1>2. call' = [call EXCEPT ![p] = d] /\ held' = held /\ Put(p, c.at, 0)
  BY DEF DeleteOld
<1>3. /\ d \in Call /\ d.pc = "copy" /\ d.todo = c.todo \ {c.at}
      /\ <<d.op, d.from, d.to, d.as>> = <<c.op, c.from, c.to, c.as>>
  BY <1>1 DEF Call
<1>4. c.at \in Keys /\ 0 \in Contents /\ c.from \subseteq Keys
  BY <1>1, Shapes DEF Call
<1>6. obj'[c.at] = 0 /\ \A l \in Keys : l # c.at => obj'[l] = obj[l]
  BY <1>2, <1>4, PutLeaves
<1> HIDE DEF d
<1>7. ASSUME Honest(c, h, obj) PROVE Honest(d, h, obj')
  <2>2. \A l \in c.from : Progress(c, h, obj, l)
    BY <1>1, <1>7 DEF Honest, Moving
  <2>3. ASSUME NEW l \in c.from PROVE Progress(d, h, obj', l)
    <3>1. /\ Target(c, l) \in Keys /\ Target(c, l) # c.at /\ Target(d, l) = Target(c, l)
      BY <1>1, <1>3, <1>4, TargetsAreKeys DEF Reports, Shaped, Target
    <3>2. obj'[Target(c, l)] = obj[Target(c, l)]
      BY <1>6, <3>1
    <3>3. CASE l = c.at
      <4>1. Halfway(c, h, obj, l)
        BY <1>1, <2>2, <3>3 DEF Progress
      <4> QED
        BY <1>3, <1>6, <3>1, <3>2, <3>3, <4>1 DEF Progress, Halfway, Done
    <3>4. CASE l # c.at
      <4>1. obj'[l] = obj[l]
        BY <1>4, <1>6, <3>4
      <4> QED
        BY <1>3, <2>2, <3>1, <3>2, <3>4, <4>1 DEF Progress, Untouched, Done
    <3> QED
      BY <3>3, <3>4
  <2> QED
    BY <1>1, <1>3, <2>3 DEF Honest, Listed, Moving, Removing
<1>8. \E l \in Keys, v \in Contents : Put(p, l, v)
  BY <1>2, <1>4
<1> QED
  BY <1>2, <1>3, <1>7, <1>8, ReportsStep

\* A key is struck off the list when it is gone or counted as lost.
LEMMA RemoveReports ==
    ASSUME IInv, Reports, NEW p \in Callers, NEW k \in Keys, Remove(p, k) \/ RemoveFails(p, k)
    PROVE  Reports'
<1> DEFINE c == call[p]
           h == held[p]
<1>1. c \in Call /\ c.op = "remove" /\ c.pc = "delete" /\ held' = held /\ c.from \subseteq Keys
  BY DEF IInv, TypeOK, Remove, RemoveFails, Call
<1>2. PICK l \in {c.lost, c.lost \cup {k}} :
          /\ call' = [call EXCEPT ![p] = [c EXCEPT !.todo = @ \ {k}, !.lost = l]]
          /\ k \in l \/ Put(p, k, 0)
          /\ NoPut \/ Put(p, k, 0)
  <2>1. CASE Remove(p, k)
    <3>1. call' = [call EXCEPT ![p] = [c EXCEPT !.todo = @ \ {k}, !.lost = c.lost]]
      BY <1>1, <2>1 DEF Remove, IInv, TypeOK, Call
    <3> QED
      BY <2>1, <3>1 DEF Remove
  <2>2. CASE RemoveFails(p, k)
    BY <2>2 DEF RemoveFails
  <2> QED
    BY <2>1, <2>2
<1> DEFINE d == [c EXCEPT !.todo = @ \ {k}, !.lost = l]
<1>3. /\ d \in Call /\ d.pc = "delete" /\ d.todo = c.todo \ {k} /\ d.lost = l
      /\ <<d.op, d.from, d.to, d.as>> = <<c.op, c.from, c.to, c.as>>
  BY <1>1 DEF Call
<1>4. call' = [call EXCEPT ![p] = d]
  BY <1>2
<1> HIDE DEF d
<1>5. 0 \in Contents
  BY Shapes
<1>6. /\ \A m \in Keys : m # k => obj'[m] = obj[m]
      /\ k \in l \/ obj'[k] = 0
  BY <1>2, <1>5, PutLeaves DEF NoPut
<1>7. Honest(c, h, obj) => Honest(d, h, obj')
  BY <1>1, <1>2, <1>3, <1>6 DEF Honest, Listed, Moving, Removing
<1> QED
  BY <1>1, <1>2, <1>3, <1>4, <1>5, <1>7, ReportsStep

\* The end of a call: all that was to be done is done, or a failure is reported.
LEMMA EndReports ==
    ASSUME IInv, Reports, NEW p \in Callers, ListFails(p) \/ Moved(p) \/ Removed(p)
    PROVE  Reports'
<1> DEFINE c == call[p]
           h == held[p]
<1>1. /\ c \in Call /\ held' = held /\ NoPut /\ obj' = obj /\ c.op \in {"move", "remove"}
  BY DEF IInv, TypeOK, ListFails, Moved, Removed, NoPut, Call
<1>2. CASE ListFails(p)
  <2> DEFINE d == [c EXCEPT !.pc = "failed", !.lost = c.from]
  <2>1. /\ d \in Call /\ d.pc = "failed" /\ d.lost = c.from
        /\ <<d.op, d.from, d.to, d.as>> = <<c.op, c.from, c.to, c.as>>
    BY <1>1 DEF Call
  <2>2. call' = [call EXCEPT ![p] = d]
    BY <1>2 DEF ListFails
  <2> HIDE DEF d
  <2>3. Honest(d, h, obj')
    BY <2>1 DEF Honest, Listed, Moving, Removing
  <2> QED
    BY <1>1, <2>1, <2>2, <2>3, ReportsStep
<1>3. ASSUME NEW r \in {"ok", "failed"}, Ends(p, r), c.todo = {},
             \/ c.pc = "copy" /\ r = "ok"
             \/ c.op = "remove" /\ c.pc = "delete"
      PROVE  Reports'
  <2> DEFINE d == [c EXCEPT !.pc = r]
  <2>1. /\ d \in Call /\ d.pc = r /\ d.todo = c.todo /\ d.lost = c.lost
        /\ <<d.op, d.from, d.to, d.as>> = <<c.op, c.from, c.to, c.as>>
    BY <1>1 DEF Call
  <2>2. call' = [call EXCEPT ![p] = d]
    BY <1>3 DEF Ends, IInv, TypeOK
  <2> HIDE DEF d
  <2>3. ASSUME Honest(c, h, obj), c.op = "move" PROVE \A k \in c.from : Progress(d, h, obj, k)
    <3>1. \A k \in c.from : Progress(c, h, obj, k)
      BY <1>3, <2>3 DEF Honest, Moving
    <3> QED
      BY <1>3, <2>1, <3>1 DEF Progress, Done, Target
  <2>4. Honest(c, h, obj) => Honest(d, h, obj)
    BY <1>1, <1>3, <2>1, <2>3 DEF Honest, Listed, Moving, Removing
  <2> QED
    BY <1>1, <2>1, <2>2, <2>4, ReportsStep
<1> QED
  BY <1>1, <1>2, <1>3 DEF Moved, Removed

-----------------------------------------------------------------------------
(* Beginning and returning, and writes of others. *)

\* A step that puts call p into a state of its own and leaves the bucket alone.
LEMMA ReportsReset ==
    ASSUME IInv, Reports, NEW p \in Callers, NEW c \in Call, NEW h \in Buckets,
           call' = [call EXCEPT ![p] = c], held' = [held EXCEPT ![p] = h],
           touched' = [touched EXCEPT ![p] = FALSE], obj' = obj,
           Shaped(c), Honest(c, h, obj)
    PROVE  Reports'
<1>1. /\ call'[p] = c /\ held'[p] = h
      /\ \A q \in Callers \ {p} : /\ call'[q] = call[q] /\ held'[q] = held[q]
                                 /\ touched'[q] = touched[q]
  BY DEF IInv, TypeOK
<1>2. \A q \in Callers : Shaped(call'[q])
  BY <1>1 DEF Reports
<1>3. \A q \in Callers : ~touched'[q] => Honest(call'[q], held'[q], obj')
  BY <1>1 DEF Reports
<1> QED
  BY <1>2, <1>3 DEF Reports, Shaped, Target

LEMMA FolderIsFinite == \A f \in Folders : IsFiniteSet(Under(f))
<1> SUFFICES ASSUME NEW f \in Folders PROVE IsFiniteSet({f} \X Names)
  BY DEF Under
<1>1. IsFiniteSet(Names)
  BY FolderAssumption, FS_Interval DEF Names
<1>2. IsFiniteSet({f})
  BY FS_Singleton
<1> QED
  BY <1>1, <1>2, FS_Product

LEMMA BeginReports ==
    ASSUME IInv, Reports, NEW p \in Callers,
           \/ \E f, g \in Folders : RenameFolder(p, f, g)
           \/ \E k \in Keys, n \in Names : RenameFile(p, k, n)
           \/ \E f \in Folders : RemoveFolder(p, f)
    PROVE  Reports'
<1>0. obj \in Buckets
  BY DEF IInv, TypeOK
<1>1. ASSUME NEW c \in Call, Begin(p, c), Shaped(c), Honest(c, obj, obj) PROVE Reports'
  BY <1>0, <1>1, ReportsReset DEF Begin
<1>2. ASSUME NEW f \in Folders, NEW g \in Folders, RenameFolder(p, f, g) PROVE Reports'
  <2> DEFINE c == [Idle EXCEPT !.pc = "list", !.from = Under(f), !.to = g]
  <2>1. /\ c \in Call /\ c.pc = "list" /\ c.op = "move" /\ c.after = 0
        /\ c.from = Under(f) /\ c.to = g /\ c.as = Same
    BY Shapes DEF Idle, Call
  <2>2. Begin(p, c) /\ f # g
    BY <1>2 DEF RenameFolder
  <2> HIDE DEF c
  <2>3. \A k \in c.from : /\ Target(c, k) = <<g, k[2]>> /\ k = <<f, k[2]>>
                         /\ k[2] \in Nat /\ k[2] > 0
    BY <2>1, Shapes DEF Target, Under, Names
  <2>4. Shaped(c)
    <3>1. IsFiniteSet(c.from)
      BY <2>1, FolderIsFinite
    <3>2. \A k \in c.from : Target(c, k) \notin c.from
      BY <2>1, <2>2, <2>3, Shapes
    <3>3. \A k, l \in c.from : Target(c, k) = Target(c, l) => k = l
      BY <2>3
    <3> QED
      BY <3>1, <3>2, <3>3 DEF Shaped
  <2>5. Honest(c, obj, obj)
    BY <2>1, <2>3 DEF Honest, Listed, Moving, Removing, Untouched
  <2> QED
    BY <1>1, <2>1, <2>2, <2>4, <2>5
<1>3. ASSUME NEW k \in Keys, NEW n \in Names, RenameFile(p, k, n) PROVE Reports'
  <2> DEFINE c == [Idle EXCEPT !.pc = "copy", !.from = {k}, !.to = k[1], !.as = n,
                               !.todo = {k}]
  <2>1. /\ c \in Call /\ c.pc = "copy" /\ c.op = "move"
        /\ c.from = {k} /\ c.to = k[1] /\ c.as = n /\ c.todo = {k}
    BY Shapes DEF Idle, Call
  <2>2. Begin(p, c) /\ k[2] # n
    BY <1>3 DEF RenameFile
  <2> HIDE DEF c
  <2>3. Target(c, k)[2] = n
    BY <2>1, Shapes DEF Target
  <2>4. Shaped(c)
    BY <2>1, <2>2, <2>3, FS_Singleton DEF Shaped
  <2>5. Honest(c, obj, obj)
    BY <2>1 DEF Honest, Listed, Moving, Removing, Progress, Untouched
  <2> QED
    BY <1>1, <2>1, <2>2, <2>4, <2>5
<1>4. ASSUME NEW f \in Folders, RemoveFolder(p, f) PROVE Reports'
  <2> DEFINE c == [Idle EXCEPT !.pc = "list", !.op = "remove", !.from = Under(f)]
  <2>1. /\ c \in Call /\ c.pc = "list" /\ c.op = "remove" /\ c.after = 0
        /\ c.from = Under(f)
    BY Shapes DEF Idle, Call
  <2>2. Begin(p, c)
    BY <1>4 DEF RemoveFolder
  <2> HIDE DEF c
  <2>3. \A k \in c.from : k[2] \in Nat /\ k[2] > 0
    BY <2>1, Shapes DEF Under, Names
  <2>4. Shaped(c)
    BY <2>1, FolderIsFinite DEF Shaped
  <2>5. Honest(c, obj, obj)
    BY <2>1, <2>3 DEF Honest, Listed, Moving, Removing
  <2> QED
    BY <1>1, <2>1, <2>2, <2>4, <2>5
<1> QED
  BY <1>2, <1>3, <1>4

LEMMA IdleReports == Shaped(Idle) /\ \A h, o : Honest(Idle, h, o)
<1>1. Idle.pc = "idle" /\ Idle.from = {}
  BY DEF Idle
<1> QED
  BY <1>1, FS_EmptySet DEF Shaped, Honest, Listed, Moving, Removing

LEMMA ReportsNext == IInv /\ Reports /\ [Next]_vars => Reports'
<1> SUFFICES ASSUME IInv, Reports, [Next]_vars PROVE Reports'
  OBVIOUS
<1>1. CASE \E p \in Callers :
              \/ \E f, g \in Folders : RenameFolder(p, f, g)
              \/ \E k \in Keys, n \in Names : RenameFile(p, k, n)
              \/ \E f \in Folders : RemoveFolder(p, f)
  BY <1>1, BeginReports
<1>2. CASE \E p \in Callers : CallStep(p)
  BY <1>2, ListReports, EndReports, DeleteOldReports, DeleteOldFailsReports, CopyReports,
     CopyFailsReports, RemoveReports DEF CallStep
<1>3. CASE \E p \in Callers : Returns(p)
  BY <1>3, IdleReports, ReportsReset, Shapes DEF Returns
<1>4. ASSUME NEW k \in Keys, Write(k) PROVE Reports'
  <2>1. writes + 1 \in Contents
    BY <1>4, FolderAssumption DEF Write, IInv, TypeOK, Contents
  <2>2. Put(None, k, writes + 1) /\ UNCHANGED <<call, held>>
    BY <1>4 DEF Write
  <2>3. ASSUME NEW q \in Callers, ~touched'[q] PROVE Honest(call'[q], held'[q], obj')
    <3>1. None # q
      BY Shapes
    <3>2. ~touched[q] => Honest(call[q], held[q], obj)
      BY DEF Reports
    <3> QED
      BY <2>1, <2>2, <2>3, <3>1, <3>2, OthersHonest
  <2>4. \A q \in Callers : ~touched'[q] => Honest(call'[q], held'[q], obj')
    BY <2>3
  <2> QED
    BY <2>2, <2>4 DEF Reports, Shaped, Target
<1>5. CASE UNCHANGED vars
  BY <1>5 DEF vars, Reports, Shaped, Target
<1> QED
  BY <1>1, <1>2, <1>3, <1>4, <1>5 DEF Next

\* What the invariant says of a call that has ended is what it reports.
LEMMA HonestIsTrue == IInv /\ Reports => ReportIsTrue
<1> SUFFICES ASSUME IInv, Reports, NEW p \in Callers, ~touched[p]
             PROVE  MovedWhole(p) /\ RemovalReported(p)
  BY DEF IInv, ReportIsTrue
<1> DEFINE c == call[p]
           h == held[p]
<1>1. Honest(c, h, obj) /\ Shaped(c)
  BY DEF Reports
<1>2. MovedWhole(p)
  <2> SUFFICES ASSUME c.op = "move", c.pc = "ok"
               PROVE  /\ \A k \in c.from : obj[k] = 0 \/ k \in Targets(c)
                      /\ \A k \in c.from : h[k] # 0 => obj[Target(c, k)] = h[k]
                      /\ \A k \in Targets(c) :
                            (\A l \in c.from : Target(c, l) = k => h[l] = 0) => obj[k] = h[k]
    BY DEF MovedWhole
  <2>1. \A k \in c.from : Done(c, h, obj, k)
    BY <1>1 DEF Honest, Moving, Progress
  <2>2. ASSUME NEW k \in Targets(c), \A l \in c.from : Target(c, l) = k => h[l] = 0
        PROVE  obj[k] = h[k]
    <3>1. PICK l \in c.from : k = Target(c, l)
      BY <2>2 DEF Targets
    <3> QED
      BY <2>1, <2>2, <3>1 DEF Done
  <2> QED
    BY <2>1, <2>2 DEF Done
<1>3. RemovalReported(p)
  BY <1>1 DEF Honest, Removing, RemovalReported
<1> QED
  BY <1>2, <1>3

(***************************************************************************)
(* A rename that succeeds has moved the folder whole and left alone what   *)
(* was not to be moved, and a removal that succeeds has left nothing,      *)
(* whichever requests failed before and however many pages the folder has, *)
(* as long as nobody else was at work there (winfsp_vfs.rs rename,         *)
(* cleanup, providers/s3.rs list_prefix).                                  *)
(***************************************************************************)
THEOREM ReportsAreTrue == Spec => []ReportIsTrue
<1>1. Init => Reports
  BY IdleReports, FS_EmptySet DEF Init, Reports
<1>2. Spec => []IInv
  BY InitInv, Inductive, PTL DEF Spec
<1> QED
  BY <1>1, <1>2, ReportsNext, HonestIsTrue, PTL DEF Spec
=============================================================================
