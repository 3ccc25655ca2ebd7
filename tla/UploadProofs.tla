---------------------------- MODULE UploadProofs ----------------------------
(***************************************************************************)
(* Parts are cut where they should be, and the object becomes what was     *)
(* written, for files of any length, parts of any size and any number of   *)
(* writes, uploads and tasks.                                              *)
(*                                                                         *)
(* The invariant says where each part lies in the file (Cuts), that every  *)
(* part that was cut is on its way, stored or failed (Placed), and, while  *)
(* nothing is written twice, that it holds what the file holds there       *)
(* (Kept).  The parts of a file that nobody holds any more and that did    *)
(* not fail are then, one after the other, the file (AssembledWhole).      *)
(*                                                                         *)
(* FlattenSeq, Max and Min of the community modules are recursive          *)
(* functions and choices: what they come to is proved first, from the      *)
(* least element of a set of numbers.                                      *)
(***************************************************************************)
EXTENDS UploadPipeline, WellFoundedInduction, SequenceTheorems, FiniteSetTheorems, TLAPS

-----------------------------------------------------------------------------
(* Induction, with a set in place of a predicate. *)

\* Every set of numbers has a least.
LEMMA LeastElement ==
    ASSUME NEW T, T \subseteq Nat, T # {}
    PROVE  \E x \in T : \A y \in T : x <= y
<1>1. PICK x \in T : \A y \in T : ~(<<y, x>> \in OpToRel(<, Nat))
  BY NatLessThanWellFounded, WFMin
<1>2. \A y \in T : ~(<<y, x>> \in {ss \in Nat \X Nat : ss[1] < ss[2]})
  BY <1>1 DEF OpToRel
<1>3. \A y \in T : ~(y < x)
  BY <1>2
<1> QED BY <1>3

\* Hence a set with 0 that has n + 1 along with n has all of them.
LEMMA Induction ==
    ASSUME NEW S, 0 \in S, \A n \in Nat : n \in S => n + 1 \in S
    PROVE  \A n \in Nat : n \in S
<1>1. SUFFICES ASSUME Nat \ S # {} PROVE FALSE
  OBVIOUS
<1>2. PICK x \in Nat \ S : \A y \in Nat \ S : x <= y
  BY <1>1, LeastElement
<1>3. x - 1 \in Nat /\ x - 1 \notin S
  BY <1>2
<1> QED BY <1>2, <1>3

\* Max of a bounded set is one of it, and the greatest.
LEMMA MaxIs ==
    ASSUME NEW N \in Nat, NEW S, S \subseteq 0..N, S # {}
    PROVE  Max(S) \in S /\ \A x \in S : x <= Max(S)
<1> DEFINE Above == {n \in Nat : \A x \in S : x <= n}
<1>1. N \in Above
  OBVIOUS
<1>2. PICK u \in Above : \A y \in Above : u <= y
  <2> HIDE DEF Above
  <2>1. Above \subseteq Nat
    BY DEF Above
  <2> QED BY <1>1, <2>1, LeastElement
<1>3. u \in S
  <2>1. SUFFICES ASSUME u \notin S PROVE FALSE
    OBVIOUS
  <2>2. \A x \in S : x \in Nat /\ x <= u /\ x # u
    BY <2>1
  <2>3. u \in Nat /\ u - 1 \in Nat
    <3>1. PICK x \in S : TRUE
      OBVIOUS
    <3>2. x \in Nat /\ x <= u /\ x # u /\ u \in Nat
      BY <2>2, <3>1
    <3> QED BY <3>2
  <2>4. \A x \in S : x <= u - 1
    BY <2>2
  <2>5. u - 1 \in Above /\ ~(u <= u - 1)
    BY <2>3, <2>4
  <2> QED BY <1>2, <2>5
<1>4. \E x \in S : \A y \in S : x >= y
  BY <1>3
<1>5. Max(S) \in S /\ \A y \in S : Max(S) >= y
  BY <1>4 DEF Max
<1> QED BY <1>5

\* Min is the least.
LEMMA MinIs ==
    ASSUME NEW S, S \subseteq Nat, S # {}
    PROVE  Min(S) \in S /\ \A x \in S : Min(S) <= x
BY LeastElement DEF Min

-----------------------------------------------------------------------------
(* What FlattenSeq makes of the pieces of a sequence. *)

\* The i-th of front is what the first i of s come to.
Joins(front, s, n) ==
    /\ n > 0 => front[1] = s[1]
    /\ \A i \in 1..n : i > 1 => front[i] = front[i - 1] \o s[i]

\* FlattenSeq comes to the last of them.
LEMMA Flattened ==
    ASSUME NEW n \in Nat, NEW s, Len(s) = n, n = 0 => s = <<>>,
           NEW F, NEW front \in [1..n -> F],
           Joins(front, s, n)
    PROVE  FlattenSeq(s) = IF n = 0 THEN <<>> ELSE front[n]
<1>1. CASE n = 0
  BY <1>1 DEF FlattenSeq
<1>2. CASE n > 0
  <2>0. front[1] = s[1] /\ \A i \in 1..n : i > 1 => front[i] = front[i - 1] \o s[i]
    BY <1>2 DEF Joins
  <2> DEFINE Step(f) == [i \in 1..Len(s) |-> IF i = 1 THEN s[i] ELSE f[i - 1] \o s[i]]
             Flat == CHOOSE f : f = Step(f)
             Same == {i \in Nat : i \in 1..n => Flat[i] = front[i]}
  <2>1. FlattenSeq(s) = Flat[n]
    <3> DEFINE flatten[i \in 1..Len(s)] == IF i = 1 THEN s[i] ELSE flatten[i - 1] \o s[i]
    <3>1. FlattenSeq(s) = flatten[Len(s)]
      BY <1>2 DEF FlattenSeq
    <3>2. flatten = Flat
      OBVIOUS
    <3> QED BY <3>1, <3>2
  <2>2. front = Step(front)
    <3>1. \A i \in 1..n : front[i] = IF i = 1 THEN s[i] ELSE front[i - 1] \o s[i]
      BY <1>2, <2>0
    <3>2. front = [i \in 1..n |-> front[i]]
      OBVIOUS
    <3> QED BY <3>1, <3>2
  <2>3. Flat = Step(Flat)
    <3> HIDE DEF Step
    <3> QED BY <2>2
  <2>4. \A i \in 1..n : Flat[i] = IF i = 1 THEN s[i] ELSE Flat[i - 1] \o s[i]
    <3> HIDE DEF Flat
    <3> QED BY <2>3
  <2> HIDE DEF Flat
  <2>5. ASSUME NEW i \in Nat, i \in Same PROVE i + 1 \in Same
    <3>1. i + 1 \in 1..n => Flat[i + 1] = IF i + 1 = 1 THEN s[i + 1] ELSE Flat[i] \o s[i + 1]
      BY <2>4
    <3>2. CASE i = 0
      BY <2>0, <3>1, <3>2
    <3>3. CASE i > 0 /\ i + 1 \in 1..n
      <4>1. i \in 1..n /\ i + 1 # 1 /\ (i + 1) - 1 = i /\ i + 1 \in Nat /\ i + 1 > 1
        BY <3>3
      <4>2. Flat[i] = front[i]
        BY <2>5, <4>1
      <4>3. front[i + 1] = front[(i + 1) - 1] \o s[i + 1]
        BY <2>0, <3>3, <4>1, Zenon
      <4>4. Flat[i + 1] = front[i + 1]
        BY <3>1, <3>3, <4>1, <4>2, <4>3, Zenon
      <4> QED BY <4>1, <4>4
    <3> QED BY <3>2, <3>3
  <2>6. 0 \in Same
    OBVIOUS
  <2>7. \A i \in Nat : i \in Same
    <3> HIDE DEF Same
    <3> QED BY <2>5, <2>6, Induction
  <2>8. Flat[n] = front[n]
    BY <1>2, <2>7
  <2> QED BY <1>2, <2>1, <2>8
<1> QED BY <1>1, <1>2

-----------------------------------------------------------------------------
(* The invariant. *)

\* Where part p of a file begins, and where it ends: the last one cut so far ends at
\* sent, which is short of a whole part only if cleanup cut it.
Start(p) == (p - 1) * PartTarget
End(p)   == IF p = nextPart - 1 THEN sent ELSE Start(p + 1)

Piece(p) == SubSeq(temp, Start(p) + 1, End(p))
Cut      == 1..(nextPart - 1)

States   == {"none", "open", "done", "aborted"}
PartMaps == UNION {[D -> Seq(Stamps)] : D \in SUBSET (Nat \ {0})}

Typed ==
    /\ TypeOK
    /\ mpu \in [Uploads -> [state : States, parts : PartMaps]]

\* A handle without a WriteState has its fields at their start, but while the upload that
\* its answer was lost of is given up.
Bare ==
    /\ temp = [i \in 1..MaxLen |-> 0] /\ size = 0
    /\ extents = {} /\ contig = 0
    /\ upload = 0 /\ sent = 0 /\ nextPart = 1 /\ completed = {}
    /\ failed = FALSE

Phases ==
    /\ ~live /\ pc # "abort" => Bare
    /\ pc \in {"dispatch", "loop", "flush", "flushLoop", "put", "drain", "complete"} => live
    /\ pc \in {"closed", "delete"} => ~live
    /\ pc \in {"flush", "flushLoop", "drain", "complete", "abort"} => upload # 0
    /\ pc = "drain" => sent = size
    /\ pc = "complete" => sent = size /\ ~failed /\ Mine = {}
    /\ \A i \in 1..MaxLen : temp[i] <= stamp

\* An upload that has tasks, or parts of this file, has been started.
Started ==
    /\ upload # 0 => mpu[upload].state # "none"
    /\ \A t \in tasks : mpu[t.upload].state # "none"

\* What has been cut off is whole parts, but for the tail.
Cuts ==
    /\ upload = 0 => nextPart = 1
    /\ sent <= size
    /\ nextPart = 1 => sent = 0
    /\ nextPart > 1 => Start(nextPart - 1) <= sent
    /\ \/ sent = Start(nextPart)
       \/ sent = size /\ pc \in {"flushLoop", "drain", "complete", "abort"}

\* The parts are where the cuts say: on their way, stored, or failed.
Placed ==
    /\ \A t \in Mine :
          /\ t.part \in Cut /\ t.off = Start(t.part) /\ t.len = End(t.part) - Start(t.part)
          /\ t.data # Unread => Len(t.data) = t.len
    /\ \A p \in completed :
          p \in DOMAIN mpu[upload].parts /\ Len(mpu[upload].parts[p]) = End(p) - Start(p)
    /\ failed \/ Cut \subseteq completed \cup {t.part : t \in Mine}

\* And they hold what the file holds there.
Kept ==
    /\ \A t \in Mine : t.data # Unread => t.data = Piece(t.part)
    /\ \A p \in completed : mpu[upload].parts[p] = Piece(p)

PartsInv == Typed /\ ExtentsExact /\ Phases /\ Started /\ Cuts /\ Placed /\ (~Rewrites => Kept)

-----------------------------------------------------------------------------
(* Facts about the constants, the cuts and the parts. *)

\* What the constants are.
LEMMA Constants ==
    /\ PartTarget \in Nat /\ PartTarget > 0
    /\ MaxLen \in Nat /\ MaxWrites \in Nat /\ MaxUploads \in Nat
    /\ Rewrites \in BOOLEAN /\ MayFail \in BOOLEAN
    /\ Missing \notin Seq(Stamps) /\ Unread \notin Seq(Stamps)
    /\ Stamps \subseteq Nat /\ 0 \in Stamps /\ Offsets = 0..MaxLen /\ 0 \notin Uploads
    /\ Uploads \subseteq Nat
<1>1. PartTarget \in Nat \ {0} /\ MaxLen \in Nat /\ MaxWrites \in Nat /\ MaxUploads \in Nat
  BY UploadAssumption
<1>2. Missing \notin Seq(Stamps) /\ Unread \notin Seq(Stamps)
  BY UploadAssumption
<1>3. Rewrites \in BOOLEAN /\ MayFail \in BOOLEAN
  BY UploadAssumption
<1> QED BY <1>1, <1>2, <1>3 DEF Stamps, Offsets, Uploads

\* The places where parts begin rise from 0.
LEMMA Starts ==
    /\ Start(1) = 0
    /\ \A p \in Nat \ {0} : Start(p) \in Nat /\ Start(p + 1) = Start(p) + PartTarget
    /\ \A p, q \in Nat \ {0} : p <= q => Start(p) <= Start(q)
<1>1. PartTarget \in Nat
  BY Constants
<1>2. Start(1) = 0
  BY <1>1 DEF Start
<1>3. ASSUME NEW p \in Nat \ {0} PROVE Start(p) \in Nat /\ Start(p + 1) = Start(p) + PartTarget
  BY <1>1 DEF Start
<1>4. ASSUME NEW p \in Nat \ {0}, NEW q \in Nat \ {0}, p <= q PROVE Start(p) <= Start(q)
  <2>1. (q - p) * PartTarget \in Nat
    BY <1>1, <1>4
  <2>2. (q - 1) * PartTarget = (p - 1) * PartTarget + (q - p) * PartTarget
    BY <1>1
  <2>3. (p - 1) * PartTarget \in Nat
    BY <1>1
  <2> QED BY <2>1, <2>2, <2>3 DEF Start
<1> QED BY <1>2, <1>3, <1>4

\* The parts lie side by side within what was cut off.
LEMMA Ends ==
    ASSUME Typed, Cuts
    PROVE  /\ nextPart \in Nat \ {0} /\ sent \in Nat
           /\ \A p \in Cut : /\ p \in Nat \ {0} /\ Start(p) \in Nat /\ End(p) \in Nat
                             /\ Start(p) <= End(p) /\ End(p) <= sent
                             /\ p + 1 \in Cut => End(p) = Start(p + 1)
                             /\ p = nextPart - 1 => End(p) = sent
                             /\ p < nextPart - 1 => End(p) - Start(p) = PartTarget
<1>1. nextPart \in Nat \ {0} /\ sent \in Nat /\ PartTarget \in Nat
  BY Constants DEF Typed, TypeOK
<1>2. \A p \in Cut : p \in Nat \ {0} /\ p <= nextPart - 1
  BY <1>1 DEF Cut
<1>3. ASSUME NEW p \in Cut, p = nextPart - 1 PROVE Start(p) <= sent
  BY <1>1, <1>2, <1>3 DEF Cuts, Cut
<1>4. ASSUME NEW p \in Cut, p < nextPart - 1
      PROVE  Start(p + 1) <= sent /\ Start(p + 1) = Start(p) + PartTarget
  <2>1. nextPart - 1 \in Nat \ {0} /\ p + 1 \in Nat \ {0} /\ p + 1 <= nextPart - 1
    BY <1>1, <1>2, <1>4
  <2>2. Start(nextPart - 1) <= sent
    BY <1>1, <2>1 DEF Cuts
  <2>3. Start(p + 1) <= Start(nextPart - 1) /\ Start(p + 1) \in Nat /\ Start(nextPart - 1) \in Nat
    BY <2>1, Starts
  <2> QED BY <1>1, <1>2, <2>2, <2>3, Starts
<1>5. ASSUME NEW p \in Cut
      PROVE  /\ p \in Nat \ {0} /\ Start(p) \in Nat /\ End(p) \in Nat
             /\ Start(p) <= End(p) /\ End(p) <= sent
             /\ p + 1 \in Cut => End(p) = Start(p + 1)
             /\ p = nextPart - 1 => End(p) = sent
             /\ p < nextPart - 1 => End(p) - Start(p) = PartTarget
  <2>1. p \in Nat \ {0} /\ Start(p) \in Nat /\ Start(p + 1) \in Nat
    BY <1>2, Starts
  <2>2. CASE p = nextPart - 1
    BY <1>1, <1>3, <2>1, <2>2 DEF End, Cut
  <2>3. CASE p < nextPart - 1
    BY <1>1, <1>4, <2>1, <2>3 DEF End, Cut
  <2> QED BY <1>1, <1>2, <2>2, <2>3
<1> QED BY <1>1, <1>5

\* A piece is so long, and changes only with its bytes.
LEMMA Pieces ==
    ASSUME NEW f \in [1..MaxLen -> Stamps], NEW a \in Nat, NEW b \in Nat, a <= b, b <= MaxLen
    PROVE  /\ SubSeq(f, a + 1, b) \in Seq(Stamps) /\ Len(SubSeq(f, a + 1, b)) = b - a
           /\ \A g \in [1..MaxLen -> Stamps] :
                 (\A i \in 1..b : g[i] = f[i]) => SubSeq(g, a + 1, b) = SubSeq(f, a + 1, b)
<1>1. a + 1 \in Int /\ b \in Int /\ \A i \in (a + 1)..b : i \in 1..MaxLen
  BY Constants
<1>2. /\ SubSeq(f, a + 1, b) \in Seq(Stamps)
      /\ Len(SubSeq(f, a + 1, b)) = IF a + 1 <= b THEN b - (a + 1) + 1 ELSE 0
      /\ \A i \in 1..(b - (a + 1) + 1) : SubSeq(f, a + 1, b)[i] = f[(a + 1) + i - 1]
  BY <1>1, SubSeqProperties
<1>3. ASSUME NEW g \in [1..MaxLen -> Stamps], \A i \in 1..b : g[i] = f[i]
      PROVE  SubSeq(g, a + 1, b) = SubSeq(f, a + 1, b)
  <2>1. /\ SubSeq(g, a + 1, b) \in Seq(Stamps)
        /\ Len(SubSeq(g, a + 1, b)) = IF a + 1 <= b THEN b - (a + 1) + 1 ELSE 0
        /\ \A i \in 1..(b - (a + 1) + 1) : SubSeq(g, a + 1, b)[i] = g[(a + 1) + i - 1]
    BY <1>1, SubSeqProperties
  <2>2. Len(SubSeq(g, a + 1, b)) = Len(SubSeq(f, a + 1, b)) /\ Len(SubSeq(f, a + 1, b)) = b - a
    BY <1>2, <2>1
  <2>3. \A i \in 1..(b - a) : SubSeq(g, a + 1, b)[i] = SubSeq(f, a + 1, b)[i]
    <3> TAKE i \in 1..(b - a)
    <3>1. i \in 1..(b - (a + 1) + 1) /\ (a + 1) + i - 1 \in 1..b
      OBVIOUS
    <3> QED BY <1>2, <1>3, <2>1, <3>1
  <2> QED BY <1>2, <2>1, <2>2, <2>3, SeqEqual
<1> QED BY <1>2, <1>3

\* Parts have numbers and bytes.
LEMMA PartMapTypes ==
    \A f \in PartMaps : DOMAIN f \subseteq Nat \ {0} /\ \A p \in DOMAIN f : f[p] \in Seq(Stamps)
BY DEF PartMaps

-----------------------------------------------------------------------------
(* Steps that leave the WriteState as it is, or begin a new one. *)

\* A closed handle, and nothing sent.
LEMMA InvInit == Init => PartsInv
<1> SUFFICES ASSUME Init PROVE PartsInv
  OBVIOUS
<1>1. Bare /\ live = FALSE /\ tasks = {} /\ pc = "closed" /\ stamp = 0 /\ doomed = FALSE
  BY DEF Init, Bare
<1>2. temp \in [1..MaxLen -> Stamps] /\ \A i \in 1..MaxLen : temp[i] = 0
  BY <1>1, Constants DEF Bare
<1>3. mpu \in [Uploads -> [state : States, parts : PartMaps]]
  <2>1. <<>> \in PartMaps
    <3>1. <<>> \in [{} -> Seq(Stamps)]
      OBVIOUS
    <3> QED BY <3>1 DEF PartMaps
  <2> QED BY <2>1 DEF Init, States
<1>4. TypeOK
  <2>1. object \in Seq(Stamps) \cup {Missing}
    BY EmptySeq DEF Init
  <2>2. \A u \in Uploads : mpu[u].state = "none" /\ DOMAIN mpu[u].parts = {}
    BY DEF Init
  <2>3. completed \subseteq 1..(nextPart - 1) /\ nextPart \in Nat \ {0}
    BY <1>1 DEF Bare
  <2>4. /\ size \in Offsets /\ contig \in Offsets /\ sent \in Offsets
        /\ upload \in {0} \cup Uploads
    BY <1>1, Constants DEF Bare
  <2>6. /\ extents \subseteq Offsets \X Offsets /\ failed \in BOOLEAN
        /\ live \in BOOLEAN /\ tasks \subseteq Tasks
    BY <1>1 DEF Bare
  <2>5. stamp \in Stamps
    BY <1>1, Constants
  <2> QED BY <1>1, <1>2, <2>1, <2>2, <2>3, <2>4, <2>5, <2>6 DEF TypeOK
<1>5. ExtentsExact
  <2>1. {x[2] : x \in {y \in extents : y[1] = 0}} = {}
    BY <1>1 DEF Bare
  <2>2. Max({0}) = 0
    <3>1. {0} \subseteq 0..0 /\ {0} # {} /\ 0 \in Nat
      OBVIOUS
    <3>2. Max({0}) \in {0}
      BY <3>1, MaxIs
    <3> QED BY <3>2
  <2> QED BY <1>1, <1>4, <2>1, <2>2 DEF ExtentsExact, Bare
<1>6. Phases
  BY <1>1, <1>2 DEF Phases
<1>7. Started /\ Cuts
  BY <1>1, Starts DEF Started, Cuts, Bare
<1>8. Placed /\ Kept
  BY <1>1 DEF Placed, Kept, Mine, Cut, Bare
<1> QED BY <1>3, <1>4, <1>5, <1>6, <1>7, <1>8 DEF PartsInv, Typed

\* A call that touches neither the file nor the upload.
LEMMA CallKeeps ==
    ASSUME PartsInv, UNCHANGED <<mpu, ws, tasks, stamp>>,
           object' \in Seq(Stamps) \cup {Missing}, doomed' \in BOOLEAN, live' \in BOOLEAN,
           pc' \in {"closed", "open", "dispatch", "loop", "flush", "flushLoop", "put",
                    "drain", "complete", "abort", "delete"},
           pc' \in {"open", "dispatch", "loop"} => sent <= contig,
           Phases',
           sent = size /\ pc \in {"flushLoop", "drain", "complete", "abort"} =>
               pc' \in {"flushLoop", "drain", "complete", "abort"} \/ sent = Start(nextPart)
    PROVE  PartsInv'
<1> USE DEF PartsInv, ws
<1>1. TypeOK' /\ Typed'
  BY DEF Typed, TypeOK
<1>2. ExtentsExact'
  BY <1>1 DEF ExtentsExact
<1>3. Started'
  BY DEF Started
<1>4. Cuts'
  BY DEF Cuts, Start
<1>5. Mine' = Mine /\ Cut' = Cut /\ (\A p : Start(p)' = Start(p) /\ End(p)' = End(p) /\ Piece(p)' = Piece(p))
  BY DEF Mine, Cut, Start, End, Piece
<1>6. Placed'
  BY <1>5 DEF Placed
<1>7. (~Rewrites => Kept)'
  BY <1>5 DEF Kept
<1> QED BY <1>1, <1>2, <1>3, <1>4, <1>6, <1>7

\* A new file, or none: nothing of it has been cut.
LEMMA FreshKeeps ==
    ASSUME PartsInv, Fresh, tasks' \subseteq tasks, UNCHANGED stamp,
           object' \in Seq(Stamps) \cup {Missing}, doomed' \in BOOLEAN, live' \in BOOLEAN,
           pc' \in {"closed", "open", "delete"}, pc' \in {"closed", "delete"} => ~live',
           mpu' \in [Uploads -> [state : States, parts : PartMaps]],
           \A u \in Uploads : mpu[u].state # "none" => mpu'[u].state # "none"
    PROVE  PartsInv'
<1> USE DEF PartsInv
<1>1. Bare'
  BY DEF Fresh, Bare
<1>2. temp' \in [1..MaxLen -> Stamps] /\ \A i \in 1..MaxLen : temp'[i] = 0
  BY <1>1, Constants DEF Bare
<1>3. TypeOK'
  <2>1. /\ size' \in Offsets /\ extents' \subseteq Offsets \X Offsets /\ contig' \in Offsets
        /\ upload' \in {0} \cup Uploads /\ sent' \in Offsets /\ nextPart' \in Nat \ {0}
        /\ completed' \subseteq 1..(nextPart' - 1) /\ failed' \in BOOLEAN
    <3>1. /\ size' = 0 /\ extents' = {} /\ contig' = 0 /\ upload' = 0 /\ sent' = 0
          /\ nextPart' = 1 /\ completed' = {} /\ failed' = FALSE
      BY <1>1 DEF Bare
    <3>2. 0 \in Offsets
      BY Constants
    <3>3. extents' \subseteq Offsets \X Offsets /\ failed' \in BOOLEAN
      BY <3>1
    <3> QED BY <3>1, <3>2, <3>3
  <2>2. \A u \in Uploads :
          /\ mpu'[u].state \in {"none", "open", "done", "aborted"}
          /\ \A p \in DOMAIN mpu'[u].parts : mpu'[u].parts[p] \in Seq(Stamps)
    BY PartMapTypes DEF States
  <2>3. tasks' \subseteq Tasks /\ stamp' \in Stamps
    BY DEF Typed, TypeOK
  <2> QED BY <1>2, <2>1, <2>2, <2>3 DEF TypeOK
<1>4. Typed'
  BY <1>3 DEF Typed
<1>5. ExtentsExact'
  <2>1. {x[2] : x \in {y \in extents' : y[1] = 0}} = {}
    BY <1>1 DEF Bare
  <2>2. Max({0}) = 0
    <3>1. {0} \subseteq 0..0 /\ {0} # {} /\ 0 \in Nat
      OBVIOUS
    <3>2. Max({0}) \in {0}
      BY <3>1, MaxIs
    <3> QED BY <3>2
  <2>3. contig' = Max({0} \cup {x[2] : x \in {y \in extents' : y[1] = 0}})
    <3>1. {0} \cup {} = {0}
      OBVIOUS
    <3>2. contig' = 0
      BY <1>1 DEF Bare
    <3> QED BY <2>1, <2>2, <3>1, <3>2
  <2> QED BY <1>1, <1>3, <2>3 DEF ExtentsExact, Bare
<1>6. Mine' = {}
  BY <1>1, Constants DEF Mine, Bare, Typed, TypeOK, Tasks
<1>7. Phases'
  BY <1>1, <1>2, Constants DEF Phases, Typed, TypeOK
<1>8. Started'
  BY <1>1 DEF Started, Bare, Typed, TypeOK, Tasks
<1>9. Cuts'
  BY <1>1, Starts DEF Cuts, Bare, Start
<1>10. Placed' /\ Kept'
  BY <1>1, <1>6 DEF Placed, Kept, Cut, Bare
<1> QED BY <1>3, <1>4, <1>5, <1>7, <1>8, <1>9, <1>10

\* What is contiguous is within the file.
LEMMA ContigFits ==
    ASSUME PartsInv
    PROVE  TypeOK /\ contig <= size /\ size \in Nat /\ contig \in Nat
<1>1. TypeOK /\ size \in Nat /\ contig \in Nat
  BY Constants DEF PartsInv, Typed, TypeOK
<1>2. {0} \cup {x[2] : x \in {y \in extents : y[1] = 0}} \subseteq 0..MaxLen
  BY <1>1, Constants DEF TypeOK
<1>3. contig \in {0} \cup {x[2] : x \in {y \in extents : y[1] = 0}}
  BY <1>2, MaxIs, Constants DEF PartsInv, ExtentsExact
<1> QED BY <1>1, <1>3 DEF PartsInv, ExtentsExact

\* Calls and their answers that touch neither.
LEMMA CallsKeep ==
    ASSUME PartsInv,
           \/ Open \/ SetDelete \/ CleanupIdle \/ CleanupFinalizes \/ DispatchCheck
           \/ StartFails \/ DispatchDone \/ Drain \/ CompleteFails \/ Delete
    PROVE  PartsInv'
<1> USE DEF PartsInv
<1>t. TypeOK /\ contig <= size /\ size \in Nat /\ contig \in Nat
  BY ContigFits
<1>1. CASE Open
  BY <1>1, <1>t, CallKeeps DEF Open, ws, Phases, Mine, TypeOK, Bare
<1>2. CASE SetDelete
  BY <1>2, <1>t, CallKeeps DEF SetDelete, ws, Phases, Mine, TypeOK, Bare, ExtentsExact
<1>3. CASE CleanupIdle
  BY <1>3, <1>t, CallKeeps DEF CleanupIdle, ws, Phases, Mine, TypeOK, Bare
<1>4. CASE CleanupFinalizes
  BY <1>4, <1>t, CallKeeps DEF CleanupFinalizes, ws, Phases, Mine, TypeOK, Bare
<1>5. CASE DispatchCheck
  BY <1>5, <1>t, CallKeeps DEF DispatchCheck, Final, ws, Phases, Mine, TypeOK, Bare, ExtentsExact
<1>6. CASE StartFails
  BY <1>6, <1>t, CallKeeps DEF StartFails, ws, Phases, Mine, TypeOK, Bare, ExtentsExact
<1>7. CASE DispatchDone
  <2>1. sent \in Nat /\ sent <= size
    BY <1>t, Constants DEF TypeOK, Cuts
  <2>2. pc = "flushLoop" => sent = size
    <3>1. {size, contig} \subseteq 0..MaxLen
      BY <1>t, Constants DEF TypeOK
    <3>2. Max({size, contig}) = size
      BY <1>t, <3>1, MaxIs, Constants
    <3> QED BY <1>7, <1>t, <2>1, <3>2 DEF DispatchDone, ReadySize, Final
  <2> QED BY <1>7, <1>t, <2>2, CallKeeps DEF DispatchDone, Final, ws, Phases, Mine, TypeOK, Bare, ExtentsExact
<1>8. CASE Drain
  BY <1>8, <1>t, CallKeeps DEF Drain, Drained, ws, Phases, Mine, TypeOK, Bare
<1>9. CASE CompleteFails
  BY <1>9, <1>t, CallKeeps DEF CompleteFails, ws, Phases, Mine, TypeOK, Bare
<1>10. CASE Delete
  BY <1>10, <1>t, CallKeeps DEF Delete, ws, Phases, Mine, TypeOK, Bare
<1> QED BY <1>1, <1>2, <1>3, <1>4, <1>5, <1>6, <1>7, <1>8, <1>9, <1>10

\* What FlattenSeq makes of sequences is one.
LEMMA FlattenedType ==
    ASSUME NEW S, NEW n \in Nat, NEW s \in [1..n -> Seq(S)], Len(s) = n, n = 0 => s = <<>>
    PROVE  FlattenSeq(s) \in Seq(S)
<1> DEFINE Upto(k, f) == f \in [1..k -> Seq(S)] /\ Joins(f, s, k)
           Has == {k \in Nat : k <= n => \E f : Upto(k, f)}
<1>1. 0 \in Has
  <2>1. Upto(0, [i \in 1..0 |-> <<>>])
    BY DEF Joins
  <2> QED BY <2>1
<1>2. ASSUME NEW k \in Nat, k \in Has PROVE k + 1 \in Has
  <2>1. SUFFICES ASSUME k + 1 <= n PROVE \E f : Upto(k + 1, f)
    <3> HIDE DEF Upto
    <3> QED OBVIOUS
  <2>2. PICK f : Upto(k, f)
    <3> HIDE DEF Upto
    <3> QED BY <1>2, <2>1
  <2> DEFINE last == IF k = 0 THEN s[1] ELSE f[k] \o s[k + 1]
             g == [i \in 1..(k + 1) |-> IF i <= k THEN f[i] ELSE last]
  <2>3. last \in Seq(S)
    <3>1. k > 0 => f[k] \in Seq(S) /\ s[k + 1] \in Seq(S)
      BY <2>1, <2>2
    <3>2. k > 0 => f[k] \o s[k + 1] \in Seq(S)
      BY <3>1, ConcatProperties
    <3>3. k = 0 => s[1] \in Seq(S)
      BY <2>1
    <3> QED BY <3>2, <3>3
  <2> HIDE DEF last
  <2>4. \A i \in 1..(k + 1) : g[i] = IF i <= k THEN f[i] ELSE last
    OBVIOUS
  <2>5. g \in [1..(k + 1) -> Seq(S)]
    BY <2>2, <2>3
  <2> HIDE DEF g
  <2>6. g[1] = s[1]
    <3>1. CASE k = 0
      BY <2>4, <3>1 DEF last
    <3>2. CASE k > 0
      BY <2>2, <2>4, <3>2 DEF Joins
    <3> QED BY <3>1, <3>2
  <2>7. ASSUME NEW i \in 1..(k + 1), i > 1 PROVE g[i] = g[i - 1] \o s[i]
    <3>1. CASE i <= k
      <4>1. g[i] = f[i] /\ g[i - 1] = f[i - 1] /\ i \in 1..k
        BY <2>4, <2>7, <3>1
      <4>2. f[i] = f[i - 1] \o s[i]
        BY <2>2, <2>7, <4>1 DEF Joins
      <4> QED BY <4>1, <4>2, Zenon
    <3>2. CASE i = k + 1
      <4>1. k # 0 /\ g[i] = last /\ g[i - 1] = f[k]
        BY <2>4, <2>7, <3>2
      <4>2. last = f[k] \o s[k + 1]
        BY <4>1, Zenon DEF last
      <4>3. s[k + 1] = s[i]
        BY <3>2
      <4>4. last = f[k] \o s[i]
        BY <4>2, <4>3, Zenon
      <4>5. g[i - 1] \o s[i] = f[k] \o s[i]
        BY <4>1, Zenon
      <4> QED BY <4>1, <4>4, <4>5
    <3>3. i <= k \/ i = k + 1
      OBVIOUS
    <3> QED BY <3>1, <3>2, <3>3, Zenon
  <2>8. Upto(k + 1, g)
    BY <2>5, <2>6, <2>7 DEF Joins
  <2> HIDE DEF Upto
  <2> QED BY <2>8
<1>3. n \in Has
  <2> HIDE DEF Has
  <2> QED BY <1>1, <1>2, Induction
<1>4. PICK f : Upto(n, f)
  <2> HIDE DEF Upto
  <2> QED BY <1>3
<1>5. FlattenSeq(s) = IF n = 0 THEN <<>> ELSE f[n]
  <2>1. f \in [1..n -> Seq(S)] /\ Joins(f, s, n)
    BY <1>4
  <2> HIDE DEF Upto, Has
  <2> QED BY <2>1, Flattened
<1>6. n > 0 => f[n] \in Seq(S)
  BY <1>4
<1> QED BY <1>5, <1>6, EmptySeq

\* The object a multipart upload is completed to.
Assembled == FlattenSeq([p \in Cut |-> IF p \in completed THEN mpu[upload].parts[p] ELSE <<>>])

\* The parts put together are bytes.
LEMMA AssembledType == ASSUME PartsInv, pc = "complete" PROVE Assembled \in Seq(Stamps)
<1> DEFINE s == [p \in Cut |-> IF p \in completed THEN mpu[upload].parts[p] ELSE <<>>]
<1>1. nextPart - 1 \in Nat /\ upload \in Uploads
  BY DEF PartsInv, Phases, Typed, TypeOK
<1>2. \A p \in completed : mpu[upload].parts[p] \in Seq(Stamps)
  BY <1>1 DEF PartsInv, Placed, Typed, TypeOK
<1>3. s \in [1..(nextPart - 1) -> Seq(Stamps)]
  BY <1>2, EmptySeq DEF Cut
<1>4. Len(s) = nextPart - 1 /\ (nextPart - 1 = 0 => s = <<>>)
  <2> HIDE DEF s
  <2>1. s \in Seq(Seq(Stamps))
    BY <1>1, <1>3, SeqDef
  <2>2. DOMAIN s = 1..Len(s) /\ Len(s) \in Nat
    BY <2>1, LenProperties
  <2>3. Len(s) = nextPart - 1
    BY <1>1, <1>3, <2>2
  <2>4. Len(s) = 0 => s = <<>>
    BY <2>1, EmptySeq
  <2> QED BY <2>3, <2>4
<1> HIDE DEF s
<1>5. FlattenSeq(s) \in Seq(Stamps)
  BY <1>1, <1>3, <1>4, FlattenedType
<1> QED BY <1>5 DEF Assembled, s

\* Steps that begin a new file, or drop the old one.
LEMMA FreshStarts ==
    ASSUME PartsInv,
           \/ Create \/ Overwrite \/ CleanupDiscards \/ SinglePut \/ Complete \/ Abort \/ Crash
    PROVE  PartsInv'
<1>t. TypeOK /\ Typed /\ upload \in {0} \cup Uploads /\ mpu \in [Uploads -> [state : States, parts : PartMaps]]
  BY DEF PartsInv, Typed, TypeOK
<1>m. ASSUME NEW x \in {"done", "aborted"}, upload \in Uploads,
             \/ mpu' = [mpu EXCEPT ![upload].state = x]
             \/ mpu' = [mpu EXCEPT ![upload].state = IF @ = "open" THEN x ELSE @]
             \/ mpu' = mpu
      PROVE  /\ mpu' \in [Uploads -> [state : States, parts : PartMaps]]
             /\ \A u \in Uploads : mpu[u].state # "none" => mpu'[u].state # "none"
  BY <1>m, <1>t DEF States
<1>1. CASE Create
  BY <1>1, <1>t, FreshKeeps DEF Create, TypeOK
<1>2. CASE Overwrite
  BY <1>2, <1>t, FreshKeeps DEF Overwrite, TypeOK
<1>3. CASE CleanupDiscards
  BY <1>3, <1>t, FreshKeeps DEF CleanupDiscards, Dropped, TypeOK
<1>4. CASE SinglePut
  <2>1. SubSeq(temp, 1, size) \in Seq(Stamps)
    <3>1. temp \in [1..MaxLen -> Stamps] /\ size \in Nat /\ size <= MaxLen /\ 0 \in Nat
      BY <1>t, Constants DEF TypeOK
    <3>2. ASSUME NEW a \in Nat, a = 0 PROVE SubSeq(temp, a + 1, size) \in Seq(Stamps)
      <4>1. a <= size
        BY <3>1, <3>2
      <4> QED BY <3>1, <4>1, Pieces, Zenon
    <3> QED BY <3>2
  <2> QED BY <1>4, <1>t, <2>1, FreshKeeps DEF SinglePut, Dropped, TypeOK
<1>5. CASE Complete
  <2>1. upload \in Uploads /\ pc = "complete" /\ size \in Nat /\ contig \in Nat
    BY <1>5, <1>t, Constants DEF Complete, PartsInv, Phases, TypeOK
  <2>2. object' = Assembled
    BY <1>5 DEF Complete, Assembled, Cut
  <2>3. object' \in Seq(Stamps)
    BY <2>1, <2>2, AssembledType
  <2>4. /\ mpu' \in [Uploads -> [state : States, parts : PartMaps]]
        /\ \A u \in Uploads : mpu[u].state # "none" => mpu'[u].state # "none"
    BY <1>5, <1>m, <2>1 DEF Complete
  <2>5. CASE pc' = "closed" /\ Dropped
    BY <1>5, <1>t, <2>3, <2>4, <2>5, FreshKeeps DEF Complete, Dropped, TypeOK
  <2>6. CASE pc' = "abort" /\ live' = FALSE /\ UNCHANGED ws
    <3>1. UNCHANGED <<tasks, stamp, doomed, ws>> /\ pc' = "abort" /\ live' = FALSE
      BY <1>5, <2>6 DEF Complete
    <3>2. mpu' = [mpu EXCEPT ![upload].state = "done"]
      BY <1>5 DEF Complete
    <3>3. mpu'[upload].parts = mpu[upload].parts
      BY <1>t, <2>1, <3>2
    <3>4. Typed'
      <4>1. \A u \in Uploads :
                /\ mpu'[u].state \in {"none", "open", "done", "aborted"}
                /\ \A p \in DOMAIN mpu'[u].parts : mpu'[u].parts[p] \in Seq(Stamps)
        BY <2>4, PartMapTypes DEF States
      <4> QED BY <1>t, <2>3, <2>4, <3>1, <4>1 DEF Typed, TypeOK, ws
    <3>5. ExtentsExact'
      BY <3>1, <3>4 DEF PartsInv, ExtentsExact, ws, Typed
    <3>6. Phases'
      BY <1>t, <2>1, <3>1, Constants DEF PartsInv, Phases, ws, TypeOK
    <3>7. Started' /\ Cuts'
      BY <2>1, <2>4, <3>1, <1>t DEF PartsInv, Started, Cuts, Start, ws, TypeOK, Tasks, Phases
    <3>8. Mine' = Mine /\ Cut' = Cut /\ (\A p : Start(p)' = Start(p) /\ End(p)' = End(p) /\ Piece(p)' = Piece(p))
      BY <3>1 DEF Mine, Cut, Start, End, Piece, ws
    <3>9. Placed' /\ (~Rewrites => Kept)'
      BY <3>1, <3>3, <3>8 DEF PartsInv, Placed, Kept, ws
    <3> QED BY <3>4, <3>5, <3>6, <3>7, <3>9 DEF PartsInv
  <2> QED BY <1>5, <2>5, <2>6 DEF Complete, Dropped
<1>6. CASE Abort
  <2>1. upload \in Uploads
    BY <1>6, <1>t DEF Abort, PartsInv, Phases
  <2>2. /\ mpu' \in [Uploads -> [state : States, parts : PartMaps]]
        /\ \A u \in Uploads : mpu[u].state # "none" => mpu'[u].state # "none"
    BY <1>6, <1>m, <2>1 DEF Abort
  <2> QED BY <1>6, <1>t, <2>2, FreshKeeps DEF Abort, Dropped, TypeOK
<1>7. CASE Crash
  BY <1>7, <1>t, FreshKeeps DEF Crash, Dropped, TypeOK
<1> QED BY <1>1, <1>2, <1>3, <1>4, <1>5, <1>6, <1>7

-----------------------------------------------------------------------------
(* Parts: cut, read, stored, failed. *)

\* A multipart upload is started: nothing has been cut yet.
LEMMA StartKeeps == ASSUME PartsInv, StartMultipart PROVE PartsInv'
<1> USE DEF PartsInv
<1>1. PICK u \in Uploads : /\ \A v \in Uploads : mpu[v].state = "none" <=> v >= u
                           /\ mpu' = [mpu EXCEPT ![u].state = "open"]
                           /\ upload' = u
  BY DEF StartMultipart
<1>2. /\ UNCHANGED <<object, pc, live, temp, size, extents, contig, sent, nextPart,
                     completed, failed, tasks, stamp, doomed>>
      /\ pc = "loop" /\ upload = 0 /\ live
  BY DEF StartMultipart, Phases
<1>3. mpu[u].state = "none" /\ u # 0
  BY <1>1, Constants
<1>4. Typed'
  <2>1. mpu' \in [Uploads -> [state : States, parts : PartMaps]]
    BY <1>1 DEF Typed, States
  <2>2. \A v \in Uploads :
          /\ mpu'[v].state \in {"none", "open", "done", "aborted"}
          /\ \A p \in DOMAIN mpu'[v].parts : mpu'[v].parts[p] \in Seq(Stamps)
    BY <2>1, PartMapTypes DEF States
  <2> QED BY <1>1, <1>2, <2>1, <2>2 DEF Typed, TypeOK
<1>5. ExtentsExact'
  BY <1>2, <1>4 DEF ExtentsExact, Typed
<1>6. nextPart = 1 /\ nextPart' = 1
  BY <1>2 DEF Cuts
<1>7. Cuts'
  BY <1>2, <1>6, Starts DEF Cuts, Start
<1>8. Cut' = {} /\ completed' = {}
  BY <1>2, <1>6 DEF Cut, Typed, TypeOK
<1>9. Mine' = {}
  <2>1. \A t \in tasks : t.upload # u
    BY <1>3 DEF Started
  <2> QED BY <1>1, <1>2, <2>1 DEF Mine
<1>10. Phases'
  BY <1>2, <1>9 DEF Phases, Bare
<1>11. Started'
  BY <1>1, <1>2, <1>3 DEF Started, Typed, TypeOK, Tasks
<1>12. Placed' /\ Kept'
  BY <1>8, <1>9 DEF Placed, Kept
<1> QED BY <1>4, <1>5, <1>7, <1>10, <1>11, <1>12

\* A part is cut off at the end of those before it, and is on its way.
LEMMA SpawnKeeps == ASSUME PartsInv, SpawnPart PROVE PartsInv'
<1> USE DEF PartsInv
<1>a. PICK n, m, new :
        /\ n = ReadySize /\ m = nextPart
        /\ new = [upload |-> upload, part |-> nextPart, off |-> sent, len |-> ReadySize,
                  data |-> Unread]
  OBVIOUS
<1>1. /\ pc \in {"loop", "flushLoop"} /\ n > 0 /\ upload # 0
      /\ tasks' = tasks \cup {new} /\ nextPart' = nextPart + 1 /\ sent' = sent + n
      /\ UNCHANGED <<object, mpu, pc, live, temp, size, extents, contig, upload,
                     completed, failed, stamp, doomed>>
  BY <1>a DEF SpawnPart
<1>2. /\ size \in Nat /\ contig \in Nat /\ contig <= size /\ size <= MaxLen /\ upload \in Uploads
      /\ m = nextPart /\ m \in Nat \ {0} /\ sent \in Nat /\ PartTarget \in Nat /\ MaxLen \in Nat
  BY <1>1, <1>a, Constants, ContigFits DEF Typed, TypeOK
<1>3. /\ n \in Nat /\ sent + n <= size
      /\ pc = "loop" => n = PartTarget /\ sent + n <= contig
      /\ pc = "flushLoop" => sent + n = size
  <2>1. CASE pc = "loop"
    BY <1>1, <1>2, <1>a, <2>1 DEF ReadySize, Final
  <2>2. CASE pc = "flushLoop"
    <3>1. {size, contig} \subseteq 0..MaxLen
      BY <1>2
    <3>2. Max({size, contig}) = size
      BY <1>2, <3>1, MaxIs
    <3> QED BY <1>1, <1>2, <1>a, <2>2, <3>2 DEF ReadySize, Final
  <2> QED BY <1>1, <2>1, <2>2
<1>4. sent = Start(m)
  <2>1. sent # size
    BY <1>1, <1>2, <1>3
  <2> QED BY <1>1, <1>2, <2>1 DEF Cuts
<1>5. new \in Tasks
  BY <1>2, <1>3, <1>a, Constants DEF Tasks
<1>6. Typed'
  BY <1>1, <1>2, <1>3, <1>5, Constants DEF Typed, TypeOK
<1>7. ExtentsExact'
  BY <1>1, <1>2, <1>3, <1>6 DEF ExtentsExact, Typed
<1>8. Phases'
  BY <1>1 DEF Phases, Bare
<1>9. Started'
  BY <1>1, <1>a DEF Started
<1>10. Cuts'
  <2>1. (m + 1) - 1 = m /\ m + 1 > 1 /\ Start(m) <= sent + n
    BY <1>2, <1>3, <1>4
  <2>2. Start(m + 1) = Start(m) + PartTarget
    BY <1>2, Starts
  <2>3. /\ pc = "loop" => sent + n = Start(m + 1)
        /\ pc = "flushLoop" => sent + n = size
    BY <1>3, <1>4, <2>2
  <2>4. Start(nextPart)' = Start(m + 1) /\ Start(nextPart - 1)' = Start(m)
    BY <1>1, <1>2, <2>1 DEF Start
  <2> QED BY <1>1, <1>2, <1>3, <2>1, <2>3, <2>4 DEF Cuts
<1>11. Cut' = Cut \cup {m} /\ m \notin Cut
  BY <1>1, <1>2, <1>a DEF Cut
<1>12. /\ \A p \in Cut : End(p)' = End(p) /\ Start(p)' = Start(p) /\ Piece(p)' = Piece(p)
       /\ End(m)' = sent + n /\ Start(m)' = sent
  <2>1. \A p : Start(p)' = Start(p)
    BY DEF Start
  <2>2. ASSUME NEW p \in Cut PROVE End(p)' = End(p)
    <3>1. p \in Nat /\ p # nextPart' - 1 /\ p <= m - 1
      BY <1>1, <1>2 DEF Cut
    <3>2. End(p)' = Start(p + 1)
      BY <2>1, <3>1 DEF End
    <3>3. p = nextPart - 1 => p + 1 = m
      BY <1>2, <3>1
    <3> QED BY <1>2, <1>4, <3>2, <3>3 DEF End
  <2>3. End(m)' = sent + n
    BY <1>1, <1>2 DEF End
  <2> QED BY <1>1, <1>4, <2>1, <2>2, <2>3 DEF Piece
<1>13. Mine' = Mine \cup {new}
  BY <1>1, <1>a DEF Mine
<1>14. Placed'
  <2>1. /\ new.part \in Cut' /\ new.off = Start(new.part)' /\ new.len = End(new.part)' - Start(new.part)'
        /\ new.data = Unread
    BY <1>2, <1>3, <1>a, <1>11, <1>12
  <2>2. completed' = completed /\ completed \subseteq Cut /\ mpu' = mpu /\ upload' = upload /\ failed' = failed
    BY <1>1 DEF Typed, TypeOK, Cut
  <2>3. ASSUME NEW t \in Mine'
        PROVE  /\ t.part \in Cut' /\ t.off = Start(t.part)' /\ t.len = End(t.part)' - Start(t.part)'
               /\ t.data # Unread => Len(t.data) = t.len
    BY <1>11, <1>12, <1>13, <2>1, <2>3 DEF Placed
  <2>4. \A p \in completed' : /\ p \in DOMAIN mpu'[upload'].parts
                              /\ Len(mpu'[upload'].parts[p]) = End(p)' - Start(p)'
    BY <1>12, <2>2 DEF Placed
  <2>5. failed' \/ Cut' \subseteq completed' \cup {t.part : t \in Mine'}
    <3>1. m \in {t.part : t \in Mine'}
      BY <1>13, <1>a
    <3> QED BY <1>11, <1>13, <2>2, <3>1 DEF Placed
  <2> QED BY <2>3, <2>4, <2>5 DEF Placed
<1>15. ~Rewrites => Kept'
  <2>1. completed \subseteq Cut
    BY DEF Typed, TypeOK, Cut
  <2>2. \A t \in Mine : t.part \in Cut
    BY DEF Placed
  <2> QED BY <1>1, <1>a, <1>12, <1>13, <2>1, <2>2 DEF Kept
<1> QED BY <1>6, <1>7, <1>8, <1>9, <1>10, <1>14, <1>15

\* A task reads its part from the file as it is now.
LEMMA ReadKeeps == ASSUME PartsInv, NEW t \in tasks, ReadPart(t) PROVE PartsInv'
<1> USE DEF PartsInv
<1>1. /\ t.data = Unread /\ live /\ t.upload = upload
      /\ UNCHANGED <<object, mpu, pc, live, ws, stamp, doomed>>
  BY DEF ReadPart, FileThere
<1>a. PICK data, r : /\ data = SubSeq(temp, t.off + 1, t.off + t.len)
                     /\ r = [t EXCEPT !.data = data]
                     /\ tasks' = (tasks \ {t}) \cup {r}
  BY DEF ReadPart
<1>2. t \in Tasks /\ t \in Mine /\ t.part \in Cut
  BY <1>1 DEF Typed, TypeOK, Mine, Placed
<1>3. /\ t.off = Start(t.part) /\ t.off + t.len = End(t.part)
      /\ t.off \in Nat /\ End(t.part) \in Nat /\ Start(t.part) <= End(t.part) /\ End(t.part) <= MaxLen
  <2>1. /\ Start(t.part) \in Nat /\ End(t.part) \in Nat /\ Start(t.part) <= End(t.part)
        /\ End(t.part) <= sent /\ sent <= MaxLen /\ sent \in Nat /\ MaxLen \in Nat
    BY <1>2, Ends, Constants DEF Typed, TypeOK
  <2>2. t.off = Start(t.part) /\ t.len = End(t.part) - Start(t.part)
    BY <1>2 DEF Placed
  <2> QED BY <2>1, <2>2
<1>4. temp \in [1..MaxLen -> Stamps]
  BY DEF Typed, TypeOK
<1>5. data = Piece(t.part) /\ data \in Seq(Stamps) /\ Len(data) = t.len
  <2>1. data = Piece(t.part)
    BY <1>a, <1>3 DEF Piece
  <2>2. Piece(t.part) \in Seq(Stamps) /\ Len(Piece(t.part)) = End(t.part) - Start(t.part)
    BY <1>3, <1>4, Pieces DEF Piece
  <2>3. t.len = End(t.part) - Start(t.part)
    BY <1>2 DEF Placed
  <2> QED BY <2>1, <2>2, <2>3
<1>6. /\ r \in Tasks /\ r.upload = t.upload /\ r.part = t.part /\ r.off = t.off /\ r.len = t.len
      /\ r.data = data
  BY <1>2, <1>5, <1>a DEF Tasks
<1>7. Typed'
  BY <1>1, <1>6, <1>a DEF Typed, TypeOK, ws
<1>8. ExtentsExact'
  BY <1>1, <1>7 DEF ExtentsExact, Typed, ws
<1>9. pc # "complete"
  BY <1>2 DEF Phases
<1>10. Phases'
  BY <1>1, <1>9 DEF Phases, Bare, ws
<1>11. Started'
  BY <1>1, <1>6, <1>a DEF Started, ws
<1>12. Cuts'
  BY <1>1 DEF Cuts, Start, ws
<1>13. Cut' = Cut /\ (\A p : Start(p)' = Start(p) /\ End(p)' = End(p) /\ Piece(p)' = Piece(p))
  BY <1>1 DEF Cut, Start, End, Piece, ws
<1>14. Mine' = (Mine \ {t}) \cup {r}
  BY <1>1, <1>6, <1>a DEF Mine, ws
<1>15. Placed'
  <2>1. /\ r.part \in Cut /\ r.off = Start(r.part) /\ r.len = End(r.part) - Start(r.part)
        /\ Len(r.data) = r.len
    BY <1>2, <1>5, <1>6 DEF Placed
  <2>2. {x.part : x \in Mine'} = {x.part : x \in Mine}
    BY <1>2, <1>6, <1>14
  <2>3. \A x \in Mine' :
          /\ x.part \in Cut' /\ x.off = Start(x.part)' /\ x.len = End(x.part)' - Start(x.part)'
          /\ x.data # Unread => Len(x.data) = x.len
    BY <1>13, <1>14, <2>1 DEF Placed
  <2> QED BY <1>1, <1>13, <2>2, <2>3 DEF Placed, ws
<1>16. ~Rewrites => Kept'
  BY <1>1, <1>5, <1>6, <1>13, <1>14 DEF Kept, ws
<1> QED BY <1>7, <1>8, <1>10, <1>11, <1>12, <1>15, <1>16

\* A part that was on its way has failed, and the upload has.
LEMMA FailKeeps == ASSUME PartsInv, NEW t \in tasks, PartFails(t) PROVE PartsInv'
<1> USE DEF PartsInv
<1>1. /\ failed' = (failed \/ t.upload = upload) /\ tasks' = tasks \ {t}
      /\ UNCHANGED <<object, mpu, pc, live, temp, size, extents, contig, upload, sent,
                     nextPart, completed, stamp, doomed>>
  BY DEF PartFails
<1>2. Typed'
  BY <1>1 DEF Typed, TypeOK
<1>3. ExtentsExact'
  BY <1>1, <1>2 DEF ExtentsExact, Typed
<1>4. Mine' = Mine \ {t} /\ (t \in Mine <=> t.upload = upload)
  BY <1>1 DEF Mine
<1>5. Phases'
  <2>1. t.upload # 0
    BY Constants DEF Typed, TypeOK, Tasks
  <2> QED BY <1>1, <1>4, <2>1 DEF Phases, Bare
<1>6. Started' /\ Cuts'
  BY <1>1 DEF Started, Cuts, Start
<1>7. Cut' = Cut /\ (\A p : Start(p)' = Start(p) /\ End(p)' = End(p) /\ Piece(p)' = Piece(p))
  BY <1>1 DEF Cut, Start, End, Piece
<1>8. Placed' /\ (~Rewrites => Kept')
  BY <1>1, <1>4, <1>7 DEF Placed, Kept
<1> QED BY <1>2, <1>3, <1>5, <1>6, <1>8

\* A part that was on its way is stored.
LEMMA StoredKeeps == ASSUME PartsInv, NEW t \in tasks, PartStored(t) PROVE PartsInv'
<1> USE DEF PartsInv
<1>a. PICK u, q, data : u = t.upload /\ q = t.part /\ data = t.data
  OBVIOUS
<1>1. /\ data # Unread /\ mpu[u].state = "open" /\ tasks' = tasks \ {t}
      /\ completed' = IF u = upload THEN completed \cup {q} ELSE completed
      /\ UNCHANGED <<object, pc, live, temp, size, extents, contig, upload, sent,
                     nextPart, failed, stamp, doomed>>
  BY <1>a DEF PartStored
<1>2. t \in Tasks /\ u \in Uploads /\ q \in Nat \ {0} /\ data \in Seq(Stamps)
  BY <1>1, <1>a DEF Typed, TypeOK, Tasks
<1> DEFINE parts == [p \in DOMAIN mpu[u].parts \cup {q} |->
                        IF p = q THEN data ELSE mpu[u].parts[p]]
<1>3. mpu' = [mpu EXCEPT ![u].parts = parts]
  BY <1>a DEF PartStored
<1>4. parts \in PartMaps /\ parts[q] = data /\ DOMAIN parts = DOMAIN mpu[u].parts \cup {q}
      /\ \A p \in DOMAIN mpu[u].parts : p # q => parts[p] = mpu[u].parts[p]
  <2>1. mpu[u].parts \in PartMaps
    BY <1>2 DEF Typed
  <2>2. DOMAIN mpu[u].parts \cup {q} \in SUBSET (Nat \ {0})
    BY <1>2, <2>1, PartMapTypes
  <2>3. parts \in [DOMAIN mpu[u].parts \cup {q} -> Seq(Stamps)]
    BY <1>2, <2>1, PartMapTypes
  <2> QED BY <2>2, <2>3 DEF PartMaps
<1> HIDE DEF parts
<1>5. /\ mpu' \in [Uploads -> [state : States, parts : PartMaps]]
      /\ \A v \in Uploads : mpu'[v].state = mpu[v].state
      /\ mpu'[u].parts = parts /\ \A v \in Uploads : v # u => mpu'[v] = mpu[v]
  BY <1>2, <1>3, <1>4 DEF Typed
<1>6. u = upload => t \in Mine /\ q \in Cut /\ Len(data) = End(q) - Start(q)
  BY <1>1, <1>a DEF Mine, Placed
<1>7. Typed'
  <2>1. \A v \in Uploads :
          /\ mpu'[v].state \in {"none", "open", "done", "aborted"}
          /\ \A p \in DOMAIN mpu'[v].parts : mpu'[v].parts[p] \in Seq(Stamps)
    BY <1>5, PartMapTypes DEF States
  <2> QED BY <1>1, <1>5, <1>6, <2>1 DEF Typed, TypeOK, Cut
<1>8. ExtentsExact'
  BY <1>1, <1>7 DEF ExtentsExact, Typed
<1>9. Mine' = Mine \ {t}
  BY <1>1 DEF Mine
<1>10. Phases'
  <2>1. u # 0
    BY <1>2, Constants
  <2> QED BY <1>1, <1>9, <2>1 DEF Phases, Bare
<1>11. Started'
  BY <1>1, <1>5 DEF Started, Typed, TypeOK, Tasks
<1>12. Cuts'
  BY <1>1 DEF Cuts, Start
<1>13. Cut' = Cut /\ (\A p : Start(p)' = Start(p) /\ End(p)' = End(p) /\ Piece(p)' = Piece(p))
  BY <1>1 DEF Cut, Start, End, Piece
<1>14. CASE u # upload
  <2>1. completed' = completed /\ Mine' = Mine
    BY <1>1, <1>9, <1>14, <1>a DEF Mine
  <2>2. \A p \in completed : mpu'[upload].parts[p] = mpu[upload].parts[p]
                             /\ DOMAIN mpu'[upload].parts = DOMAIN mpu[upload].parts
    <3>1. completed # {} => upload \in Uploads
      <4>1. SUFFICES ASSUME NEW p \in completed PROVE upload \in Uploads
        OBVIOUS
      <4>2. p \in 1..(nextPart - 1) /\ nextPart \in Nat
        BY DEF Typed, TypeOK
      <4>3. nextPart # 1
        BY <4>2
      <4> QED BY <4>3 DEF Typed, TypeOK, Cuts
    <3> QED BY <1>5, <1>14, <3>1
  <2>3. Placed' /\ (~Rewrites => Kept')
    BY <1>1, <1>13, <2>1, <2>2 DEF Placed, Kept
  <2> QED BY <1>7, <1>8, <1>10, <1>11, <1>12, <2>3
<1>15. CASE u = upload
  <2>1. completed' = completed \cup {q} /\ Mine' = Mine \ {t} /\ mpu'[upload].parts = parts
    BY <1>1, <1>5, <1>9, <1>15
  <2>2. \A p \in completed' :
          p \in DOMAIN mpu'[upload].parts /\ Len(mpu'[upload].parts[p]) = End(p) - Start(p)
    BY <1>4, <1>6, <1>15, <2>1 DEF Placed
  <2>3. failed \/ Cut \subseteq completed' \cup {x.part : x \in Mine'}
    BY <1>6, <1>15, <1>a, <2>1 DEF Placed
  <2>4. Placed'
    BY <1>1, <1>13, <2>1, <2>2, <2>3 DEF Placed
  <2>5. ASSUME ~Rewrites PROVE Kept'
    <3>1. data = Piece(q)
      BY <1>1, <1>6, <1>15, <1>a, <2>5 DEF Kept
    <3>2. \A p \in completed' : mpu'[upload].parts[p] = Piece(p)
      BY <1>4, <1>15, <2>1, <2>5, <3>1 DEF Kept, Placed
    <3> QED BY <1>1, <1>13, <2>1, <2>5, <3>2 DEF Kept
  <2> QED BY <1>7, <1>8, <1>10, <1>11, <1>12, <2>4, <2>5
<1> QED BY <1>14, <1>15

-----------------------------------------------------------------------------
(* Writes. *)

\* Ranges that are in order, with gaps between.
Apart(ext) ==
    /\ ext \subseteq Offsets \X Offsets
    /\ \A x \in ext : x[1] < x[2]
    /\ \A x, y \in ext : x # y => x[2] < y[1] \/ y[2] < x[1]

\* A range more leaves them so, and covers what was covered.
LEMMA Recorded ==
    ASSUME NEW ext, Apart(ext), NEW from \in Offsets, NEW to \in Offsets, from < to
    PROVE  /\ Apart(RecordExtent(ext, from, to))
           /\ \A x \in ext : \E y \in RecordExtent(ext, from, to) : y[1] <= x[1] /\ x[2] <= y[2]
           /\ \A y \in RecordExtent(ext, from, to) :
                 y[2] = to \/ \E x \in ext : y[2] = x[2]
<1> DEFINE near == {x \in ext : x[1] <= to /\ x[2] >= from}
           a == Min({from} \cup {x[1] : x \in near})
           b == Max({to} \cup {x[2] : x \in near})
           new == RecordExtent(ext, from, to)
<1>1. /\ from \in Nat /\ to \in Nat /\ MaxLen \in Nat /\ from <= MaxLen /\ to <= MaxLen
      /\ \A x \in ext : x[1] \in 0..MaxLen /\ x[2] \in 0..MaxLen /\ x[1] < x[2]
      /\ \A x \in ext : x = <<x[1], x[2]>>
  BY Constants DEF Apart
<1>2. new = (ext \ near) \cup {<<a, b>>}
  BY DEF RecordExtent
<1>3. /\ a \in {from} \cup {x[1] : x \in near} /\ a <= from /\ \A x \in near : a <= x[1]
      /\ a \in 0..MaxLen
  <2>1. {from} \cup {x[1] : x \in near} \subseteq Nat /\ {from} \cup {x[1] : x \in near} # {}
    BY <1>1
  <2>2. /\ a \in {from} \cup {x[1] : x \in near}
        /\ \A y \in {from} \cup {x[1] : x \in near} : a <= y
    BY <2>1, MinIs
  <2> HIDE DEF a
  <2> QED BY <1>1, <2>2
<1>4. /\ b \in {to} \cup {x[2] : x \in near} /\ to <= b /\ \A x \in near : x[2] <= b
      /\ b \in 0..MaxLen
  <2>1. /\ {to} \cup {x[2] : x \in near} \subseteq 0..MaxLen
        /\ {to} \cup {x[2] : x \in near} # {}
    BY <1>1
  <2>2. /\ b \in {to} \cup {x[2] : x \in near}
        /\ \A y \in {to} \cup {x[2] : x \in near} : y <= b
    BY <1>1, <2>1, MaxIs
  <2> HIDE DEF b
  <2> QED BY <1>1, <2>2
<1> HIDE DEF a, b, new
<1>5. a < b
  BY <1>1, <1>3, <1>4
<1>6. ASSUME NEW x \in ext \ near PROVE x[2] < a \/ b < x[1]
  <2>1. x[2] < from \/ to < x[1]
    BY <1>1
  <2>2. \A y \in near : y \in ext /\ y # x /\ (x[2] < y[1] \/ y[2] < x[1])
    BY DEF Apart
  <2>3. CASE x[2] < from
    <3>1. \A y \in near : x[2] < y[1]
      BY <1>1, <2>2, <2>3
    <3> QED BY <1>3, <2>3, <3>1
  <2>4. CASE to < x[1]
    <3>1. \A y \in near : y[2] < x[1]
      BY <1>1, <2>2, <2>4
    <3> QED BY <1>4, <2>4, <3>1
  <2> QED BY <2>1, <2>3, <2>4
<1>7. Apart(new)
  <2>1. new \subseteq Offsets \X Offsets
    BY <1>2, <1>3, <1>4, Constants DEF Apart
  <2>2. \A x \in new : x[1] < x[2]
    BY <1>1, <1>2, <1>5
  <2>3. \A x, y \in new : x # y => x[2] < y[1] \/ y[2] < x[1]
    BY <1>2, <1>6 DEF Apart
  <2> QED BY <2>1, <2>2, <2>3 DEF Apart
<1>8. \A x \in ext : \E y \in new : y[1] <= x[1] /\ x[2] <= y[2]
  <2> TAKE x \in ext
  <2>1. CASE x \in near
    <3>1. <<a, b>> \in new /\ <<a, b>>[1] <= x[1] /\ x[2] <= <<a, b>>[2]
      BY <1>2, <1>3, <1>4, <2>1
    <3> QED BY <3>1
  <2>2. CASE x \notin near
    BY <1>1, <1>2, <2>2
  <2> QED BY <2>1, <2>2
<1>9. \A y \in new : y[2] = to \/ \E x \in ext : y[2] = x[2]
  BY <1>2, <1>4
<1> QED BY <1>7, <1>8, <1>9 DEF new

\* The end of the range at 0.
FirstEnd(ext) == Max({0} \cup {x[2] : x \in {y \in ext : y[1] = 0}})

\* The end of the range at 0, or 0 without one.
LEMMA FrontIs ==
    ASSUME NEW ext, Apart(ext)
    PROVE  /\ FirstEnd(ext) \in Offsets
           /\ FirstEnd(ext) = 0 \/ \E x \in ext : x[1] = 0 /\ x[2] = FirstEnd(ext)
           /\ \A x \in ext : x[1] = 0 => x[2] <= FirstEnd(ext)
<1> DEFINE S == {0} \cup {x[2] : x \in {y \in ext : y[1] = 0}}
<1>1. S \subseteq 0..MaxLen /\ MaxLen \in Nat /\ S # {}
  BY Constants DEF Apart
<1>2. Max(S) \in S /\ \A x \in S : x <= Max(S)
  <2> HIDE DEF S
  <2> QED BY <1>1, MaxIs
<1>3. FirstEnd(ext) = Max(S)
  BY DEF FirstEnd
<1> QED BY <1>1, <1>2, <1>3, Constants

\* Bytes that may be written are not among those a part was cut from.
LEMMA Untouched ==
    ASSUME PartsInv, pc = "open", ~Rewrites, NEW off \in Offsets, NEW n \in Offsets, Fits(off, n),
           NEW i \in 1..sent
    PROVE  ~(off < i /\ i <= off + n)
<1>1. SUFFICES ASSUME off < i, i <= off + n PROVE FALSE
  OBVIOUS
<1>2. sent <= contig /\ sent \in Nat /\ contig = FirstEnd(extents) /\ Apart(extents) /\ contig \in Nat
  BY Constants DEF PartsInv, ExtentsExact, Typed, TypeOK, FirstEnd, Apart
<1>3. PICK x \in extents : x[1] = 0 /\ x[2] = contig
  <2>1. contig # 0
    BY <1>2
  <2> QED BY <1>2, <2>1, FrontIs
<1>4. Covered(i)
  BY <1>2, <1>3 DEF Covered
<1>5. i \in (off + 1)..(off + n)
  BY <1>1, Constants
<1> QED BY <1>4, <1>5 DEF Fits

\* What a write, whole or not, does to the file, and all a part of it needs.
LEMMA Filled ==
    ASSUME PartsInv, pc = "open", stamp < MaxWrites, NEW off \in Offsets, NEW n \in Offsets,
           Fits(off, n), temp' = Fill(temp, off, n, stamp + 1)
    PROVE  /\ temp' \in [1..MaxLen -> Stamps] /\ off + n <= MaxLen
           /\ stamp + 1 \in Stamps /\ \A i \in 1..MaxLen : temp'[i] <= stamp + 1
           /\ \A i \in 1..MaxLen : temp'[i] = IF off < i /\ i <= off + n THEN stamp + 1 ELSE temp[i]
           /\ ~Rewrites => \A i \in 1..sent : temp'[i] = temp[i]
<1>1. /\ temp \in [1..MaxLen -> Stamps] /\ stamp \in Nat /\ MaxWrites \in Nat /\ sent \in 0..MaxLen
      /\ stamp \in Stamps /\ \A i \in 1..MaxLen : temp[i] <= stamp
  BY Constants DEF PartsInv, Typed, TypeOK, Phases
<1>2. stamp + 1 \in Stamps
  BY <1>1 DEF Stamps
<1>3. \A i \in 1..MaxLen : temp'[i] = IF off < i /\ i <= off + n THEN stamp + 1 ELSE temp[i]
  BY DEF Fill
<1>4. temp' \in [1..MaxLen -> Stamps]
  BY <1>1, <1>2 DEF Fill
<1>5. ASSUME NEW i \in 1..MaxLen PROVE temp'[i] <= stamp + 1
  <2>1. temp[i] \in Nat /\ temp[i] <= stamp
    BY <1>1, Constants
  <2> QED BY <1>1, <1>3, <2>1
<1>6. ASSUME ~Rewrites, NEW i \in 1..sent PROVE temp'[i] = temp[i]
  <2>1. i \in 1..MaxLen
    BY <1>1, Constants
  <2> QED BY <1>3, <1>6, <2>1, Untouched
<1> QED BY <1>2, <1>3, <1>4, <1>5, <1>6 DEF Fits

\* The pieces that were cut stay as they are.
LEMMA PiecesStay ==
    ASSUME PartsInv, temp' \in [1..MaxLen -> Stamps], \A i \in 1..sent : temp'[i] = temp[i],
           UNCHANGED <<sent, nextPart>>
    PROVE  \A p \in Cut : Piece(p)' = Piece(p)
<1> TAKE p \in Cut
<1>1. /\ Start(p) \in Nat /\ End(p) \in Nat /\ Start(p) <= End(p) /\ End(p) <= sent
      /\ sent \in Nat /\ sent <= MaxLen /\ MaxLen \in Nat
  BY Ends, Constants DEF PartsInv, Typed, TypeOK
<1>2. temp \in [1..MaxLen -> Stamps]
  BY DEF PartsInv, Typed, TypeOK
<1>3. \A i \in 1..End(p) : temp'[i] = temp[i]
  BY <1>1
<1>4. SubSeq(temp', Start(p) + 1, End(p)) = SubSeq(temp, Start(p) + 1, End(p))
  <2>1. End(p) <= MaxLen
    BY <1>1
  <2> QED BY <1>1, <1>2, <1>3, <2>1, Pieces
<1>5. Start(p)' = Start(p) /\ End(p)' = End(p)
  BY DEF Start, End
<1> QED BY <1>4, <1>5 DEF Piece

\* The rest of a write: no part is cut, sent or lost by it.
LEMMA WritesKeep ==
    ASSUME PartsInv, pc = "open", pc' \in {"open", "dispatch"}, live' = TRUE,
           UNCHANGED <<object, mpu, upload, sent, nextPart, completed, failed, tasks, doomed>>,
           temp' \in [1..MaxLen -> Stamps], stamp' \in Stamps,
           \A i \in 1..MaxLen : temp'[i] <= stamp',
           ~Rewrites => \A i \in 1..sent : temp'[i] = temp[i],
           size' \in Offsets, size <= size', ExtentsExact'
    PROVE  PartsInv'
<1> USE DEF PartsInv
<1>1. Typed'
  BY DEF ExtentsExact, Typed
<1>2. Phases'
  BY DEF Phases
<1>3. Started'
  BY DEF Started
<1>4. Cuts'
  <2>1. size \in Nat /\ size' \in Nat /\ sent \in Nat
    BY Constants DEF Typed, TypeOK
  <2>2. sent = Start(nextPart)
    BY DEF Cuts
  <2> QED BY <2>1, <2>2 DEF Cuts, Start
<1>5. Mine' = Mine /\ Cut' = Cut /\ (\A p : Start(p)' = Start(p) /\ End(p)' = End(p))
  BY DEF Mine, Cut, Start, End
<1>6. Placed'
  BY <1>5 DEF Placed
<1>7. ~Rewrites => Kept'
  <2>1. ASSUME ~Rewrites PROVE \A p \in Cut : Piece(p)' = Piece(p)
    BY <2>1, PiecesStay
  <2>2. completed \subseteq Cut /\ \A t \in Mine : t.part \in Cut
    BY DEF Placed, Typed, TypeOK, Cut
  <2> QED BY <1>5, <2>1, <2>2 DEF Kept
<1> QED BY <1>1, <1>2, <1>3, <1>4, <1>6, <1>7

\* A write that fails changes bytes that no part has.
LEMMA WriteFailsKeeps == ASSUME PartsInv, WriteFails PROVE PartsInv'
<1>1. PICK off, n \in Offsets : Fits(off, n) /\ temp' = Fill(temp, off, n, stamp + 1)
  BY DEF WriteFails
<1>2. /\ pc = "open" /\ stamp < MaxWrites /\ stamp' = stamp + 1 /\ live' = TRUE
      /\ UNCHANGED <<object, mpu, pc, size, extents, contig, upload, sent, nextPart,
                     completed, failed, tasks, doomed>>
  BY DEF WriteFails
<1>3. /\ temp' \in [1..MaxLen -> Stamps] /\ stamp' \in Stamps
      /\ \A i \in 1..MaxLen : temp'[i] <= stamp'
      /\ ~Rewrites => \A i \in 1..sent : temp'[i] = temp[i]
  BY <1>1, <1>2, Filled
<1>4. ExtentsExact' /\ size' \in Offsets /\ size <= size'
  BY <1>2, <1>3, Constants DEF PartsInv, ExtentsExact, TypeOK
<1> QED BY <1>2, <1>3, <1>4, WritesKeep

\* A write does, and adds its range to the extents.
LEMMA WriteKeeps == ASSUME PartsInv, Write PROVE PartsInv'
<1>1. PICK off \in Offsets, n \in 1..MaxLen :
        /\ Fits(off, n)
        /\ temp' = Fill(temp, off, n, stamp + 1)
        /\ size' = Max({size, off + n})
        /\ extents' = RecordExtent(extents, off, off + n)
        /\ contig' = Contiguous(extents', contig)
  BY DEF Write
<1>2. /\ pc = "open" /\ pc' = "dispatch" /\ stamp < MaxWrites /\ stamp' = stamp + 1 /\ live' = TRUE
      /\ UNCHANGED <<object, mpu, upload, sent, nextPart, completed, failed, tasks, doomed>>
  BY DEF Write
<1>3. n \in Offsets /\ off \in Nat /\ n \in Nat /\ n > 0 /\ off + n <= MaxLen /\ off + n \in Offsets
  BY <1>1, Constants DEF Fits
<1>4. /\ temp' \in [1..MaxLen -> Stamps] /\ stamp' \in Stamps
      /\ \A i \in 1..MaxLen : temp'[i] <= stamp'
      /\ ~Rewrites => \A i \in 1..sent : temp'[i] = temp[i]
  BY <1>1, <1>2, <1>3, Filled
<1>5. size' \in Offsets /\ size <= size' /\ off + n <= size' /\ size \in Nat /\ size' \in Nat
  <2>1. size \in Nat /\ size <= MaxLen /\ {size, off + n} \subseteq 0..MaxLen
    BY <1>3, Constants DEF PartsInv, Typed, TypeOK
  <2>2. size' \in {size, off + n} /\ size <= size' /\ off + n <= size'
    BY <1>1, <2>1, MaxIs, Constants
  <2> QED BY <1>3, <2>1, <2>2, Constants
<1>6. ExtentsExact /\ Apart(extents) /\ contig = FirstEnd(extents) /\ contig \in Nat /\ sent \in Nat
  BY Constants DEF PartsInv, ExtentsExact, Typed, TypeOK, Apart, FirstEnd
<1>7. /\ Apart(extents')
      /\ \A x \in extents : \E y \in extents' : y[1] <= x[1] /\ x[2] <= y[2]
      /\ \A y \in extents' : y[2] = off + n \/ \E x \in extents : y[2] = x[2]
  <2>1. off < off + n
    BY <1>3
  <2> QED BY <1>1, <1>3, <1>6, <2>1, Recorded
<1>8. contig <= FirstEnd(extents')
  <2>1. FirstEnd(extents') \in Nat
    BY <1>7, FrontIs, Constants
  <2>2. ASSUME contig # 0 PROVE contig <= FirstEnd(extents')
    <3>1. PICK x \in extents : x[1] = 0 /\ x[2] = contig
      BY <1>6, <2>2, FrontIs
    <3>2. PICK y \in extents' : y[1] <= x[1] /\ x[2] <= y[2]
      BY <1>7
    <3>3. y[1] \in Nat /\ y[2] \in Nat
      BY <1>7, Constants DEF Apart
    <3>4. y[1] = 0 /\ y[2] <= FirstEnd(extents')
      BY <1>7, <3>1, <3>2, <3>3, FrontIs
    <3> QED BY <1>6, <2>1, <3>1, <3>2, <3>3, <3>4
  <2> QED BY <1>6, <2>1, <2>2
<1>9. contig' = FirstEnd(extents') /\ contig' \in Offsets
  <2> DEFINE S == {contig} \cup {x[2] : x \in {y \in extents' : y[1] = 0}}
  <2>1. S \subseteq 0..MaxLen /\ S # {} /\ MaxLen \in Nat
    BY <1>6, <1>7, Constants DEF Apart, PartsInv, Typed, TypeOK
  <2>2. contig' = Max(S)
    BY <1>1 DEF Contiguous
  <2>3. Max(S) \in S /\ \A x \in S : x <= Max(S)
    <3> HIDE DEF S
    <3> QED BY <2>1, MaxIs
  <2>4. FirstEnd(extents') = 0 \/ FirstEnd(extents') \in S
    BY <1>7, FrontIs
  <2>5. \A x \in S : x \in Nat /\ x <= FirstEnd(extents')
    <3>1. \A x \in S : x = contig \/ \E y \in extents' : y[1] = 0 /\ x = y[2]
      OBVIOUS
    <3>2. \A y \in extents' : y[1] = 0 => y[2] <= FirstEnd(extents')
      BY <1>7, FrontIs
    <3>3. \A x \in S : x \in Nat
      BY <2>1
    <3> HIDE DEF S
    <3> QED BY <1>8, <3>1, <3>2, <3>3
  <2> HIDE DEF S
  <2>6. contig' \in Nat /\ contig' <= FirstEnd(extents')
    BY <2>2, <2>3, <2>5
  <2>7. FirstEnd(extents') <= contig' /\ FirstEnd(extents') \in Nat
    BY <1>7, <2>2, <2>3, <2>4, <2>6, FrontIs, Constants
  <2> QED BY <1>7, <2>6, <2>7, FrontIs, Constants
<1>10. ExtentsExact'
  <2>1. TypeOK'
    BY <1>2, <1>4, <1>5, <1>7, <1>9 DEF PartsInv, Typed, TypeOK, Apart
  <2>2. ASSUME NEW y \in extents' PROVE y[1] < y[2] /\ y[2] <= size'
    <3>1. y[1] < y[2]
      BY <1>7 DEF Apart
    <3>2. \A x \in extents : x[2] <= size /\ x[2] \in Nat
      BY <1>6, Constants DEF ExtentsExact, Apart
    <3> QED BY <1>5, <1>7, <3>1, <3>2
  <2>3. sent <= contig'
    BY <1>2, <1>6, <1>8, <1>9, Constants DEF ExtentsExact
  <2> QED BY <1>2, <1>7, <1>9, <2>1, <2>2, <2>3 DEF ExtentsExact, Apart, FirstEnd
<1> QED BY <1>2, <1>4, <1>5, <1>10, WritesKeep

-----------------------------------------------------------------------------
\* The invariant is inductive.
LEMMA InvNext == PartsInv /\ [Next]_vars => PartsInv'
<1> SUFFICES ASSUME PartsInv, [Next]_vars PROVE PartsInv'
  OBVIOUS
<1>1. CASE HandleCall
  BY <1>1, CallsKeep, FreshStarts, WriteKeeps, WriteFailsKeeps DEF HandleCall
<1>2. CASE CallStep
  BY <1>2, CallsKeep, FreshStarts, StartKeeps, SpawnKeeps DEF CallStep
<1>3. CASE TaskStep
  BY <1>3, ReadKeeps, StoredKeeps, FailKeeps DEF TaskStep
<1>4. CASE Crash
  BY <1>4, FreshStarts
<1>5. CASE UNCHANGED vars
  <2>1. Phases'
    BY <1>5 DEF vars, ws, PartsInv, Phases, Mine, Bare
  <2>2. /\ UNCHANGED <<mpu, ws, tasks, stamp, object, doomed, live, pc>>
        /\ pc \in {"open", "dispatch", "loop"} => sent <= contig
    BY <1>5 DEF vars, PartsInv, ExtentsExact
  <2> QED BY <2>1, <2>2, CallKeeps DEF PartsInv, Typed, TypeOK
<1> QED BY <1>1, <1>2, <1>3, <1>4, <1>5 DEF Next

\* So it always holds.
LEMMA InvAlways == Spec => []PartsInv
BY InvInit, InvNext, PTL DEF Spec

\* However the application's writes overlap, and whatever fails, extents and contig_bytes
\* are what was written, nothing is cut across a hole, and only the tail that cleanup cuts
\* is not PART_TARGET long (winfsp_vfs.rs record_extent, dispatch_ready_parts).
THEOREM PartsAreExact == Spec => []PartsExact
<1>1. PartsInv => PartsExact
  <2> SUFFICES ASSUME PartsInv PROVE PartsExact
    OBVIOUS
  <2>1. ASSUME pc = "complete", NEW p \in completed, p < nextPart - 1
        PROVE  Len(mpu[upload].parts[p]) = PartTarget
    <3>1. p \in Cut
      BY DEF PartsInv, Typed, TypeOK, Cut
    <3>2. End(p) - Start(p) = PartTarget
      BY <2>1, <3>1, Ends DEF PartsInv
    <3> QED BY <3>2 DEF PartsInv, Placed
  <2> QED BY <2>1 DEF PartsExact, FullParts, PartsInv
<1> QED BY <1>1, InvAlways, PTL

-----------------------------------------------------------------------------
(* The object is replaced by the whole file or not at all. *)

\* The parts, one after the other, are the file.
LEMMA AssembledWhole ==
    ASSUME PartsInv, pc = "complete", ~Rewrites
    PROVE  Assembled = SubSeq(temp, 1, size)
<1> DEFINE s == [p \in Cut |-> IF p \in completed THEN mpu[upload].parts[p] ELSE <<>>]
           f == [p \in Cut |-> SubSeq(temp, 1, End(p))]
<1>a. PICK n : n = nextPart - 1
  OBVIOUS
<1>1. /\ n \in Nat /\ Cut = 1..n /\ sent = size /\ sent \in Nat /\ sent <= MaxLen /\ MaxLen \in Nat
      /\ temp \in [1..MaxLen -> Stamps] /\ nextPart = n + 1
  BY <1>a, Constants DEF PartsInv, Phases, Typed, TypeOK, Cut
<1>2. \A p \in Cut : p \in completed
  BY DEF PartsInv, Phases, Placed
<1>3. \A p \in Cut : s[p] = Piece(p) /\ f[p] = SubSeq(temp, 1, End(p))
  BY <1>2 DEF PartsInv, Kept
<1>4. \A p \in Cut :
        /\ Start(p) \in Nat /\ End(p) \in Nat /\ Start(p) <= End(p) /\ End(p) <= MaxLen
        /\ p + 1 \in Cut => End(p) = Start(p + 1)
        /\ p = n => End(p) = sent
  BY <1>1, <1>a, Ends DEF PartsInv
<1>5. temp \in Seq(Stamps) /\ Len(temp) = MaxLen
  <2>1. temp \in Seq(Stamps)
    BY <1>1, SeqDef
  <2>2. DOMAIN temp = 1..Len(temp) /\ Len(temp) \in Nat
    BY <2>1, LenProperties
  <2> QED BY <1>1, <2>1, <2>2
<1>6. \A p \in Cut : SubSeq(temp, 1, Start(p)) \o Piece(p) = SubSeq(temp, 1, End(p))
  <2> TAKE p \in Cut
  <2>1. /\ 1 \in 1..(Len(temp) + 1) /\ Start(p) \in (1 - 1)..Len(temp)
        /\ End(p) \in Start(p)..Len(temp)
    BY <1>1, <1>4, <1>5
  <2> QED BY <1>5, <2>1, ConcatAdjacentSubSeq DEF Piece
<1>7. f \in [1..n -> Seq(Stamps)] /\ s \in [1..n -> Seq(Stamps)]
  <2>1. ASSUME NEW p \in Cut PROVE f[p] \in Seq(Stamps) /\ s[p] \in Seq(Stamps)
    <3>1. SubSeq(temp, Start(p) + 1, End(p)) \in Seq(Stamps)
      BY <1>1, <1>4, Pieces
    <3>2. \A i \in 1..End(p) : temp[i] \in Stamps
      BY <1>1, <1>4
    <3>3. SubSeq(temp, 1, End(p)) \in Seq(Stamps)
      BY <1>4, <3>2, SubSeqProperties
    <3> QED BY <1>3, <3>1, <3>3 DEF Piece
  <2> QED BY <1>1, <2>1
<1> HIDE DEF s, f
<1>8. Len(s) = n /\ (n = 0 => s = <<>>)
  <2>1. s \in Seq(Seq(Stamps))
    BY <1>1, <1>7, SeqDef
  <2>2. DOMAIN s = 1..Len(s) /\ Len(s) \in Nat
    BY <2>1, LenProperties
  <2>3. Len(s) = n
    BY <1>1, <1>7, <2>2
  <2>4. Len(s) = 0 => s = <<>>
    BY <2>1, EmptySeq
  <2> QED BY <2>3, <2>4
<1>9. Joins(f, s, n)
  <2>1. ASSUME n > 0 PROVE f[1] = s[1]
    <3>1. 1 \in Cut /\ Start(1) + 1 = 1
      BY <1>1, <2>1, Starts
    <3>2. Piece(1) = SubSeq(temp, 1, End(1))
      BY <3>1, Zenon DEF Piece
    <3>3. s[1] = Piece(1) /\ f[1] = SubSeq(temp, 1, End(1))
      BY <1>3, <3>1
    <3> QED BY <3>2, <3>3, Zenon
  <2>2. ASSUME NEW i \in 1..n, i > 1 PROVE f[i] = f[i - 1] \o s[i]
    <3>1. i \in Cut /\ i - 1 \in Cut /\ (i - 1) + 1 = i
      BY <1>1, <2>2
    <3>2. End(i - 1) = Start(i)
      BY <1>4, <3>1
    <3>3. f[i - 1] = SubSeq(temp, 1, Start(i))
      BY <1>3, <3>1, <3>2
    <3> QED BY <1>3, <1>6, <3>1, <3>3, Zenon
  <2> QED BY <2>1, <2>2 DEF Joins
<1>10. FlattenSeq(s) = IF n = 0 THEN <<>> ELSE f[n]
  BY <1>1, <1>7, <1>8, <1>9, Flattened
<1>11. CASE n = 0
  <2>1. sent = 0
    BY <1>1, <1>11 DEF PartsInv, Cuts
  <2>2. SubSeq(temp, 1, size) = <<>>
    BY <1>1, <2>1, SubSeqEmpty
  <2> QED BY <1>10, <1>11, <2>2 DEF Assembled, s
<1>12. CASE n > 0
  <2>1. f[n] = SubSeq(temp, 1, size)
    BY <1>1, <1>3, <1>4, <1>12
  <2> QED BY <1>10, <1>12, <2>1 DEF Assembled, s
<1> QED BY <1>1, <1>11, <1>12

Spool    == IF live THEN [bytes |-> temp, size |-> size] ELSE NoSpool
Promises == Promise!Next \/ UNCHANGED <<object, Spool>>

\* What is spooled is of the kind AtomicUpload says, and what the next write adds to.
LEMMA Spools ==
    ASSUME PartsInv
    PROVE  /\ [bytes |-> temp, size |-> size] \in Promise!Spools
           /\ [bytes |-> temp, size |-> size] # NoSpool
           /\ NoSpool \notin Promise!Spools
           /\ pc # "abort" => Promise!Collected = [bytes |-> temp, size |-> size]
           /\ pc # "abort" /\ ~live => Promise!EmptySpool = [bytes |-> temp, size |-> size]
<1>1. temp \in [1..MaxLen -> Stamps] /\ size \in Offsets
  BY DEF PartsInv, Typed, TypeOK
<1>2. Promise!Spools = [bytes : [1..MaxLen -> Stamps], size : Offsets]
  BY DEF Promise!Spools, Promise!Stamps, Stamps, Offsets
<1>3. NoSpool \notin Promise!Spools
  BY <1>2, UploadAssumption
<1>4. [bytes |-> temp, size |-> size] \in Promise!Spools
  BY <1>1, <1>2
<1>5. ASSUME pc # "abort", ~live
      PROVE  Promise!EmptySpool = [bytes |-> temp, size |-> size]
  BY <1>5 DEF PartsInv, Phases, Bare, Promise!EmptySpool
<1>6. ASSUME pc # "abort"
      PROVE  Promise!Collected = [bytes |-> temp, size |-> size]
  <2>1. CASE live
    BY <1>3, <1>4, <2>1 DEF Promise!Collected
  <2>2. CASE ~live
    BY <1>5, <1>6, <2>2 DEF Promise!Collected
  <2> QED BY <2>1, <2>2
<1> QED BY <1>3, <1>4, <1>5, <1>6

\* A write of a byte or more changes the file, in one range and to one value.
LEMMA Overwritten ==
    ASSUME PartsInv, stamp < MaxWrites, NEW off \in Offsets, NEW n \in 1..MaxLen,
           off + n <= MaxLen, temp' = Fill(temp, off, n, stamp + 1)
    PROVE  /\ off \in 0..(MaxLen - 1)
           /\ temp' # temp
           /\ temp' \in [1..MaxLen -> Stamps]
           /\ temp' = [i \in 1..MaxLen |-> IF off < i /\ i <= off + n THEN temp'[off + 1]
                                           ELSE temp[i]]
<1>1. /\ temp \in [1..MaxLen -> Stamps] /\ stamp \in Nat /\ off \in Nat /\ n \in Nat /\ n > 0
      /\ MaxLen \in Nat /\ MaxWrites \in Nat
  BY Constants DEF PartsInv, Typed, TypeOK
<1>2. off + 1 \in 1..MaxLen /\ off < off + 1 /\ off + 1 <= off + n /\ off \in 0..(MaxLen - 1)
  BY <1>1
<1>3. temp'[off + 1] = stamp + 1
  BY <1>2 DEF Fill
<1>4. temp[off + 1] <= stamp /\ temp[off + 1] \in Nat
  BY <1>1, <1>2, Constants DEF PartsInv, Phases
<1>5. temp' # temp
  BY <1>1, <1>3, <1>4
<1>6. stamp + 1 \in Stamps
  BY <1>1 DEF Stamps
<1>7. temp' \in [1..MaxLen -> Stamps]
  BY <1>1, <1>6 DEF Fill
<1>8. temp' = [i \in 1..MaxLen |-> IF off < i /\ i <= off + n THEN temp'[off + 1] ELSE temp[i]]
  BY <1>3, Zenon DEF Fill
<1> QED BY <1>2, <1>5, <1>7, <1>8

\* A write is one of AtomicUpload.
LEMMA WriteImplements == ASSUME PartsInv, Write PROVE Promise!Write
<1>1. PICK off \in Offsets, n \in 1..MaxLen :
        Fits(off, n) /\ temp' = Fill(temp, off, n, stamp + 1) /\ size' = Max({size, off + n})
  BY DEF Write
<1>2. live' /\ pc = "open" /\ stamp < MaxWrites /\ UNCHANGED object
  BY DEF Write
<1>3. off + n <= MaxLen
  BY <1>1 DEF Fits
<1>4. /\ off \in 0..(MaxLen - 1) /\ temp' # temp
      /\ temp' \in [1..MaxLen -> Stamps]
      /\ temp' = [i \in 1..MaxLen |-> IF off < i /\ i <= off + n THEN temp'[off + 1]
                                      ELSE temp[i]]
  BY <1>1, <1>2, <1>3, Overwritten
<1>5. size' = IF off + n > size THEN off + n ELSE size
  <2>1. size \in 0..MaxLen /\ off + n \in 0..MaxLen /\ MaxLen \in Nat
    BY <1>1, <1>3, Constants DEF PartsInv, Typed, TypeOK
  <2>2. {size, off + n} \subseteq 0..MaxLen /\ {size, off + n} # {}
    BY <2>1
  <2>3. Max({size, off + n}) \in {size, off + n} /\ \A x \in {size, off + n} : x <= Max({size, off + n})
    BY <2>1, <2>2, MaxIs
  <2> QED BY <1>1, <2>1, <2>3
<1>6. size' \in 0..MaxLen
  BY <1>1, <1>3, <1>5, Constants DEF PartsInv, Typed, TypeOK
<1> DEFINE new == [bytes |-> temp', size |-> size']
<1>7. new \in Promise!Spools /\ new # NoSpool
  <2>1. new \in Promise!Spools
    BY <1>4, <1>6 DEF Promise!Spools, Promise!Stamps, Stamps
  <2> QED BY <2>1, Spools
<1>8. new # Spool
  BY <1>4, <1>7 DEF Spool
<1>9. Promise!Collected = [bytes |-> temp, size |-> size]
  BY <1>2, Spools
<1>10. Promise!Differ(Promise!Collected, new, off, n)
  BY <1>4, <1>9, Zenon DEF Promise!Differ
<1>11. new.size = IF off + n > Promise!Collected.size THEN off + n ELSE Promise!Collected.size
  BY <1>5, <1>9
<1>12. (IF live' THEN [bytes |-> temp', size |-> size'] ELSE NoSpool) = new
  BY <1>2
<1>13. n \in 1..MaxLen
  OBVIOUS
<1> HIDE DEF new
<1> QED BY <1>2, <1>3, <1>4, <1>7, <1>8, <1>10, <1>11, <1>12, <1>13 DEF Promise!Write, Spool

\* So is one that fails, but for the first that writes nothing, which begins the spool.
LEMMA WriteFailsImplements == ASSUME PartsInv, WriteFails PROVE Promises
<1>1. PICK off \in Offsets, n \in Offsets :
        Fits(off, n) /\ temp' = Fill(temp, off, n, stamp + 1)
  BY DEF WriteFails
<1>2. live' /\ pc = "open" /\ stamp < MaxWrites /\ UNCHANGED <<object, size>>
  BY DEF WriteFails
<1>3. off + n <= MaxLen
  BY <1>1 DEF Fits
<1> DEFINE new == [bytes |-> temp', size |-> size']
<1>n. Spool' = new /\ (IF live' THEN [bytes |-> temp', size |-> size'] ELSE NoSpool) = new
  BY <1>2 DEF Spool
<1>4. CASE n = 0
  <2>1. temp' = temp
    <3>1. \A i \in 1..MaxLen : ~(off < i /\ i <= off + n)
      BY <1>4, Constants
    <3>2. temp = [i \in 1..MaxLen |-> temp[i]]
      BY DEF PartsInv, Typed, TypeOK
    <3> QED BY <1>1, <3>1, <3>2 DEF Fill
  <2>2. CASE live
    BY <1>2, <1>n, <2>1, <2>2 DEF Promises, Spool
  <2>3. CASE ~live
    <3>1. new = Promise!EmptySpool
      BY <1>2, <2>1, <2>3, Spools
    <3> QED BY <1>2, <1>n, <3>1 DEF Promises, Promise!Next, Promise!Begin
  <2> QED BY <2>2, <2>3
<1>5. CASE n # 0
  <2>0. n \in 1..MaxLen /\ n \in 0..MaxLen
    BY <1>5, Constants
  <2>1. /\ off \in 0..(MaxLen - 1) /\ temp' # temp
        /\ temp' \in [1..MaxLen -> Stamps]
        /\ temp' = [i \in 1..MaxLen |-> IF off < i /\ i <= off + n THEN temp'[off + 1]
                                        ELSE temp[i]]
    BY <1>1, <1>2, <1>3, <2>0, Overwritten
  <2>2. size' \in 0..MaxLen
    BY <1>2, Constants DEF PartsInv, Typed, TypeOK
  <2>3. new \in Promise!Spools /\ new # NoSpool
    <3>1. new \in Promise!Spools
      BY <2>1, <2>2 DEF Promise!Spools, Promise!Stamps, Stamps
    <3> QED BY <3>1, Spools
  <2>4. new # Spool
    BY <2>1, <2>3 DEF Spool
  <2>5. Promise!Collected = [bytes |-> temp, size |-> size]
    BY <1>2, Spools
  <2>6. Promise!Differ(Promise!Collected, new, off, n)
    BY <2>1, <2>5, Zenon DEF Promise!Differ
  <2>7. new.size = Promise!Collected.size
    BY <1>2, <2>5
  <2> HIDE DEF new
  <2>8. Promise!WriteFails
    BY <1>2, <1>3, <1>n, <2>0, <2>1, <2>3, <2>4, <2>6, <2>7 DEF Promise!WriteFails, Spool
  <2> QED BY <2>8 DEF Promises, Promise!Next
<1> QED BY <1>4, <1>5

\* A step after which nothing is being written, and the object is as it was.
LEMMA Discarded ==
    ASSUME ~live', UNCHANGED object PROVE Promises
BY DEF Promises, Promise!Next, Promise!Discard

\* A step that leaves the object and the spool alone.
LEMMA Stuttered ==
    ASSUME UNCHANGED <<object, live, temp, size>> PROVE Promises
BY DEF Promises, Spool

\* A step that makes the object what has been written.
LEMMA Committed ==
    ASSUME PartsInv, live, ~live', object' = SubSeq(temp, 1, size) PROVE Promises
<1>1. [bytes |-> temp, size |-> size] # NoSpool
  BY Spools
<1>2. Promise!Commit
  BY <1>1 DEF Promise!Commit, Promise!Content
<1> QED BY <1>2 DEF Promises, Promise!Next

\* A new file, empty.
LEMMA Begun ==
    ASSUME live', Fresh, UNCHANGED object PROVE Promises
BY DEF Fresh, Promises, Promise!Next, Promise!Begin, Promise!EmptySpool

\* Every step of the write path is one of AtomicUpload, or none.
LEMMA StepImplements ==
    ASSUME PartsInv, [Next]_vars, ~Rewrites PROVE Promises
<1>1. CASE Create
  BY <1>1, Begun DEF Create
<1>2. CASE Overwrite
  <2>1. CASE live'
    BY <1>2, <2>1, Begun DEF Overwrite
  <2>2. CASE ~live'
    BY <1>2, <2>2, Discarded DEF Overwrite, Fresh
  <2> QED BY <2>1, <2>2
<1>3. CASE Write
  BY <1>3, WriteImplements DEF Promises, Promise!Next
<1>4. CASE WriteFails
  BY <1>4, WriteFailsImplements
<1>5. CASE Open \/ SetDelete \/ CleanupIdle \/ CleanupFinalizes
  BY <1>5, Stuttered DEF Open, SetDelete, CleanupIdle, CleanupFinalizes, ws
<1>6. CASE DispatchCheck \/ StartMultipart \/ StartFails \/ SpawnPart \/ DispatchDone
  BY <1>6, Stuttered DEF DispatchCheck, StartMultipart, StartFails, SpawnPart, DispatchDone, ws
<1>7. CASE Drain \/ CompleteFails
  BY <1>7, Stuttered DEF Drain, CompleteFails, ws
<1>8. CASE TaskStep
  BY <1>8, Stuttered DEF TaskStep, ReadPart, PartStored, PartFails, ws
<1>9. CASE CleanupDiscards \/ Abort \/ Crash
  BY <1>9, Discarded DEF CleanupDiscards, Abort, Crash, Dropped
<1>10. CASE SinglePut
  <2>1. pc = "put" /\ live /\ ~live'
    BY <1>10 DEF SinglePut, Dropped, PartsInv, Phases
  <2>2. CASE object' = SubSeq(temp, 1, size)
    BY <2>1, <2>2, Committed
  <2>3. CASE UNCHANGED object
    BY <2>1, <2>3, Discarded
  <2> QED BY <1>10, <2>2, <2>3 DEF SinglePut
<1>11. CASE Complete
  <2>1. pc = "complete" /\ live /\ ~live'
    BY <1>11 DEF Complete, Dropped, PartsInv, Phases
  <2>2. object' = Assembled
    BY <1>11 DEF Complete, Assembled, Cut
  <2>3. Assembled = SubSeq(temp, 1, size)
    BY <2>1, AssembledWhole
  <2> QED BY <2>1, <2>2, <2>3, Committed
<1>12. CASE Delete
  <2>1. ~live /\ ~live' /\ (object' = Missing \/ UNCHANGED object)
    BY <1>12 DEF Delete, PartsInv, Phases
  <2>2. CASE object' = Missing
    BY <2>1, <2>2 DEF Promises, Promise!Next, Promise!Delete
  <2> QED BY <2>1, <2>2, Discarded
<1>13. CASE UNCHANGED vars
  BY <1>13, Stuttered DEF vars, ws
<1> QED BY <1>1, <1>2, <1>3, <1>4, <1>5, <1>6, <1>7, <1>8, <1>9, <1>10, <1>11, <1>12, <1>13
        DEF Next, HandleCall, CallStep

\* While the application writes no byte twice once it has gone into a part, the object
\* is only ever replaced by all that was written through the handle since it began, in
\* one step, whatever fails and whenever the process dies (winfsp_vfs.rs
\* dispatch_ready_parts, finalize_write, cleanup).
THEOREM UploadIsAtomic == ~Rewrites => (Spec => WholeFileOrNothing)
<1> SUFFICES ASSUME ~Rewrites PROVE Spec => WholeFileOrNothing
  OBVIOUS
<1>1. Init => Promise!Init
  BY DEF Init, Promise!Init
<1>2. PartsInv /\ [Next]_vars
        => [Promise!Next]_<<object, IF live THEN [bytes |-> temp, size |-> size] ELSE NoSpool>>
  BY StepImplements DEF Promises, Spool
<1> QED BY <1>1, <1>2, InvAlways, PTL DEF Spec, WholeFileOrNothing, Promise!Spec
=============================================================================
