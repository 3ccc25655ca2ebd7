---------------------------- MODULE AtomicUpload ----------------------------
(***************************************************************************)
(* What writing a file through a handle promises: the bytes written since  *)
(* the handle began collecting them are spooled out of sight, and the      *)
(* object is replaced by all of them in one step or not at all.            *)
(***************************************************************************)
EXTENDS Integers, Sequences

CONSTANTS
    MaxLen,     \* bound: bytes (in units of the model) of a file
    MaxWrites,  \* bound: write calls; each writes its own number as bytes
    Missing,    \* "no such object"
    NoSpool     \* nothing is being written

VARIABLES
    object,     \* contents of the object in the bucket
    spool       \* what the handle has collected

Stamps   == 0..MaxWrites
Contents == UNION {[1..n -> Stamps] : n \in 0..MaxLen}

Spools   == [bytes : [1..MaxLen -> Stamps], size : 0..MaxLen]

EmptySpool == [bytes |-> [i \in 1..MaxLen |-> 0], size |-> 0]

\* What the next write adds to.
Collected == IF spool = NoSpool THEN EmptySpool ELSE spool

\* The bytes of t are those of s but for one range, written with one value.
Differ(s, t, off, n) ==
    t.bytes = [i \in 1..MaxLen |-> IF off < i /\ i <= off + n THEN t.bytes[off + 1]
                                  ELSE s.bytes[i]]

Content(s) == SubSeq(s.bytes, 1, s.size)

Init == object \in {Missing, <<>>} /\ spool = NoSpool

Begin ==
    /\ spool' = EmptySpool
    /\ UNCHANGED object

Write ==
    /\ spool' \in Spools \ {spool}
    /\ \E off \in 0..(MaxLen - 1), n \in 1..MaxLen :
          /\ off + n <= MaxLen
          /\ spool'.size = IF off + n > Collected.size THEN off + n ELSE Collected.size
          /\ Differ(Collected, spool', off, n)
    /\ UNCHANGED object

\* The local disk takes a part of the bytes and refuses the rest.
WriteFails ==
    /\ spool' \in Spools \ {spool}
    /\ spool'.size = Collected.size
    /\ \E off \in 0..(MaxLen - 1), n \in 0..MaxLen :
          off + n <= MaxLen /\ Differ(Collected, spool', off, n)
    /\ UNCHANGED object

Commit ==
    /\ spool # NoSpool
    /\ object' = Content(spool)
    /\ spool' = NoSpool

Discard ==
    /\ spool' = NoSpool
    /\ UNCHANGED object

Delete ==
    /\ spool = NoSpool
    /\ object' = Missing
    /\ UNCHANGED spool

Next == Begin \/ Write \/ WriteFails \/ Commit \/ Discard \/ Delete

Spec == Init /\ [][Next]_<<object, spool>>
=============================================================================
