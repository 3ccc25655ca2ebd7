------------------------------ MODULE MCAccount ------------------------------
(***************************************************************************)
(* An instance of Account for TLC: commands that overlap are among the     *)
(* first MaxOverlap, and after these they come one at a time.              *)
(***************************************************************************)
EXTENDS Account, TLC

CONSTANT MaxOverlap

Symmetric == Permutations(Tasks) \cup Permutations(Tokens)

Overlap == Cardinality({p \in Tasks : task'[p].pc # "idle"}) > 1

MCSpec == Init /\ [][Next /\ (Overlap => begun' <= MaxOverlap)]_vars
=============================================================================
