----------------------------- MODULE MCFolderMoves -----------------------------
(* FolderMoves on a small instance. *)
EXTENDS FolderMoves, TLC

CONSTANT MaxEvents   \* bound: calls and writes while calls overlap

CallerSymmetry == Permutations(Callers)

Working == {p \in Callers : call'[p].pc # "idle"}

\* A call that is alone may follow on all the calls and writes there are.
Few == Cardinality(Working) > 1 => (begun' + writes') - MaxName <= MaxEvents

MCSpec == Init /\ [][Next /\ Few]_vars
=============================================================================
