-------------------------- MODULE MCCoordinatorLoop --------------------------
(***************************************************************************)
(* CoordinatorLoop on a small instance, in two scenes: one client for as   *)
(* long as its table of back-offs and longer, and two clients of one drive *)
(* in any overlap.                                                         *)
(***************************************************************************)
EXTENDS CoordinatorLoop

CONSTANTS d1, l1

VARIABLE scene   \* what a behaviour is about

MCOf == [l \in Loops |-> d1]

MCInit == Init /\ scene \in {"long", "twice"}

\* Only one client is made, and it goes through everything.
LongScene == \A l \in Loops \ {l1} : stage'[l] = "before"

\* Each client fails once between two acks, gets one push and is not left in silence.
TwiceScene ==
    \A l \in Loops : failures'[l] <= 1 /\ sent'[l] <= 1 /\ ~silent'[l]

MCNext ==
    /\ scene' = scene
    /\ Next
    /\ IF scene = "long" THEN LongScene ELSE TwiceScene

MCSpec == MCInit /\ [][MCNext]_<<vars, scene>> /\ Fairness
=============================================================================
