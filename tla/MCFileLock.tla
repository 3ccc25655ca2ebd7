----------------------------- MODULE MCFileLock -----------------------------
(***************************************************************************)
(* Three machines, one of which has two calls under way, for TLC.  No more *)
(* than MaxBusy of the handles are in use at the same time.                *)
(***************************************************************************)
EXTENDS FileLock, TLC

CONSTANTS m1, m2, m3, h1, h2, h3, h4, MaxBusy

TwoOnOne == (h1 :> m1) @@ (h2 :> m1) @@ (h3 :> m2) @@ (h4 :> m3)

Few == Cardinality({h \in Handles : pc'[h] # "idle"}) <= MaxBusy

MCSpec ==
    /\ LockInit /\ [][LockNext /\ Few]_lockVars
    /\ WF_lockVars(Tick)
    /\ \A h \in Handles : /\ WF_lockVars(CheckFree(h) \/ CheckForeign(h)) /\ WF_lockVars(Acquire(h))
                          /\ WF_lockVars(CloseLocal(h)) /\ WF_lockVars(Release(h))
=============================================================================
