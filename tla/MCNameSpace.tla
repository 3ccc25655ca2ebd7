----------------------------- MODULE MCNameSpace -----------------------------
(***************************************************************************)
(* NameSpace on a small instance, in two scenes: what one machine does to  *)
(* a tree, and how a directory is listed while names come and go, which    *)
(* others change as well.                                                  *)
(***************************************************************************)
EXTENDS NameSpace

VARIABLE scene   \* what a behaviour is about

\* Names 2 and 3 differ in case only; so do 4 and 5.
Few == {2, 3}

MCInit ==
    /\ Init
    /\ \/ scene = "tree" /\ bucket = {<<3, 6>>}
       \/ scene = "scan" /\ bucket \subseteq {<<n>> : n \in Top}

\* Two names of directories and files, at first a file in one; nobody else writes, no listing
\* expires while the program runs.
TreeNext ==
    \/ \E k \in {k \in Paths : k[1] \in Few} :
        \/ Lookup(k) \/ LookupFails(k) \/ CreateDir(k) \/ CreateFile(k) \/ CreateBlind(k)
        \/ Close(k) \/ CloseFails(k) \/ DeleteFile(k) \/ RemoveDir(k) \/ MetaExpires(k)
        \/ \E n \in IF Len(k) = 1 THEN Few ELSE Inner : Rename(k, n)
    \/ Restart

\* After the last change no more than one file is still to be uploaded.
FewPending == changes' = MaxChanges => Cardinality(pending') <= 1

\* The root is listed while names come, go and change in it.
ScanNext ==
    \/ \E n \in Top : \/ CreateDir(<<n>>) \/ DeleteFile(<<n>>) \/ RemoveDir(<<n>>)
                      \/ RemoteChange(<<n>>)
                      \/ \E m \in Top : Rename(<<n>>, m)
    \/ ScanStart(Root) \/ ScanPage \/ ScanFails \/ ScanStops \/ ListingExpires(Root)

MCNext ==
    /\ scene' = scene
    /\ \/ scene = "tree" /\ TreeNext /\ FewPending
       \/ scene = "scan" /\ ScanNext

MCSpec == MCInit /\ [][MCNext]_<<vars, scene>> /\ Fairness
=============================================================================
