---------------------------- MODULE MCListingCache ----------------------------
(***************************************************************************)
(* ListingCache on a small instance, in two scenes: what invalidations     *)
(* leave behind, and how old a listing gets when nobody invalidates.       *)
(***************************************************************************)
EXTENDS ListingCache, FiniteSets

VARIABLE scene   \* what a behaviour is about

Entries == ({mem', disk'} \cup {meta'[n] : n \in Names}) \ {None}

Working == {r \in Fillers : pc'[r] # "idle"} \cup {d \in Droppers : drop'[d] # <<>>}

\* Any order of changes, droppers and fillers; nothing gets older than it takes to expire,
\* and once the last change is made no three are at work at once.
SettleScene ==
    /\ \A e \in Entries : e.list.age <= MemTTL
    /\ epoch' = MaxChanges => Cardinality(Working) <= 2

\* One change, and every way a listing may age.
AgeScene == drop' = drop /\ epoch' <= 1

MCNext ==
    /\ Next /\ scene' = scene
    /\ scene = "settle" => SettleScene
    /\ scene = "age" => AgeScene

MCInit == Init /\ scene \in {"settle", "age"}

MCSpec == MCInit /\ [][MCNext]_<<vars, scene>>
=============================================================================
