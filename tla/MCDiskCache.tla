----------------------------- MODULE MCDiskCache -----------------------------
(***************************************************************************)
(* DiskCache on a small instance, in three scenes.  A block of an even     *)
(* version is one byte long and a block of an odd version two, so that an  *)
(* upload changes lengths.                                                 *)
(***************************************************************************)
EXTENDS DiskCache

CONSTANTS w1, w2, c1, k1, MaxFaults

VARIABLES
    scene,   \* which threads and settings a behaviour is about
    faults   \* how many statements and removals may still fail, and processes end

MCBlockLen == [v \in Versions |-> 1 + (v % 2)]

\* Only the "fault" scene begins on what earlier mounts left, of one key.
MCInit ==
    /\ Init
    /\ scene \in {"clear", "sweep", "fault"}
    /\ faults = IF scene = "fault" THEN MaxFaults ELSE 0
    /\ \A k \in Keys : scene # "fault" \/ k # k1 => s3[k] = 0
    /\ \A b \in Blocks :
          scene # "fault" \/ b.key # k1 => b \notin rows /\ files[b] = Absent

\* Two threads and two commands on one key, before the first sweep.
ClearScene ==
    /\ ev' = ev /\ rotten' = {} /\ stop' = stop
    /\ pinned' \subseteq {k1} /\ maxBytes' \in {0, InitialQuota}
    /\ s3' = [k \in Keys |-> IF k = k1 THEN s3'[k] ELSE 0]
    /\ \A w \in Workers : wk'[w].key = k1

\* One thread, one command and the sweeper on all keys; nobody uploads, and no command is
\* given once a file is damaged.
SweepScene ==
    /\ \A w \in Workers \ {w1} : wk'[w] = WorkerIdle
    /\ \A c \in Commands \ {c1} : cmd'[c] = CmdIdle
    /\ maxBytes' = InitialQuota /\ pinned' \subseteq {k1}
    /\ s3' = s3
    /\ rotten' # {} => \A c \in Commands : cmd'[c] = CmdIdle

\* What is in the middle of something.
Busy ==
    Cardinality({w \in Workers : wk[w].pc # "idle"} \cup {c \in Commands : cmd[c].pc # "idle"})
      + (IF ev.pc \in {"sweep", "sweepRow"} THEN 1 ELSE 0)

\* Any two of two threads, a clear and the sweeper at a time on one key, with failures and
\* restarts; one thread uploads.  One thread and the sweeper go on once a file is damaged.
FaultScene ==
    /\ \A w \in Workers : wk'[w].key = k1
    /\ \A c \in Commands \ {c1} : cmd'[c] = CmdIdle
    /\ maxBytes' = InitialQuota /\ pinned' = {} /\ wanted' /\ ~stop'
    /\ Cardinality(rotten') <= 1 /\ (rotten' # rotten => faults = MaxFaults)
    /\ rotten' # {} => cmd' = cmd /\ wk'[w2] = WorkerIdle
    /\ s3' # s3 => wk'[w1] # wk[w1]
    /\ Busy' <= 2

MCNext ==
    /\ \/ Step /\ faults' = faults
       \/ faults > 0 /\ Fault /\ faults' = faults - 1
    /\ scene' = scene
    /\ scene = "clear" => ClearScene
    /\ scene = "sweep" => SweepScene
    /\ scene = "fault" => FaultScene

MCSpec == MCInit /\ [][MCNext]_<<vars, scene, faults>> /\ WF_vars(SweeperStep)
=============================================================================
