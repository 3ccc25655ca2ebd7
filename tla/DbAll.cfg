SPECIFICATION DbSpec
CONSTANTS
    Quarantined = {q1, q2}
    Rows = {r1, r2}
    Sizes = {1, 3, 4}
    EmptyMax = 2
    Full = 3
    Live = Live
INVARIANTS CheckpointedKept LargestRestored
