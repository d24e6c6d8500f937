\* Safety of the tracker list under every interleaving of pushes and reaps.
CONSTANTS
    m = m
    w1 = w1
    w2 = w2
    a1 = a1
    a2 = a2
    a3 = a3
    NULL = NULL
    Threads <- MCThreads
    Main <- m
    Addrs <- MCAddrs
    OOM = FALSE
SYMMETRY MCSymmetry
SPECIFICATION Spec
INVARIANT TypeOK
INVARIANT TrackerPartition
INVARIANT LiveMemoryNotFreed
VIEW MCView
