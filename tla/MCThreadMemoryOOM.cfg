\* The tracker list when sxe_malloc of the memory block can fail.
CONSTANTS
    m = m
    w1 = w1
    w2 = w2
    a1 = a1
    a2 = a2
    a3 = a3
    NULL = NULL
    Threads <- MCThreads
    Main <- m
    Addrs <- MCAddrs
    OOM = TRUE
SYMMETRY MCSymmetry
VIEW MCView
SPECIFICATION Spec
INVARIANT TrackerPartition
