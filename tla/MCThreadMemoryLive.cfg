\* Termination of sxe_thread_memory_free against concurrent pushes and
\* failing allocations
\* (no symmetry or view: they are unsound for liveness).
CONSTANTS
    m = m
    w1 = w1
    w2 = w2
    a1 = a1
    a2 = a2
    a3 = a3
    NULL = NULL
    Threads <- MCThreadsLive
    Main <- m
    Addrs <- MCAddrsLive
    OOM = TRUE
SPECIFICATION Spec
PROPERTY ReapReturns
