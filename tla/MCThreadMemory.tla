--------------------------- MODULE MCThreadMemory ---------------------------
(***************************************************************************)
(* Model-checking instance of ThreadMemory: the main thread and two        *)
(* workers, three tracker addresses (so an address is reused while another *)
(* thread still holds the old value of the head).                          *)
(***************************************************************************)
EXTENDS ThreadMemory, TLC

CONSTANTS m, w1, w2, a1, a2, a3

MCThreads == {m, w1, w2}
MCAddrs   == {a1, a2, a3}

\* A smaller instance for liveness checking, which cannot use symmetry.
MCThreadsLive == {m, w1}
MCAddrsLive   == {a1, a2}

\* Workers and addresses are interchangeable model values.
MCSymmetry == Permutations({w1, w2}) \cup Permutations(MCAddrs)

(***************************************************************************)
(* The fields of a freed tracker and the locals of an idle thread or an    *)
(* idle reaper are never read again before being overwritten              *)
(* (MallocStart writes next, tid and memory; ReapDetach resets the         *)
(* locals), so states that differ only there are merged.                   *)
(***************************************************************************)
Live(f) == [a \in allocated |-> f[a]]
MCView ==
    <<trackers, Live(next), Live(tid), Live(mem), allocated, alive, pc,
      [t \in Threads |-> IF pc[t] \in Pushing THEN node[t] ELSE NULL], held, jitson_stack,
      rpc, IF rpc = "idle" THEN <<>> ELSE <<mode, cur, keepers, last, unfreed, seen>>>>
=============================================================================
