---------------------------- MODULE ThreadMemory ----------------------------
(***************************************************************************)
(* The per-thread memory tracker of lib-sxe-thread                         *)
(* (src/lib-sxe-thread/sxe-thread-memory.c).                               *)
(*                                                                         *)
(* Every thread that calls sxe_thread_malloc pushes a tracker record onto  *)
(* the global lock-free list `trackers` with a compare-and-swap loop (a    *)
(* Treiber stack).  The main thread calls sxe_thread_memory_free, which    *)
(* detaches the whole list with one CAS, walks it privately freeing the    *)
(* trackers of dead threads (and its own in mode ALL), reverses the kept   *)
(* ones into a private `keepers` list and splices that list back in front  *)
(* of whatever other threads pushed meanwhile, retrying the CAS.           *)
(*                                                                         *)
(* Tracker records live at addresses from the finite pool Addrs; a freed   *)
(* address can be handed out again by the allocator, so the ABA pattern    *)
(* of the CAS loops is part of the model.  Thread ids are the elements of  *)
(* Threads; a dead thread's id can be reused by a new thread (Spawn), as   *)
(* Linux reuses tids.  The memory block itself is abstracted to a          *)
(* generation bit that sxe_thread_realloc flips.                           *)
(***************************************************************************)
EXTENDS Naturals, FiniteSets, Sequences, SequencesExt

CONSTANTS
    Threads,    \* thread ids (tids)
    Main,       \* the thread that calls sxe_thread_memory_free
    Addrs,      \* addresses a tracker record can be allocated at
    NULL,       \* the null pointer
    OOM         \* TRUE if sxe_malloc of the memory block may fail

ASSUME Main \in Threads /\ NULL \notin Addrs /\ OOM \in BOOLEAN

Workers == Threads \ {Main}
Ptr     == Addrs \cup {NULL}
Modes   == {"UNUSED", "ALL"}    \* SXE_THREAD_MEMORY_UNUSED / _ALL
Pushing == {"push", "push_stack"}

VARIABLES
    trackers,   \* the global list head (static trackers)
    next,       \* tracker->next of every address
    tid,        \* tracker->tid of every address
    mem,        \* tracker->memory, abstracted to a generation bit
    allocated,  \* addresses currently allocated to a tracker record
    alive,      \* threads whose /proc/<pid>/task/<tid> entry exists
    pc,         \* per thread: "idle", or inside the CAS loop of sxe_thread_malloc called
                \* by the application ("push") or by sxe_jitson_stack_get_thread ("push_stack")
    node,       \* per thread: the tracker it is pushing
    held,       \* per thread: trackers whose memory the thread has been handed
    jitson_stack, \* per thread: the __thread jitson_stack of sxe-jitson-stack.c (line 45)
    rpc,        \* reaper: "idle", "walk" (for loop over the detached list), "relink"
    mode,       \* reaper: argument `what`
    cur,        \* reaper: local `tracker`, the next detached tracker to examine
    keepers,    \* reaper: local `keepers`
    last,       \* reaper: local `last`, the first tracker kept (tail of keepers)
    unfreed,    \* reaper: local `unfreed`
    seen        \* reaper: the head read before the re-link CAS

vars == <<trackers, next, tid, mem, allocated, alive, pc, node, held, jitson_stack,
          rpc, mode, cur, keepers, last, unfreed, seen>>
reaper == <<rpc, mode, cur, keepers, last, unfreed, seen>>
threads == <<pc, node, held, jitson_stack>>

(***************************************************************************)
(* The list starting at p, following next for at most |Addrs|+1 links: it  *)
(* has more than |Addrs| elements exactly when the links form a cycle.     *)
(***************************************************************************)
RECURSIVE Chain(_, _)
Chain(p, n) == IF p = NULL \/ n = 0 THEN <<>> ELSE <<p>> \o Chain(next[p], n - 1)

ListOf(p) == Chain(p, Cardinality(Addrs) + 1)
Acyclic(p) == Len(ListOf(p)) <= Cardinality(Addrs)

TypeOK ==
    /\ trackers \in Ptr
    /\ next \in [Addrs -> Ptr]
    /\ tid \in [Addrs -> Threads]
    /\ mem \in [Addrs -> 0..1]
    /\ allocated \subseteq Addrs
    /\ Main \in alive /\ alive \subseteq Threads
    /\ pc \in [Threads -> {"idle"} \cup Pushing]
    /\ jitson_stack \in [Threads -> Ptr]
    /\ node \in [Threads -> Ptr]
    /\ held \in [Threads -> SUBSET Addrs]
    /\ rpc \in {"idle", "walk", "relink"}
    /\ mode \in Modes
    /\ cur \in Ptr /\ keepers \in Ptr /\ last \in Ptr /\ seen \in Ptr
    /\ unfreed \in 0..Cardinality(Addrs)

Init ==
    /\ trackers = NULL
    /\ next = [a \in Addrs |-> NULL]
    /\ tid = [a \in Addrs |-> Main]
    /\ mem = [a \in Addrs |-> 0]
    /\ allocated = {}
    /\ alive = Threads
    /\ pc = [t \in Threads |-> "idle"]
    /\ node = [t \in Threads |-> NULL]
    /\ held = [t \in Threads |-> {}]
    /\ jitson_stack = [t \in Threads |-> NULL]
    /\ rpc = "idle" /\ mode = "UNUSED"
    /\ cur = NULL /\ keepers = NULL /\ last = NULL /\ unfreed = 0 /\ seen = NULL

(***************************************************************************)
(* sxe_thread_malloc, lines 45-55: allocate the tracker and the memory,    *)
(* record the tid and read the list head into tracker->next.  The main     *)
(* thread cannot allocate while it is inside sxe_thread_memory_free.       *)
(* p records which caller then runs the CAS loop.                          *)
(***************************************************************************)
MallocStart(t, p) ==
    /\ t \in alive /\ pc[t] = "idle"
    /\ t = Main => rpc = "idle"
    /\ \E a \in Addrs \ allocated :
         /\ allocated' = allocated \cup {a}
         /\ tid' = [tid EXCEPT ![a] = t]
         /\ mem' = [mem EXCEPT ![a] = 0]
         /\ next' = [next EXCEPT ![a] = trackers]
         /\ node' = [node EXCEPT ![t] = a]
         /\ pc' = [pc EXCEPT ![t] = p]
    /\ UNCHANGED <<trackers, alive, held, jitson_stack, reaper>>

(***************************************************************************)
(* sxe_thread_malloc, line 47: the tracker was allocated but the memory    *)
(* was not; the function returns tracker->memory (NULL) and the tracker    *)
(* is neither linked nor freed.                                            *)
(***************************************************************************)
MallocNoMemory(t) ==
    /\ OOM
    /\ t \in alive /\ pc[t] = "idle"
    /\ t = Main => rpc = "idle"
    /\ \E a \in Addrs \ allocated : allocated' = allocated \cup {a}
    /\ UNCHANGED <<trackers, next, tid, mem, alive, threads, reaper>>

(***************************************************************************)
(* Lines 59-63: the CAS of the head from tracker->next to tracker.  On     *)
(* success the memory is returned to the thread (and get_thread stores it *)
(* in jitson_stack, line 148); on failure tracker->next is re-read from    *)
(* the head and the loop retries.                                          *)
(***************************************************************************)
MallocCasOk(t) ==
    /\ pc[t] \in Pushing
    /\ trackers = next[node[t]]
    /\ trackers' = node[t]
    /\ pc' = [pc EXCEPT ![t] = "idle"]
    /\ held' = [held EXCEPT ![t] = @ \cup {node[t]}]
    /\ jitson_stack' = IF pc[t] = "push_stack" THEN [jitson_stack EXCEPT ![t] = node[t]] ELSE jitson_stack
    /\ UNCHANGED <<next, tid, mem, allocated, alive, node, rpc, mode, cur, keepers, last, unfreed, seen>>

MallocCasRetry(t) ==
    /\ pc[t] \in Pushing
    /\ trackers # next[node[t]]
    /\ next' = [next EXCEPT ![node[t]] = trackers]
    /\ UNCHANGED <<trackers, tid, mem, allocated, alive, threads, reaper>>

(***************************************************************************)
(* sxe_jitson_stack_get_thread, sxe-jitson-stack.c lines 142-158: a       *)
(* thread's first call allocates its stack with sxe_thread_malloc, with    *)
(* sxe_jitson_stack_free (lines 160-165) as the tracker's free function;   *)
(* later calls return jitson_stack and change nothing.  When              *)
(* sxe_thread_malloc fails (MallocNoMemory) the call returns NULL and      *)
(* jitson_stack stays NULL.  When only sxe_jitson_stack_make's cell block  *)
(* fails (lines 74-86) jitson_stack is kept and expand allocates the cells *)
(* later (line 196), so the tracker sees no difference.  The stack and its *)
(* cells are freed together when the reaper frees the tracker (ReapFree).  *)
(***************************************************************************)
GetThread(t) ==
    /\ jitson_stack[t] = NULL
    /\ MallocStart(t, "push_stack")

(***************************************************************************)
(* sxe_thread_realloc, lines 80-85: the owner replaces tracker->memory.    *)
(* It dereferences a tracker it was handed through tracker_out, which      *)
(* get_thread does not ask for.                                            *)
(***************************************************************************)
Realloc(t) ==
    /\ t \in alive /\ pc[t] = "idle"
    /\ t = Main => rpc = "idle"
    /\ \E a \in held[t] \ {jitson_stack[t]} : mem' = [mem EXCEPT ![a] = 1 - @]
    /\ UNCHANGED <<trackers, next, tid, allocated, alive, threads, reaper>>

(***************************************************************************)
(* A worker thread exits (outside the library) and its task entry goes     *)
(* away, with its thread-local variables (jitson_stack is not freed: it    *)
(* stays tracked); later a new thread may be created with the same tid.    *)
(***************************************************************************)
Exit(t) ==
    /\ t \in alive \ {Main} /\ pc[t] = "idle"
    /\ alive' = alive \ {t}
    /\ held' = [held EXCEPT ![t] = {}]
    /\ jitson_stack' = [jitson_stack EXCEPT ![t] = NULL]
    /\ UNCHANGED <<trackers, next, tid, mem, allocated, pc, node, reaper>>

Spawn(t) ==
    /\ t \notin alive
    /\ alive' = alive \cup {t}
    /\ UNCHANGED <<trackers, next, tid, mem, allocated, threads, reaper>>

(* Fault: the locals of a previous call are not reset before the walk.    *)
ReapDetachNoReset(m) ==
    /\ rpc = "idle" /\ pc[Main] = "idle"
    /\ rpc' = "walk" /\ mode' = m
    /\ cur' = trackers /\ trackers' = NULL
    /\ keepers' = NULL /\ last' = NULL
    /\ UNCHANGED <<next, tid, mem, allocated, alive, threads, seen, unfreed>>

(***************************************************************************)
(* sxe_thread_memory_free, lines 114-115: atomically take the whole list   *)
(* (the CAS retry loop amounts to an atomic exchange with NULL).           *)
(***************************************************************************)
ReapDetach(m) ==
    /\ rpc = "idle" /\ pc[Main] = "idle"
    /\ rpc' = "walk" /\ mode' = m
    /\ cur' = trackers /\ trackers' = NULL
    /\ keepers' = NULL /\ last' = NULL /\ unfreed' = 0
    /\ UNCHANGED <<next, tid, mem, allocated, alive, threads, seen>>

(* Fault: the stat of the task directory is skipped.                      *)
ReapNoStat(a) == IF tid[a] = Main THEN mode = "ALL" ELSE TRUE

(***************************************************************************)
(* Lines 121-125: whether the tracker at a is reclaimed.  The caller's own *)
(* trackers only in mode ALL; any other thread's when the stat of its task *)
(* directory fails with ENOENT, i.e. when no thread with that tid is alive.*)
(***************************************************************************)
Reap(a) == IF tid[a] = Main THEN mode = "ALL" ELSE tid[a] \notin alive

(***************************************************************************)
(* Lines 131-143: keep the tracker, pushing it on the private keepers list *)
(* (reversing the order); the first one kept becomes `last`.              *)
(***************************************************************************)
ReapKeep ==
    /\ rpc = "walk" /\ cur # NULL /\ ~Reap(cur)
    /\ next' = [next EXCEPT ![cur] = keepers]
    /\ keepers' = cur
    /\ last' = IF last = NULL THEN cur ELSE last
    /\ unfreed' = unfreed + 1
    /\ cur' = next[cur]
    /\ UNCHANGED <<trackers, tid, mem, allocated, alive, threads, rpc, mode, seen>>

(***************************************************************************)
(* Lines 146-154: free the memory and the tracker.                         *)
(***************************************************************************)
ReapFree ==
    /\ rpc = "walk" /\ cur # NULL /\ Reap(cur)
    /\ allocated' = allocated \ {cur}
    /\ cur' = next[cur]
    /\ UNCHANGED <<trackers, next, tid, mem, alive, threads, rpc, mode, keepers, last, unfreed, seen>>

(***************************************************************************)
(* Lines 157-167: nothing kept, return; or read the head and link it after *)
(* `last` before the first re-link CAS.                                    *)
(***************************************************************************)
ReapReturn ==
    /\ rpc = "walk" /\ cur = NULL /\ keepers = NULL
    /\ rpc' = "idle"
    /\ UNCHANGED <<trackers, next, tid, mem, allocated, alive, threads, mode, cur, keepers, last, unfreed, seen>>

ReapRelinkStart ==
    /\ rpc = "walk" /\ cur = NULL /\ keepers # NULL
    /\ seen' = trackers
    /\ next' = [next EXCEPT ![last] = trackers]
    /\ rpc' = "relink"
    /\ UNCHANGED <<trackers, tid, mem, allocated, alive, threads, mode, cur, keepers, last, unfreed>>

(* Faults: the head is stored without comparing it to the value read; the  *)
(* retry does not re-read the head.                                        *)
ReapRelinkStore ==
    /\ rpc = "relink"
    /\ trackers' = keepers
    /\ rpc' = "idle"
    /\ UNCHANGED <<next, tid, mem, allocated, alive, threads, mode, cur, keepers, last, unfreed, seen>>

ReapRelinkNoReread ==
    /\ rpc = "relink"
    /\ trackers # seen
    /\ UNCHANGED vars

(***************************************************************************)
(* Line 162: CAS the head from the value read to keepers; on failure       *)
(* re-read the head, link it after `last` and retry.                       *)
(***************************************************************************)
ReapRelinkCas ==
    /\ rpc = "relink"
    /\ trackers = seen
    /\ trackers' = keepers
    /\ rpc' = "idle"
    /\ UNCHANGED <<next, tid, mem, allocated, alive, threads, mode, cur, keepers, last, unfreed, seen>>

ReapRelinkRetry ==
    /\ rpc = "relink"
    /\ trackers # seen
    /\ seen' = trackers
    /\ next' = [next EXCEPT ![last] = trackers]
    /\ UNCHANGED <<trackers, tid, mem, allocated, alive, threads, rpc, mode, cur, keepers, last, unfreed>>

ReapStep ==
    \/ ReapKeep \/ ReapFree \/ ReapReturn \/ ReapRelinkStart
    \/ ReapRelinkCas \/ ReapRelinkRetry

Next ==
    \/ \E t \in Threads :
         \/ MallocStart(t, "push") \/ GetThread(t) \/ MallocNoMemory(t)
         \/ MallocCasOk(t) \/ MallocCasRetry(t)
         \/ Realloc(t) \/ Exit(t) \/ Spawn(t)
    \/ \E m \in Modes : ReapDetach(m)
    \/ ReapStep

(***************************************************************************)
(* A thread that has entered sxe_thread_malloc or sxe_thread_memory_free   *)
(* is runnable until the call returns, and the OS scheduler eventually    *)
(* runs it.  Nothing obliges the application to call either function, to  *)
(* let threads exit, or to create threads, so those steps are not fair.    *)
(***************************************************************************)
Fairness ==
    /\ \A t \in Threads : WF_vars(MallocCasOk(t) \/ MallocCasRetry(t))
    /\ WF_vars(ReapStep)

Spec == Init /\ [][Next]_vars /\ Fairness

-----------------------------------------------------------------------------
(***************************************************************************)
(* The regions a tracker can be in.                                        *)
(***************************************************************************)
Shared   == ToSet(ListOf(trackers))
Detached == IF rpc = "walk" THEN ToSet(ListOf(cur)) ELSE {}
\* The keepers list runs from keepers to last; in the re-link phase last->next
\* already points into the global list.
Kept     == IF rpc = "idle" THEN {}
            ELSE LET l == ListOf(keepers)
                 IN  ToSet(SubSeq(l, 1, SelectInSeq(l, LAMBDA x : x = last)))
InFlight == {node[t] : t \in {s \in Threads : pc[s] \in Pushing}}

(***************************************************************************)
(* No tracker is lost, duplicated or linked into a cycle: however the      *)
(* pushes of sxe_thread_malloc interleave with the detach, walk and       *)
(* re-link of sxe_thread_memory_free, and however addresses are reused,    *)
(* the global list and the reaper's private lists are acyclic, and every   *)
(* allocated tracker is in exactly one of the global list, the detached    *)
(* remainder, the kept list, or the hands of a thread still pushing it.   *)
(***************************************************************************)
TrackerPartition ==
    /\ Acyclic(trackers)
    /\ rpc = "walk" => Acyclic(cur)
    /\ Shared \cup Detached \cup Kept \cup InFlight = allocated
    /\ Shared \cap Detached = {} /\ Shared \cap Kept = {} /\ Detached \cap Kept = {}
    /\ InFlight \cap (Shared \cup Detached \cup Kept) = {}
    /\ Cardinality(InFlight) = Cardinality({t \in Threads : pc[t] \in Pushing})

(***************************************************************************)
(* sxe_thread_memory_free never frees the memory of a worker thread that   *)
(* is still running: every tracker a live worker has been handed (and may  *)
(* realloc) stays allocated, even when its tid belonged to a thread that   *)
(* died and was reused.                                                    *)
(***************************************************************************)
LiveMemoryNotFreed ==
    \A t \in Workers : t \in alive => held[t] \subseteq allocated

(***************************************************************************)
(* A call of sxe_thread_memory_free eventually returns: the re-link CAS    *)
(* cannot be starved forever by concurrent pushes.                         *)
(***************************************************************************)
ReapReturns == rpc # "idle" ~> rpc = "idle"
=============================================================================
