-------------------------------- MODULE Heap --------------------------------
(***************************************************************************)
(* The collected heap: how small objects are allocated, marked, swept and  *)
(* finalized.  One size class is modelled.  Its slots come from chunks;    *)
(* a slot that is free is in a thread's cache, in the list of the central, *)
(* in the unused tail of the central's chunk or in a chunk the central     *)
(* keeps as empty.  Which of its free slots a list yields is left open.    *)
(*                                                                         *)
(* A collection is one step, since it has the world to itself (module      *)
(* StopWorld); so is each critical section of the allocator and of the     *)
(* finalizers.  An allocation is not: between the step that takes a slot   *)
(* and the step that links it, other threads, and the allocation itself,   *)
(* may collect.                                                            *)
(***************************************************************************)
EXTENDS Naturals, FiniteSets

CONSTANTS
    Slots,      \* the slots of the size class
    Chunks,     \* its chunks, sets of slots: all the memory there is
    T, Main,    \* threads, and the one that runs alone to begin with
    LocalCap,   \* runtime_pool_local_class_cap
    EmptyKeep,  \* RUNTIME_GC_SMALL_EMPTY_KEEP
    MaxObjects, \* bound of the model: objects linked or taken at once
    MaxRecords, \* bound of the model: finalizers registered at once
    None

ASSUME HeapAssumption ==
    /\ IsFiniteSet(Slots) /\ IsFiniteSet(T) /\ Main \in T
    /\ Slots = UNION Chunks
    /\ \A c, d \in Chunks : c # {} /\ (c = d \/ c \cap d = {})
    /\ LocalCap \in Nat /\ EmptyKeep \in Nat
    /\ MaxObjects \in Nat /\ MaxRecords \in Nat
    /\ None \notin Slots

VARIABLES
    chunks,    \* runtime_gc_small_chunks
    bits,      \* the alloc_bits: slots that hold a linked object
    list,      \* central->list
    tail,      \* from chunk_cursor to the end of the central's chunk
    empty,     \* central->empty_list
    local,     \* gc_small_local_lists of each thread
    pc,        \* where a thread is in an allocation or a collection
    out,       \* the slot it has taken and not linked yet
    started,   \* runtime_m_count > 1
    var,       \* a variable of the goroutine each thread runs, or will run
    ptr,       \* the pointer in each object
    finals,    \* runtime_finalizers
    ready,     \* runtime_finalizers_ready
    active,    \* runtime_finalizer_active
    worker,    \* runtime_finalizer_worker_running
    pending,   \* runtime_finalizer_pending
    hurt       \* history: see Collect

central == <<chunks, list, tail, empty>>
queue == <<finals, ready, active, worker, pending>>
idle == <<started, hurt>>
vars == <<central, bits, local, pc, out, idle, var, ptr, queue>>

Pointers == Slots \cup {None}
Records == [object : Slots, function : Pointers]

TypeOK ==
    /\ chunks \subseteq Chunks /\ empty \subseteq chunks
    /\ bits \subseteq Slots /\ list \subseteq Slots /\ tail \subseteq Slots
    /\ local \in [T -> SUBSET Slots]
    /\ pc \in [T -> {"run", "fill", "out", "checked", "linking",
                     "second", "again", "retry"}]
    /\ out \in [T -> Pointers]
    /\ started \in BOOLEAN
    /\ var \in [T -> Pointers]
    /\ ptr \in [Slots -> Pointers]
    /\ finals \subseteq Records /\ ready \subseteq Records
    /\ active \in Records \cup {None}
    /\ worker \in BOOLEAN /\ pending \in BOOLEAN /\ hurt \in BOOLEAN

Init ==
    /\ chunks = {} /\ bits = {} /\ list = {} /\ tail = {} /\ empty = {}
    /\ local = [t \in T |-> {}]
    /\ pc = [t \in T |-> "run"] /\ out = [t \in T |-> None]
    /\ started = FALSE
    /\ var = [t \in T |-> None]
    /\ ptr = [s \in Slots |-> None]
    /\ finals = {} /\ ready = {} /\ active = None
    /\ worker = FALSE /\ pending = FALSE /\ hurt = FALSE

\* The model ends where a chunk is hurt.
Runs(t) == ~hurt /\ (started \/ t = Main)
At(t, p) == Runs(t) /\ pc[t] = p
Goto(t, p) == pc' = [pc EXCEPT ![t] = p]

\* runtime_gc_single_thread_fast_path.
Single == ~started

\* runtime_gc_lock is not held by another thread than t.
Unlocked(t) ==
    \A u \in T \ {t} : pc[u] \notin {"second", "checked", "linking", "again"}

-----------------------------------------------------------------------------
\* Allocation.

\* runtime_gc_small_central_alloc_locked yields the slot s.
Central(s) ==
    \/ /\ s \in list /\ list' = list \ {s}
       /\ UNCHANGED <<chunks, tail, empty, bits>>
    \/ /\ list = {} /\ s \in tail /\ tail' = tail \ {s}
       /\ UNCHANGED <<chunks, list, empty, bits>>
    \/ /\ list = {} /\ tail = {}
       /\ \E c \in empty : /\ s \in c /\ tail' = c \ {s}
                           /\ empty' = empty \ {c} /\ bits' = bits \ c
       /\ UNCHANGED <<chunks, list>>
    \/ /\ list = {} /\ tail = {} /\ empty = {}
       /\ \E c \in Chunks \ chunks : /\ s \in c /\ tail' = c \ {s}
                                     /\ chunks' = chunks \cup {c}
       /\ UNCHANGED <<list, empty, bits>>

Exhausted == list = {} /\ tail = {} /\ empty = {} /\ chunks = Chunks

\* The payload is cleared.
Takes(t, s, p) ==
    /\ out' = [out EXCEPT ![t] = s] /\ Goto(t, p)
    /\ ptr' = [ptr EXCEPT ![s] = None]

Full == Cardinality((bits \cup {out[u] : u \in T}) \ {None}) >= MaxObjects
Allocates(t) == (At(t, "run") \/ At(t, "retry")) /\ ~Full

\* runtime_gc_small_alloc_local, when there is one thread ...
TakeLocal(t) ==
    /\ Allocates(t) /\ Single
    /\ \E s \in local[t] :
          /\ local' = [local EXCEPT ![t] = @ \ {s}]
          /\ Takes(t, s, "out")
    /\ UNCHANGED <<central, bits, idle, var, queue>>

\* ... or runtime_gc_small_refill_local_free, which then fills the cache ...
TakeRefill(t) ==
    /\ Allocates(t) /\ Single /\ local[t] = {}
    /\ \E s \in Slots : Central(s) /\ Takes(t, s, "fill")
    /\ UNCHANGED <<local, idle, var, queue>>

Fill(t) ==
    /\ At(t, "fill")
    /\ IF Cardinality(local[t]) < LocalCap /\ ~Exhausted
       THEN /\ \E s \in Slots : /\ Central(s)
                                /\ local' = [local EXCEPT ![t] = @ \cup {s}]
            /\ UNCHANGED pc
       ELSE Goto(t, "out") /\ UNCHANGED <<central, bits, local>>
    /\ UNCHANGED <<out, idle, var, ptr, queue>>

\* ... and runtime_gc_small_central_alloc when there are several.
TakeCentral(t) ==
    /\ Allocates(t) /\ ~Single
    /\ \E s \in Slots : Central(s) /\ Takes(t, s, "out")
    /\ UNCHANGED <<local, idle, var, queue>>

\* runtime_gc_link_allocation; the caller keeps the pointer.
Link(t) ==
    /\ \E p \in {"out", "checked", "linking"} : At(t, p)
    /\ Unlocked(t)
    /\ bits' = bits \cup {out[t]}
    /\ var' = [var EXCEPT ![t] = out[t]]
    /\ out' = [out EXCEPT ![t] = None] /\ Goto(t, "run")
    /\ UNCHANGED <<central, local, idle, ptr, queue>>

-----------------------------------------------------------------------------
\* The collector.

\* runtime_gc_find_header_for_address: only linked objects are found.
Found(R) == R \cap bits

\* What is marked from the pointers R.
Mark(R) ==
    {s \in bits : \A S \in SUBSET bits :
        Found(R) \subseteq S /\ Found({ptr[x] : x \in S}) \subseteq S => s \in S}

Fields(r) == {r.object, r.function}

\* Mutant: an object whose finalizer runs is no root.
RootsQueued ==
    {r.function : r \in finals} \cup (UNION {Fields(r) : r \in ready})

\* runtime_finalizer_mark_roots: what finalizers need, but not the finalizable
\* objects.
FinalizerRoots ==
    {r.function : r \in finals} \cup (UNION {Fields(r) : r \in ready})
    \cup (IF active = None THEN {} ELSE Fields(active))

\* runtime_gc_mark_roots_and_stack.
Roots == {var[t] : t \in T} \cup FinalizerRoots

\* Mutant: what finalizable objects refer to is not kept;
\* and: they are kept themselves.
TracedNothing == Mark(Roots)
TracedWhole == Mark(Roots \cup {r.object : r \in finals})

\* runtime_finalizer_prepare_queue: what finalizable objects refer to is kept;
\* those that are not referred to become candidates.
Traced ==
    LET marked == Mark(Roots)
        dying == {r \in finals : r.object \in bits \ marked}
    IN  marked \cup Mark({ptr[r.object] : r \in dying})

Candidates(traced) == {r \in finals : r.object \in bits \ traced}

\* runtime_gc_sweep_small_chunks_locked.
Swept(kept) == bits \ kept

\* runtime_gc_small_reclaim_empty_chunks_locked: chunks without linked objects
\* become empty, as many as are kept.  Such a chunk may hold a slot that a
\* thread has taken and not linked yet: that is remembered in hurt.
Reclaim(kept) ==
    LET all == {c \in chunks \ empty : c \cap kept = {}}
    IN  \E new \in SUBSET all :
           /\ \/ new = all /\ Cardinality(empty \cup new) <= EmptyKeep
              \/ Cardinality(empty \cup new) = EmptyKeep
           /\ empty' = empty \cup new
           /\ hurt' = (hurt \/ \E t \in T : out[t] \in UNION new)

\* Mutant: the tail is lost.
ListedNoTail(swept) == list \cup swept \cup UNION {local[t] : t \in T}

\* What is swept, the caches and the tail go to the list of the central ...
Listed(swept) == list \cup tail \cup swept \cup UNION {local[t] : t \in T}

\* ... but for the slots of empty chunks.
Collect ==
    LET traced == Traced
        dead == Candidates(traced)
        kept == traced \cup {r.object : r \in dead}
        swept == Swept(kept)
    IN  /\ bits' = kept
        /\ ptr' = [s \in Slots |-> IF s \in swept THEN None ELSE ptr[s]]
        /\ finals' = finals \ dead /\ ready' = ready \cup dead
        /\ pending' = (pending \/ dead # {})
        /\ Reclaim(kept)
        /\ list' = Listed(swept) \ UNION empty'
        /\ tail' = {} /\ local' = [t \in T |-> {}]
        /\ UNCHANGED <<chunks, active, worker>>

\* The rest is left alone.
Collects(t, p, q) ==
    /\ At(t, p) /\ Unlocked(t) /\ Goto(t, q)
    /\ Collect
    /\ UNCHANGED <<out, started, var>>

\* runtime_force_gc and runtime_gc_poll collect twice.
ForceGC(t) == Collects(t, "run", "second")
SecondGC(t) == Collects(t, "second", "run")

\* runtime_gc_maybe_collect_locked, when the system is short of memory and when
\* the heap has reached its threshold.
LowMemory(t) == Collects(t, "out", "checked")
Threshold(t) ==
    Collects(t, "out", "linking") \/ Collects(t, "checked", "linking")

\* No memory: two collections, another attempt, and then a panic.
Starved(t) == Full \/ (Exhausted /\ (Single => local[t] = {}))
NoMemory(t) == Starved(t) /\ Collects(t, "run", "again")
NoMemoryAgain(t) == Collects(t, "again", "retry")
Panic(t) ==
    /\ At(t, "retry") /\ Starved(t)
    /\ Goto(t, "run")
    /\ UNCHANGED <<central, bits, local, out, idle, var, ptr, queue>>

-----------------------------------------------------------------------------
\* The program.
Store(t) ==
    /\ At(t, "run") /\ var[t] # None
    /\ \E u \in T : ptr' = [ptr EXCEPT ![var[t]] = var[u]]
    /\ UNCHANGED <<central, bits, local, pc, out, idle, var, queue>>

Assign(t) ==
    /\ At(t, "run")
    /\ \E p \in {var[u] : u \in T \ {t}}
               \cup (IF var[t] = None THEN {} ELSE {ptr[var[t]]}) :
          var' = [var EXCEPT ![t] = p]
    /\ UNCHANGED <<central, bits, local, pc, out, idle, ptr, queue>>

StartThread(t) ==
    /\ At(t, "run") /\ Single
    /\ started' = TRUE
    /\ UNCHANGED <<central, bits, local, pc, out, hurt, var, ptr, queue>>

\* runtime_gc_release_header.
Release(t, s) ==
    IF Single /\ Cardinality(local[t]) < LocalCap
    THEN local' = [local EXCEPT ![t] = @ \cup {s}] /\ UNCHANGED list
    ELSE list' = list \cup {s} /\ UNCHANGED local

\* runtime_gc_free_exact, of an object that nothing else refers to: the record
\* of a deferred call, the state of a map's iterator.
Referred(s, t) ==
    \/ s \in {var[u] : u \in T \ {t}} \cup {ptr[u] : u \in bits}
    \/ \E r \in finals \cup ready : s \in Fields(r)
    \/ active # None /\ s \in Fields(active)

FreeExact(t) ==
    LET s == var[t] IN
    /\ At(t, "run") /\ Unlocked(t) /\ s \in bits /\ ~Referred(s, t)
    /\ bits' = bits \ {s}
    /\ ptr' = [ptr EXCEPT ![s] = None]
    /\ var' = [var EXCEPT ![t] = None]
    /\ Release(t, s)
    /\ UNCHANGED <<chunks, tail, empty, pc, out, idle, queue>>

-----------------------------------------------------------------------------
\* Finalizers.

\* runtime.SetFinalizer.
SetFinalizer(t) ==
    /\ At(t, "run") /\ Unlocked(t) /\ var[t] \in bits
    /\ \A r \in finals : r.object # var[t]
    /\ Cardinality(finals \cup ready \cup ({active} \ {None})) < MaxRecords
    /\ \E u \in T \ {t} :
          finals' = finals \cup {[object |-> var[t], function |-> var[u]]}
    /\ UNCHANGED <<central, bits, local, pc, out, idle, var, ptr,
                   ready, active, worker, pending>>

ClearFinalizer(t) ==
    /\ At(t, "run") /\ Unlocked(t) /\ \E r \in finals : r.object = var[t]
    /\ finals' = {r \in finals : r.object # var[t]}
    /\ UNCHANGED <<central, bits, local, pc, out, idle, var, ptr,
                   ready, active, worker, pending>>

\* runtime_schedule looks after the worker; it runs where no goroutine is in
\* the middle of an allocation.
Scheduled == \E t \in T : At(t, "run")
LockFree == \A t \in T : Unlocked(t)

StartWorker ==
    /\ Scheduled /\ LockFree /\ pending /\ ~worker /\ ready # {}
    /\ worker' = TRUE
    /\ UNCHANGED <<central, bits, local, pc, out, idle, var, ptr,
                   finals, ready, active, pending>>

TakeReady ==
    /\ Scheduled /\ LockFree /\ worker /\ active = None
    /\ \E r \in ready : active' = r /\ ready' = ready \ {r}
    /\ UNCHANGED <<central, bits, local, pc, out, idle, var, ptr,
                   finals, worker, pending>>

\* The finalizer may store its argument anywhere.
Resurrect ==
    /\ Scheduled /\ active # None
    /\ \E t \in T : var' = [var EXCEPT ![t] = active.object]
    /\ UNCHANGED <<central, bits, local, pc, out, idle, ptr, queue>>

Finalized ==
    /\ Scheduled /\ LockFree /\ active # None
    /\ active' = None
    /\ UNCHANGED <<central, bits, local, pc, out, idle, var, ptr,
                   finals, ready, worker, pending>>

\* Mutant: the worker ends after any call.
WorkerExitEarly ==
    /\ Scheduled /\ LockFree /\ worker /\ active = None
    /\ worker' = FALSE /\ pending' = FALSE
    /\ UNCHANGED <<central, bits, local, pc, out, idle, var, ptr,
                   finals, ready, active>>

WorkerExit ==
    /\ Scheduled /\ LockFree /\ worker /\ active = None /\ ready = {}
    /\ worker' = FALSE /\ pending' = FALSE
    /\ UNCHANGED <<central, bits, local, pc, out, idle, var, ptr,
                   finals, ready, active>>

-----------------------------------------------------------------------------
Next ==
    \/ \E t \in T :
          \/ TakeLocal(t) \/ TakeRefill(t) \/ Fill(t) \/ TakeCentral(t)
          \/ Link(t)
          \/ ForceGC(t) \/ SecondGC(t) \/ LowMemory(t) \/ Threshold(t)
          \/ NoMemory(t) \/ NoMemoryAgain(t) \/ Panic(t)
          \/ Store(t) \/ Assign(t) \/ StartThread(t) \/ FreeExact(t)
          \/ SetFinalizer(t) \/ ClearFinalizer(t)
    \/ StartWorker \/ TakeReady \/ Resurrect \/ Finalized \/ WorkerExit

Spec == Init /\ [][Next]_vars

-----------------------------------------------------------------------------
\* Properties.

\* What can be reached from the pointers R, linked or not.
Reach(R) ==
    {s \in Slots : \A S \in SUBSET Slots :
        R \ {None} \subseteq S /\ {ptr[x] : x \in S} \ {None} \subseteq S
        => s \in S}

\* What the program may still use: its variables, the closures of finalizers,
\* and the objects whose finalizers wait for their call or are being called.
Queued == ready \cup ({active} \ {None})
Held ==
    {var[t] : t \in T} \cup {r.function : r \in finals \cup Queued}
    \cup {r.object : r \in Queued}

\* Whatever can be reached from what the program may use, and from an object
\* that has a finalizer, is a linked object: no collection, no free and no
\* allocation takes it away, up to a collection that makes a chunk empty while
\* a slot taken from it waits to be linked.
LiveKept == hurt \/ Reach(Held \cup {r.object : r \in finals}) \subseteq bits

\* Every slot is in exactly one place, whatever way it went through the lists,
\* the caches, the tail and the empty chunks; so it is never handed out twice
\* and never lost, up to such a collection.
Homes == [list |-> list, tail |-> tail, live |-> bits, empty |-> UNION empty,
          unmapped |-> UNION (Chunks \ chunks)]
Places(s) ==
    {<<"heap", h>> : h \in {h \in DOMAIN Homes : s \in Homes[h]}}
    \cup {<<"local", t>> : t \in {t \in T : s \in local[t]}}
    \cup {<<"out", t>> : t \in {t \in T : s = out[t]}}
OnePlace == hurt \/ \A s \in Slots : Cardinality(Places(s)) = 1

\* While a finalizer waits to be called, the worker runs or the scheduler knows
\* that it has to start it.
FinalizersWanted == ready # {} => pending \/ worker

\* What the program, or an object that has a finalizer, can still reach.
Needed == Reach(Held \cup {ptr[r.object] : r \in finals})

\* A finalizer is queued only for an object that nothing reaches, not even
\* another object that has a finalizer: users are finalized before what they
\* use, and an object that comes back is not finalized meanwhile.
FinalizedInOrder ==
    [][hurt' \/ \A r \in ready' \ ready : r.object \notin Needed]_vars

\* When both collections of runtime.GC are done, all that is linked can be
\* reached from the program, from a queued finalizer or from an object that
\* has one.
GarbageGone ==
    [][\A t \in T : pc[t] = "second" /\ pc'[t] = "run"
                     => bits' \subseteq Needed']_vars
=============================================================================
