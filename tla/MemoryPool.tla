------------------------------ MODULE MemoryPool -----------------------------
(***************************************************************************)
(* The three-level memory pool behind Vert::operator new and               *)
(* Segment::operator new (MemoryPool/):                                    *)
(*                                                                         *)
(*   ThreadCache   one per thread, two intrusive free lists (one per class)*)
(*   CentralCache  a spin lock per class; cuts a span into a chain         *)
(*   PageCache     a mutex around the system call and the map of spans     *)
(*                                                                         *)
(* The free lists are intrusive: the first word of a free block is the     *)
(* link, and the same word is the program's data while the block is live,  *)
(* so `word' is one function over all blocks and a block handed out twice  *)
(* destroys a list.  A block is <<span, slot>>.                            *)
(***************************************************************************)
EXTENDS Naturals, FiniteSets

CONSTANTS
    Thread,      \* threads that allocate (the workers of QtConcurrent::map)
    Span,        \* page ranges the operating system can hand out
    Batch,       \* blocks in a span of each class: Vert_Spans * PAGE_SIZE / size
    MaxExits,    \* bound on the threads that end and are replaced
    NULL,        \* the null pointer, and the owner of a free lock
    Payload      \* program data in the first word of a live block

Index == {0, 1}             \* FREE_LIST_SIZE = 2: 0 is Vert, 1 is Segment
BlocksOf(s, i) == {<<s, k>> : k \in 1..Batch[i]}
Block == UNION {BlocksOf(s, i) : s \in Span, i \in Index}

ASSUME SpanAssumption == IsFiniteSet(Span)
ASSUME BatchAssumption == Batch \in [Index -> Nat \ {0}]
ASSUME ExitsAssumption == MaxExits \in Nat
ASSUME NullAssumption ==
    /\ NULL \notin Block /\ NULL \notin Thread /\ NULL \notin Span /\ NULL \notin Index
    /\ Payload \notin Block /\ Payload # NULL

VARIABLES
    freeList,       \* ThreadCache::freeList_, the heads, per thread and class
    freeListSize,   \* ThreadCache::freeListSize_
    word,           \* the first word of every block
    live,           \* blocks the program holds, per class
    locks,          \* CentralCache::locks_, the holder per class
    mutex,          \* PageCache::mutex_, the holder
    mapped,         \* spans the operating system has mapped
    spanMap,        \* PageCache::spanMap_: the class whose numPages it records
    pc,             \* where each thread is in allocate
    idx,            \* argument `index' of the allocation in progress
    start,          \* the span it got from systemAlloc
    tree,           \* spanMap_ as the insertion in progress found it
    exits           \* threads that have ended

cacheVars == <<freeList, freeListSize>>
lockVars  == <<locks, mutex>>
osVars    == <<mapped, spanMap>>
callVars  == <<pc, idx, start, tree>>
vars == <<cacheVars, word, live, lockVars, osVars, callVars, exits>>

Stage == {"idle", "spin", "page", "system", "locate", "insert", "carve",
          "install", "fail", "null"}

TypeOK ==
    /\ freeList \in [Thread -> [Index -> Block \cup {NULL}]]
    /\ freeListSize \in [Thread -> [Index -> Nat]]
    /\ word \in [Block -> Block \cup {NULL, Payload}]
    /\ live \in [Index -> SUBSET Block]
    /\ locks \in [Index -> Thread \cup {NULL}]
    /\ mutex \in Thread \cup {NULL}
    /\ mapped \subseteq Span
    /\ spanMap \in [Span -> Index \cup {NULL}]
    /\ pc \in [Thread -> Stage]
    /\ idx \in [Thread -> Index]
    /\ start \in [Thread -> Span \cup {NULL}]
    /\ tree \in [Thread -> [Span -> Index \cup {NULL}]]
    /\ exits \in Nat

NoSpans == [s \in Span |-> NULL]

Init ==
    /\ freeList = [t \in Thread |-> [i \in Index |-> NULL]]
    /\ freeListSize = [t \in Thread |-> [i \in Index |-> 0]]
    /\ word = [b \in Block |-> NULL]
    /\ live = [i \in Index |-> {}]
    /\ locks = [i \in Index |-> NULL]
    /\ mutex = NULL
    /\ mapped = {}
    /\ spanMap = NoSpans
    /\ pc = [t \in Thread |-> "idle"]
    /\ idx = [t \in Thread |-> 0]
    /\ start = [t \in Thread |-> NULL]
    /\ tree = [t \in Thread |-> NoSpans]
    /\ exits = 0

(***************************************************************************)
(* ThreadCache                                                             *)
(***************************************************************************)

\* The new expression: the block becomes the program's, whose constructor
\* writes over its first word.
HandOut(i, b) ==
    /\ live' = [live EXCEPT ![i] = @ \cup {b}]
    /\ word' = [word EXCEPT ![b] = Payload]

\* allocate, when the list has a block: unlink the head.
Hit(t, i) ==
    /\ pc[t] = "idle"
    /\ freeList[t][i] # NULL
    /\ LET ptr == freeList[t][i] IN
        /\ freeList' = [freeList EXCEPT ![t][i] = word[ptr]]
        /\ freeListSize' = [freeListSize EXCEPT ![t][i] = @ - 1]
        /\ HandOut(i, ptr)
    /\ UNCHANGED <<lockVars, osVars, callVars, exits>>

\* allocate, when it has none: on to fetchFromCentralCache and fetchRange.
Miss(t, i) ==
    /\ pc[t] = "idle"
    /\ freeList[t][i] = NULL
    /\ pc' = [pc EXCEPT ![t] = "spin"]
    /\ idx' = [idx EXCEPT ![t] = i]
    /\ UNCHANGED <<cacheVars, word, live, lockVars, osVars, start, tree, exits>>

\* Mutant of Install: the list starts with the block that is handed out.
InstallKeepsFirst(t) ==
    /\ pc[t] = "install"
    /\ freeList' = [freeList EXCEPT ![t][idx[t]] = <<start[t], 1>>]
    /\ freeListSize' = [freeListSize EXCEPT ![t][idx[t]] = @ + Batch[idx[t]]]
    /\ HandOut(idx[t], <<start[t], 1>>)
    /\ pc' = [pc EXCEPT ![t] = "idle"]
    /\ start' = [start EXCEPT ![t] = NULL]
    /\ idx' = [idx EXCEPT ![t] = 0]
    /\ UNCHANGED <<lockVars, osVars, tree, exits>>

\* Mutant of Install: the length of the list is not added.
InstallForgetsSize(t) ==
    /\ pc[t] = "install"
    /\ freeList' = [freeList EXCEPT ![t][idx[t]] = word[<<start[t], 1>>]]
    /\ HandOut(idx[t], <<start[t], 1>>)
    /\ pc' = [pc EXCEPT ![t] = "idle"]
    /\ start' = [start EXCEPT ![t] = NULL]
    /\ idx' = [idx EXCEPT ![t] = 0]
    /\ UNCHANGED <<freeListSize, lockVars, osVars, tree, exits>>

\* The end of fetchFromCentralCache: the first block is the result, the rest of
\* the chain becomes the list.  A chain of one leaves the list alone.
Install(t) ==
    /\ pc[t] = "install"
    /\ LET first == <<start[t], 1>>
           i == idx[t]
       IN  /\ IF Batch[i] > 1
              THEN /\ freeList' = [freeList EXCEPT ![t][i] = word[first]]
                   /\ freeListSize' = [freeListSize EXCEPT ![t][i] = @ + (Batch[i] - 1)]
              ELSE UNCHANGED cacheVars
           /\ HandOut(i, first)
    /\ pc' = [pc EXCEPT ![t] = "idle"]
    /\ start' = [start EXCEPT ![t] = NULL]
    /\ idx' = [idx EXCEPT ![t] = 0]
    /\ UNCHANGED <<lockVars, osVars, tree, exits>>

\* Mutant of Deallocate: the block goes to the list of the other class.
DeallocateToOther(t, i, b) ==
    /\ pc[t] = "idle"
    /\ b \in live[i]
    /\ live' = [live EXCEPT ![i] = @ \ {b}]
    /\ word' = [word EXCEPT ![b] = freeList[t][1 - i]]
    /\ freeList' = [freeList EXCEPT ![t][1 - i] = b]
    /\ freeListSize' = [freeListSize EXCEPT ![t][1 - i] = @ + 1]
    /\ UNCHANGED <<lockVars, osVars, callVars, exits>>

\* Mutant of Deallocate: the block is not linked to the list.
DeallocateDropsList(t, i, b) ==
    /\ pc[t] = "idle"
    /\ b \in live[i]
    /\ live' = [live EXCEPT ![i] = @ \ {b}]
    /\ word' = [word EXCEPT ![b] = NULL]
    /\ freeList' = [freeList EXCEPT ![t][i] = b]
    /\ freeListSize' = [freeListSize EXCEPT ![t][i] = @ + 1]
    /\ UNCHANGED <<lockVars, osVars, callVars, exits>>

\* deallocate: push on the caller's own list, whichever thread allocated b.
Deallocate(t, i, b) ==
    /\ pc[t] = "idle"
    /\ b \in live[i]
    /\ live' = [live EXCEPT ![i] = @ \ {b}]
    /\ word' = [word EXCEPT ![b] = freeList[t][i]]
    /\ freeList' = [freeList EXCEPT ![t][i] = b]
    /\ freeListSize' = [freeListSize EXCEPT ![t][i] = @ + 1]
    /\ UNCHANGED <<lockVars, osVars, callVars, exits>>

\* A thread ends and the pool of threads starts another: the thread_local
\* instance goes with its lists, the new one starts with empty lists.
ThreadExit(t) ==
    /\ pc[t] = "idle"
    /\ exits < MaxExits
    /\ exits' = exits + 1
    /\ freeList' = [freeList EXCEPT ![t] = [i \in Index |-> NULL]]
    /\ freeListSize' = [freeListSize EXCEPT ![t] = [i \in Index |-> 0]]
    /\ UNCHANGED <<word, live, lockVars, osVars, callVars>>

(***************************************************************************)
(* CentralCache                                                            *)
(***************************************************************************)

\* SpinLocker: test_and_set returns false only when the flag was clear.
SpinLock(t) ==
    /\ pc[t] = "spin"
    /\ locks[idx[t]] = NULL
    /\ locks' = [locks EXCEPT ![idx[t]] = t]
    /\ pc' = [pc EXCEPT ![t] = "page"]
    /\ UNCHANGED <<cacheVars, word, live, mutex, osVars, idx, start, tree, exits>>

\* fetchRange: link the blocks of the span, the last one to null; the return
\* destroys the SpinLocker.  A span of one block is not written.
Carve(t) ==
    /\ pc[t] = "carve"
    /\ LET s == start[t]
           n == Batch[idx[t]]
       IN word' = IF n > 1
                  THEN [b \in Block |->
                          IF b \in BlocksOf(s, idx[t])
                          THEN IF b[2] < n THEN <<s, b[2] + 1>> ELSE NULL
                          ELSE word[b]]
                  ELSE word
    /\ locks' = [locks EXCEPT ![idx[t]] = NULL]
    /\ pc' = [pc EXCEPT ![t] = "install"]
    /\ UNCHANGED <<cacheVars, live, mutex, osVars, idx, start, tree, exits>>

\* Mutant of ReturnNull: the early return does not unlock.
ReturnNullLocked(t) ==
    /\ pc[t] = "fail"
    /\ pc' = [pc EXCEPT ![t] = "null"]
    /\ UNCHANGED <<cacheVars, word, live, lockVars, osVars, idx, start, tree, exits>>

\* fetchRange got a null span: unlock, and the null goes all the way up to
\* operator new, which returns it.  What the program does then is undefined;
\* the thread takes no more part.
ReturnNull(t) ==
    /\ pc[t] = "fail"
    /\ locks' = [locks EXCEPT ![idx[t]] = NULL]
    /\ pc' = [pc EXCEPT ![t] = "null"]
    /\ UNCHANGED <<cacheVars, word, live, mutex, osVars, idx, start, tree, exits>>

(***************************************************************************)
(* PageCache                                                               *)
(***************************************************************************)

\* Mutant of LockPages: nobody waits for the mutex.
LockPagesAtOnce(t) ==
    /\ pc[t] = "page"
    /\ mutex' = t
    /\ pc' = [pc EXCEPT ![t] = "system"]
    /\ UNCHANGED <<cacheVars, word, live, locks, osVars, idx, start, tree, exits>>

\* The lock_guard of allocateSpan.
LockPages(t) ==
    /\ pc[t] = "page"
    /\ mutex = NULL
    /\ mutex' = t
    /\ pc' = [pc EXCEPT ![t] = "system"]
    /\ UNCHANGED <<cacheVars, word, live, locks, osVars, idx, start, tree, exits>>

\* systemAlloc: mmap or VirtualAlloc of pages filled with zeros.
SystemAlloc(t, s) ==
    /\ pc[t] = "system"
    /\ s \notin mapped
    /\ mapped' = mapped \cup {s}
    /\ word' = [b \in Block |-> IF b[1] = s THEN NULL ELSE word[b]]
    /\ start' = [start EXCEPT ![t] = s]
    /\ pc' = [pc EXCEPT ![t] = "locate"]
    /\ UNCHANGED <<cacheVars, live, lockVars, spanMap, idx, tree, exits>>

\* The system call may fail at any time; the lock_guard unlocks on return.
SystemAllocFails(t) ==
    /\ pc[t] = "system"
    /\ mutex' = NULL
    /\ pc' = [pc EXCEPT ![t] = "fail"]
    /\ UNCHANGED <<cacheVars, word, live, locks, osVars, idx, start, tree, exits>>

\* spanMap_[pageAddr] = span is two steps for any other thread: the walk that
\* finds the place in the tree, and the link that writes it.  (A local that is
\* no longer used, here the tree, goes back to its first value.)
LocateNode(t) ==
    /\ pc[t] = "locate"
    /\ tree' = [tree EXCEPT ![t] = spanMap]
    /\ pc' = [pc EXCEPT ![t] = "insert"]
    /\ UNCHANGED <<cacheVars, word, live, lockVars, osVars, idx, start, exits>>

InsertNode(t) ==
    /\ pc[t] = "insert"
    /\ spanMap' = [tree[t] EXCEPT ![start[t]] = idx[t]]
    /\ mutex' = NULL
    /\ pc' = [pc EXCEPT ![t] = "carve"]
    /\ tree' = [tree EXCEPT ![t] = NoSpans]
    /\ UNCHANGED <<cacheVars, word, live, locks, mapped, idx, start, exits>>

\* What a caller of releaseAllSpanstoOS has to see to first: nothing is live, no
\* thread has a cached block and no allocation is under way.
Quiescent ==
    /\ \A i \in Index : live[i] = {}
    /\ \A t \in Thread : pc[t] \in {"idle", "null"}
    /\ \A t \in Thread, i \in Index : freeList[t][i] = NULL

\* releaseAllSpanstoOS: unmap every recorded span, forget them all.
ReleaseAll ==
    /\ mutex = NULL
    /\ Quiescent
    /\ mapped' = {s \in mapped : spanMap[s] = NULL}
    /\ word' = [b \in Block |-> IF spanMap[b[1]] # NULL THEN NULL ELSE word[b]]
    /\ spanMap' = NoSpans
    /\ UNCHANGED <<cacheVars, live, lockVars, callVars, exits>>

\* Every thread has had a null pointer from operator new.
Halted == (\A t \in Thread : pc[t] = "null") /\ UNCHANGED vars

Step(t) ==
    \/ SpinLock(t)
    \/ LockPages(t)
    \/ \E s \in Span : SystemAlloc(t, s)
    \/ SystemAllocFails(t)
    \/ LocateNode(t)
    \/ InsertNode(t)
    \/ Carve(t)
    \/ Install(t)
    \/ ReturnNull(t)

Call(t) ==
    \/ \E i \in Index : Hit(t, i)
    \/ \E i \in Index : Miss(t, i)
    \/ \E i \in Index : \E b \in live[i] : Deallocate(t, i, b)
    \/ ThreadExit(t)

Next == (\E t \in Thread : Step(t) \/ Call(t)) \/ ReleaseAll \/ Halted

\* The scheduler runs every thread that has a step of allocate to take.  No
\* thread need call allocate or deallocate, or end.
Fairness == \A t \in Thread : WF_vars(Step(t))

Spec == Init /\ [][Next]_vars /\ Fairness

(***************************************************************************)
(* What makes the pool correct                                             *)
(***************************************************************************)

\* The pool behaves as an allocator: allocate, from a list or from a new span,
\* never returns memory that overlaps a live block, whatever the interleaving
\* and whichever thread freed the block before (ThreadCache.cpp:18-83).
Promise == INSTANCE Allocator WITH Class <- Index
AllocatorSpec == Promise!Spec

\* ... and the block that it returns is not live itself.  (To Allocator, handing
\* out a live block once more is no step.)
HandsOutFree ==
    [][/\ \A t \in Thread, i \in Index :
             Hit(t, i) => Promise!Allocate(i, freeList[t][i])
       /\ \A t \in Thread :
             Install(t) => Promise!Allocate(idx[t], <<start[t], 1>>)]_vars

\* Spans some thread has mapped and not finished handing over.
Claimed == {start[t] : t \in Thread} \ {NULL}

\* Every page the pool holds is in spanMap_, so that releaseAllSpanstoOS can
\* unmap it, or will be by the thread that is recording it.  It breaks when two
\* insertions overlap: the second one links a tree without the first's node.
SpansRecorded ==
    /\ \A s \in mapped :
          \/ spanMap[s] # NULL
          \/ \E t \in Thread : start[t] = s /\ pc[t] \in {"locate", "insert"}
    /\ \A s \in Span : spanMap[s] # NULL => s \in mapped

\* The n-th pointer of the list that starts at h.
Links(h) ==
    LET p[n \in 0..Cardinality(Block)] ==
            IF n = 0 THEN h
            ELSE IF p[n - 1] \in Block THEN word[p[n - 1]] ELSE p[n - 1]
    IN  p
ListBlocks(t, i) ==
    {Links(freeList[t][i])[n] : n \in 0..Cardinality(Block)} \cap Block

\* freeListSize_ is the length of the list, which therefore ends: the counter is
\* kept in step by hand in three places (ThreadCache.cpp:28, 55, 76).
SizeIsLength ==
    \A t \in Thread, i \in Index :
        LET p == Links(freeList[t][i])
            n == freeListSize[t][i]
        IN  /\ n <= Cardinality(Block)
            /\ p[n] = NULL
            /\ \A k \in 0..(n - 1) : p[k] \in Block

\* As long as no thread has ended, each block of a recorded span is somewhere:
\* live, in the list of a thread, or in a span that is still being handed over.
\* (A thread that ends takes the blocks it has cached out of use for good.)
NothingLost ==
    exits = 0 =>
        \A s \in Span, i \in Index : spanMap[s] = i =>
            \/ s \in Claimed
            \/ \A b \in BlocksOf(s, i) :
                  b \in live[i] \/ \E t \in Thread : b \in ListBlocks(t, i)

\* Every allocation comes back, with a block or with null: no thread starves on
\* the spin lock or on the mutex.
AllocationReturns ==
    \A t \in Thread : pc[t] = "spin" ~> pc[t] \in {"idle", "null"}

(***************************************************************************)
(* The invariant that the proofs use.  It speaks of single links only: no  *)
(* conjunct needs a walk along a list.                                     *)
(***************************************************************************)

\* Who holds the locks, by program counter.
HoldsSpin(t) == pc[t] \in {"page", "system", "locate", "insert", "carve", "fail"}
HoldsMutex(t) == pc[t] \in {"system", "locate", "insert"}
LocksHeld ==
    /\ \A t \in Thread : HoldsMutex(t) <=> mutex = t
    /\ \A t \in Thread : HoldsSpin(t) => locks[idx[t]] = t

\* A thread that fetches has an empty list of that class.
BusyListEmpty ==
    \A t \in Thread : pc[t] \notin {"idle", "null"} => freeList[t][idx[t]] = NULL

\* The spans under way are distinct and mapped; each is recorded once inserted,
\* and the tree that an insertion is about to change is the current one.
InFlight ==
    /\ \A t \in Thread :
          start[t] # NULL <=> pc[t] \in {"locate", "insert", "carve", "install"}
    /\ \A t, u \in Thread : start[t] = start[u] /\ start[t] # NULL => t = u
    /\ \A t \in Thread : start[t] # NULL => start[t] \in mapped
    /\ \A t \in Thread : pc[t] \in {"locate", "insert"} => spanMap[start[t]] = NULL
    /\ \A t \in Thread : pc[t] \in {"carve", "install"} => spanMap[start[t]] = idx[t]
    /\ \A t \in Thread : pc[t] = "insert" => tree[t] = spanMap

\* Live blocks belong to recorded spans of their class, none of them under way,
\* and their first word is the program's.
LiveBlocks ==
    \A i \in Index : \A b \in live[i] :
        /\ b[1] \in Span
        /\ spanMap[b[1]] = i
        /\ b \in BlocksOf(b[1], i)
        /\ b[1] \notin Claimed
        /\ word[b] = Payload

\* The blocks of class i that are neither live nor in a span under way: the ones
\* in the lists, and the ones lost with a thread.
FreeBlocks(i) ==
    {b \in Block : /\ spanMap[b[1]] = i
                   /\ b \in BlocksOf(b[1], i)
                   /\ b[1] \notin Claimed
                   /\ b \notin live[i]}

\* Links stay among free blocks of the class, and no two meet.
FreeLinks ==
    \A i \in Index :
        /\ \A b \in FreeBlocks(i) : word[b] \in FreeBlocks(i) \cup {NULL}
        /\ \A b, c \in FreeBlocks(i) : word[b] = word[c] /\ word[b] # NULL => b = c

\* Heads are free blocks of their class, are not shared and are not linked to.
Heads ==
    \A t \in Thread, i \in Index : freeList[t][i] # NULL =>
        /\ freeList[t][i] \in FreeBlocks(i)
        /\ \A u \in Thread : freeList[u][i] = freeList[t][i] => u = t
        /\ \A b \in FreeBlocks(i) : word[b] # freeList[t][i]

\* Between Carve and Install the span is a chain that ends.  (A span of one
\* block is never linked.)
Chained ==
    \A t \in Thread : pc[t] = "install" /\ Batch[idx[t]] > 1 =>
        \A b \in BlocksOf(start[t], idx[t]) :
            word[b] = IF b[2] < Batch[idx[t]] THEN <<b[1], b[2] + 1>> ELSE NULL

\* All of it: why no thread is ever handed a block that somebody else has.
IInv ==
    /\ TypeOK
    /\ LocksHeld
    /\ BusyListEmpty
    /\ InFlight
    /\ SpansRecorded
    /\ LiveBlocks
    /\ FreeLinks
    /\ Heads
    /\ Chained
=============================================================================
