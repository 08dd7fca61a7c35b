--------------------------- MODULE MemoryPoolProofs --------------------------
(***************************************************************************)
(* Proofs about MemoryPool, for any threads, spans and span sizes: the     *)
(* inductive invariant, and from it that the pool is an allocator.         *)
(***************************************************************************)
EXTENDS MemoryPool, FiniteSetTheorems, WellFoundedInduction, TLAPS

(***************************************************************************)
(* freeListSize_ never passes below zero because it is the length of its   *)
(* list.  The invariant says so link by link: some measure d counts the    *)
(* blocks from b to the end.  The walks themselves come last.              *)
(***************************************************************************)
Measures(d) ==
    /\ \A i \in Index : \A b \in FreeBlocks(i) :
          d[b] = IF word[b] = NULL THEN 1 ELSE d[word[b]] + 1
    /\ \A t \in Thread, i \in Index :
          freeListSize[t][i] = IF freeList[t][i] = NULL THEN 0 ELSE d[freeList[t][i]]
Measured == \E d \in [Block -> Nat \ {0}] : Measures(d)

Inv == IInv /\ Measured

\* A block of a span is a pair, and knows its span and its slot.
LEMMA BlockFacts ==
    ASSUME NEW s \in Span, NEW i \in Index
    PROVE  /\ BlocksOf(s, i) \subseteq Block
           /\ \A b \in BlocksOf(s, i) : b[1] = s /\ b[2] \in 1..Batch[i] /\ b = <<s, b[2]>>
           /\ \A k \in 1..Batch[i] : <<s, k>> \in BlocksOf(s, i)
  <1>1. BlocksOf(s, i) \subseteq Block
    BY DEF Block
  <1>2. ASSUME NEW b \in BlocksOf(s, i)
        PROVE  b[1] = s /\ b[2] \in 1..Batch[i] /\ b = <<s, b[2]>>
    <2>1. PICK k \in 1..Batch[i] : b = <<s, k>>
      BY DEF BlocksOf
    <2> QED
      BY <2>1
  <1>3. ASSUME NEW k \in 1..Batch[i] PROVE <<s, k>> \in BlocksOf(s, i)
    BY DEF BlocksOf
  <1> QED
    BY <1>1, <1>2, <1>3

LEMMA BlockSpan == ASSUME NEW b \in Block PROVE b[1] \in Span
  <1>1. PICK s \in Span, i \in Index : b \in BlocksOf(s, i)
    BY DEF Block
  <1> QED
    BY <1>1, BlockFacts

\* Writing one head of one thread.
LEMMA HeadUpdate ==
    ASSUME NEW f \in [Thread -> [Index -> Block \cup {NULL}]],
           NEW t \in Thread, NEW i \in Index, NEW x \in Block \cup {NULL}
    PROVE  /\ [f EXCEPT ![t][i] = x] \in [Thread -> [Index -> Block \cup {NULL}]]
           /\ \A u \in Thread, j \in Index :
                 [f EXCEPT ![t][i] = x][u][j] = IF u = t /\ j = i THEN x ELSE f[u][j]
  OBVIOUS

\* Live blocks are in no list and in no span that is under way.
LEMMA LiveFacts ==
    ASSUME IInv, NEW i \in Index, NEW b \in live[i]
    PROVE  /\ b \in Block
           /\ \A j \in Index \ {i} : b \notin live[j]
           /\ \A j \in Index : b \notin FreeBlocks(j)
  BY DEF IInv, TypeOK, LiveBlocks, FreeBlocks

\* An action that leaves the blocks, the lists, the spans and the claims alone
\* leaves everything about the lists alone.
LEMMA HeapFrame ==
    ASSUME Inv,
           UNCHANGED <<freeList, freeListSize, word, live, spanMap, start>>
    PROVE  LiveBlocks' /\ FreeLinks' /\ Heads' /\ Measured'
  <1>1. Claimed' = Claimed
    BY DEF Claimed
  <1>2. \A i \in Index : FreeBlocks(i)' = FreeBlocks(i)
    BY <1>1 DEF FreeBlocks
  <1>3. LiveBlocks'
    BY <1>1 DEF Inv, IInv, LiveBlocks
  <1>4. FreeLinks' /\ Heads'
    BY <1>2 DEF Inv, IInv, FreeLinks, Heads
  <1>5. Measured'
    BY <1>2 DEF Inv, Measured, Measures
  <1> QED
    BY <1>3, <1>4, <1>5

\* The empty pool.
LEMMA InitInv == Init => Inv
  <1> SUFFICES ASSUME Init PROVE Inv
    OBVIOUS
  <1>1. TypeOK
    BY ExitsAssumption DEF Init, TypeOK, Index, NoSpans, Stage
  <1>2. LocksHeld
    BY NullAssumption DEF Init, LocksHeld, HoldsMutex, HoldsSpin
  <1>3. BusyListEmpty
    BY DEF Init, BusyListEmpty
  <1>4. InFlight
    BY DEF Init, InFlight
  <1>5. SpansRecorded
    BY DEF Init, SpansRecorded, NoSpans
  <1>6. LiveBlocks
    BY DEF Init, LiveBlocks
  <1>7. \A i \in Index : FreeBlocks(i) = {}
    BY NullAssumption, BlockSpan DEF Init, FreeBlocks, NoSpans
  <1>8. FreeLinks /\ Heads
    BY <1>7 DEF Init, FreeLinks, Heads
  <1>9. Chained
    BY DEF Init, Chained
  <1>10. Measured
    <2>1. [b \in Block |-> 1] \in [Block -> Nat \ {0}]
      OBVIOUS
    <2>2. Measures([b \in Block |-> 1])
      BY <1>7 DEF Init, Measures
    <2> QED
      BY <2>1, <2>2 DEF Measured
  <1> QED
    BY <1>1, <1>2, <1>3, <1>4, <1>5, <1>6, <1>8, <1>9, <1>10 DEF Inv, IInv

\* Unlinking a head: it has no other owner, and what it links to becomes a head.
LEMMA HitInv ==
    ASSUME Inv, NEW t \in Thread, NEW i \in Index, Hit(t, i)
    PROVE  Inv'
  <1> DEFINE h == freeList[t][i]
  <1>0. /\ h \in FreeBlocks(i)
        /\ h \in Block
        /\ \A j \in Index : h \notin live[j]
    BY DEF Inv, IInv, TypeOK, Heads, FreeBlocks, LiveBlocks, Hit
  <1>1. /\ word' = [word EXCEPT ![h] = Payload]
        /\ live' = [live EXCEPT ![i] = @ \cup {h}]
        /\ freeList' = [freeList EXCEPT ![t][i] = word[h]]
        /\ freeListSize' = [freeListSize EXCEPT ![t][i] = @ - 1]
        /\ word[h] \in FreeBlocks(i) \cup {NULL}
        /\ pc[t] = "idle"
        /\ UNCHANGED <<locks, mutex, mapped, spanMap, pc, idx, start, tree, exits>>
    BY <1>0 DEF Hit, HandOut, lockVars, osVars, callVars, Inv, IInv, FreeLinks
  <1>2. PICK d \in [Block -> Nat \ {0}] : Measures(d)
    BY DEF Inv, Measured
  <1>3. /\ FreeBlocks(i)' = FreeBlocks(i) \ {h}
        /\ \A j \in Index \ {i} : FreeBlocks(j)' = FreeBlocks(j)
    BY <1>0, <1>1 DEF FreeBlocks, Claimed, Inv, IInv, TypeOK
  <1>4. TypeOK'
    <2>1. freeListSize[t][i] = d[h]
      BY <1>2, NullAssumption, <1>0 DEF Measures
    <2>2. freeListSize[t][i] - 1 \in Nat
      BY <2>1, <1>0
    <2>3. freeListSize' \in [Thread -> [Index -> Nat]]
      BY <1>1, <2>2 DEF Inv, IInv, TypeOK
    <2>4. freeList' \in [Thread -> [Index -> Block \cup {NULL}]]
      BY <1>1 DEF Inv, IInv, TypeOK, FreeBlocks
    <2> QED
      BY <1>0, <1>1, <2>3, <2>4 DEF Inv, IInv, TypeOK
  <1>5. FreeLinks'
    <2>1. \A b \in Block : b # h => word'[b] = word[b]
      BY <1>1 DEF Inv, IInv, TypeOK
    <2>2. ASSUME NEW j \in Index, NEW b \in FreeBlocks(j)'
          PROVE  /\ b \in FreeBlocks(j) /\ b # h /\ b \in Block
                 /\ word'[b] = word[b]
                 /\ word[b] # h
      <3>1. b \in FreeBlocks(j) /\ b \in Block
        BY <1>3 DEF FreeBlocks
      <3>2. b # h
        BY <3>1, <1>0, <1>3 DEF FreeBlocks
      <3>3. j = i => word[b] # h
        BY <3>1, <1>0, NullAssumption DEF Inv, IInv, Heads
      <3>4. j # i => word[b] # h
        BY <3>1, <1>0, NullAssumption DEF Inv, IInv, FreeLinks, FreeBlocks
      <3> QED
        BY <3>1, <3>2, <3>3, <3>4, <2>1
    <2>3. ASSUME NEW j \in Index, NEW b \in FreeBlocks(j)'
          PROVE  word'[b] \in FreeBlocks(j)' \cup {NULL}
      BY <2>2, <2>3, <1>3 DEF Inv, IInv, FreeLinks
    <2>4. ASSUME NEW j \in Index, NEW b \in FreeBlocks(j)', NEW c \in FreeBlocks(j)',
                 word'[b] = word'[c], word'[b] # NULL
          PROVE  b = c
      BY <2>2, <2>4 DEF Inv, IInv, FreeLinks
    <2> QED
      BY <2>3, <2>4 DEF FreeLinks
  <1>6. Heads'
    <2> SUFFICES ASSUME NEW u \in Thread, NEW j \in Index, freeList'[u][j] # NULL
                 PROVE  /\ freeList'[u][j] \in FreeBlocks(j)'
                        /\ \A v \in Thread : freeList'[v][j] = freeList'[u][j] => v = u
                        /\ \A b \in FreeBlocks(j)' : word'[b] # freeList'[u][j]
      BY DEF Heads
    <2>1. \A v \in Thread, k \in Index :
            freeList'[v][k] = IF v = t /\ k = i THEN word[h] ELSE freeList[v][k]
      BY <1>1 DEF Inv, IInv, TypeOK
    <2>2. \A b \in Block : word'[b] = IF b = h THEN Payload ELSE word[b]
      BY <1>1 DEF Inv, IInv, TypeOK
    <2>3. CASE j # i
      BY <2>1, <2>2, <2>3, <1>0, <1>3 DEF Heads, Inv, IInv, FreeBlocks
    <2>4. CASE j = i
      BY <2>1, <2>2, <2>4, <1>0, <1>3 DEF Heads, FreeLinks, Inv, IInv, FreeBlocks
    <2> QED
      BY <2>3, <2>4
  <1>7. LiveBlocks'
    <2>1. Claimed' = Claimed
      BY <1>1 DEF Claimed
    <2>2. h[1] \in Span
      BY <1>0, BlockSpan
    <2> QED
      BY <1>0, <1>1, <2>1, <2>2 DEF LiveBlocks, Inv, IInv, TypeOK, FreeBlocks
  <1>8. Chained'
    <2> SUFFICES ASSUME NEW u \in Thread, pc'[u] = "install", Batch[idx'[u]] > 1,
                        NEW b \in BlocksOf(start'[u], idx'[u])
                 PROVE  word'[b] = IF b[2] < Batch[idx'[u]] THEN <<b[1], b[2] + 1>> ELSE NULL
      BY DEF Chained
    <2>1. start[u] \in Span /\ idx[u] \in Index
      BY <1>1, NullAssumption DEF Inv, IInv, TypeOK, InFlight
    <2>2. b \in Block /\ b[1] = start[u]
      BY <1>1, <2>1, BlockFacts
    <2>3. b # h
      BY <1>0, <2>1, <2>2, NullAssumption DEF FreeBlocks, Claimed
    <2> QED
      BY <1>1, <2>2, <2>3 DEF Chained, Inv, IInv, TypeOK
  <1>9. Measured'
    <2>1. Measures(d)'
      <3>1. \A j \in Index : \A b \in FreeBlocks(j)' :
              d[b] = IF word'[b] = NULL THEN 1 ELSE d[word'[b]] + 1
        BY <1>0, <1>1, <1>2, <1>3 DEF Measures, FreeBlocks, Inv, IInv, TypeOK
      <3>2. ASSUME NEW u \in Thread, NEW j \in Index
            PROVE  freeListSize'[u][j] = IF freeList'[u][j] = NULL THEN 0 ELSE d[freeList'[u][j]]
        <4>1. CASE u = t /\ j = i
          <5>0. freeListSize[t][i] = d[h]
            BY <1>0, <1>2, NullAssumption DEF Measures
          <5>1. freeList'[u][j] = word[h] /\ freeListSize'[u][j] = d[h] - 1
            BY <1>1, <4>1, <5>0 DEF Inv, IInv, TypeOK
          <5>2. d[h] = IF word[h] = NULL THEN 1 ELSE d[word[h]] + 1
            BY <1>0, <1>2 DEF Measures
          <5>3. word[h] # NULL => d[word[h]] \in Nat
            BY <1>1 DEF FreeBlocks
          <5> QED
            BY <5>1, <5>2, <5>3
        <4>2. CASE ~(u = t /\ j = i)
          BY <1>1, <1>2, <4>2 DEF Measures, Inv, IInv, TypeOK
        <4> QED
          BY <4>1, <4>2
      <3> QED
        BY <3>1, <3>2 DEF Measures
    <2> QED
      BY <2>1 DEF Measured
  <1>10. LocksHeld' /\ InFlight' /\ SpansRecorded'
    BY <1>1 DEF Inv, IInv, LocksHeld, HoldsMutex, HoldsSpin, InFlight, SpansRecorded
  <1>11. BusyListEmpty'
    BY <1>1 DEF Inv, IInv, TypeOK, BusyListEmpty
  <1> QED
    BY <1>4, <1>5, <1>6, <1>7, <1>8, <1>9, <1>10, <1>11 DEF Inv, IInv

\* A miss starts a fetch; the list of the class is empty and stays so.
LEMMA MissInv ==
    ASSUME Inv, NEW t \in Thread, NEW i \in Index, Miss(t, i)
    PROVE  Inv'
  <1> USE DEF Miss, cacheVars, lockVars, osVars
  <1>1. TypeOK'
    BY DEF Inv, IInv, TypeOK, Stage
  <1>2. LocksHeld'
    BY NullAssumption DEF Inv, IInv, TypeOK, LocksHeld, HoldsMutex, HoldsSpin
  <1>3. BusyListEmpty'
    BY DEF Inv, IInv, TypeOK, BusyListEmpty
  <1>4. InFlight'
    BY NullAssumption DEF Inv, IInv, TypeOK, InFlight, LocksHeld, HoldsMutex
  <1>5. SpansRecorded'
    BY DEF Inv, IInv, TypeOK, SpansRecorded
  <1>6. Chained'
    BY DEF Inv, IInv, TypeOK, Chained
  <1>7. LiveBlocks' /\ FreeLinks' /\ Heads' /\ Measured'
    BY HeapFrame
  <1> QED
    BY <1>1, <1>2, <1>3, <1>4, <1>5, <1>6, <1>7 DEF Inv, IInv

\* The spin lock was free.
LEMMA SpinLockInv ==
    ASSUME Inv, NEW t \in Thread, SpinLock(t)
    PROVE  Inv'
  <1> USE DEF SpinLock, cacheVars, lockVars, osVars
  <1>1. TypeOK'
    BY DEF Inv, IInv, TypeOK, Stage
  <1>2. LocksHeld'
    BY NullAssumption DEF Inv, IInv, TypeOK, LocksHeld, HoldsMutex, HoldsSpin
  <1>3. BusyListEmpty'
    BY DEF Inv, IInv, TypeOK, BusyListEmpty
  <1>4. InFlight'
    BY NullAssumption DEF Inv, IInv, TypeOK, InFlight, LocksHeld, HoldsMutex
  <1>5. SpansRecorded'
    BY DEF Inv, IInv, TypeOK, SpansRecorded
  <1>6. Chained'
    BY DEF Inv, IInv, TypeOK, Chained
  <1>7. LiveBlocks' /\ FreeLinks' /\ Heads' /\ Measured'
    BY HeapFrame
  <1> QED
    BY <1>1, <1>2, <1>3, <1>4, <1>5, <1>6, <1>7 DEF Inv, IInv

\* The mutex was free.
LEMMA LockPagesInv ==
    ASSUME Inv, NEW t \in Thread, LockPages(t)
    PROVE  Inv'
  <1> USE DEF LockPages, cacheVars, lockVars, osVars
  <1>1. TypeOK'
    BY DEF Inv, IInv, TypeOK, Stage
  <1>2. LocksHeld'
    BY NullAssumption DEF Inv, IInv, TypeOK, LocksHeld, HoldsMutex, HoldsSpin
  <1>3. BusyListEmpty'
    BY DEF Inv, IInv, TypeOK, BusyListEmpty
  <1>4. InFlight'
    BY NullAssumption DEF Inv, IInv, TypeOK, InFlight, LocksHeld, HoldsMutex
  <1>5. SpansRecorded'
    BY DEF Inv, IInv, TypeOK, SpansRecorded
  <1>6. Chained'
    BY DEF Inv, IInv, TypeOK, Chained
  <1>7. LiveBlocks' /\ FreeLinks' /\ Heads' /\ Measured'
    BY HeapFrame
  <1> QED
    BY <1>1, <1>2, <1>3, <1>4, <1>5, <1>6, <1>7 DEF Inv, IInv

\* No span is under way when the system call fails.
LEMMA SystemAllocFailsInv ==
    ASSUME Inv, NEW t \in Thread, SystemAllocFails(t)
    PROVE  Inv'
  <1> USE DEF SystemAllocFails, cacheVars, lockVars, osVars
  <1>1. TypeOK'
    BY DEF Inv, IInv, TypeOK, Stage
  <1>2. LocksHeld'
    BY NullAssumption DEF Inv, IInv, TypeOK, LocksHeld, HoldsMutex, HoldsSpin
  <1>3. BusyListEmpty'
    BY DEF Inv, IInv, TypeOK, BusyListEmpty
  <1>4. InFlight'
    BY NullAssumption DEF Inv, IInv, TypeOK, InFlight, LocksHeld, HoldsMutex
  <1>5. SpansRecorded'
    BY DEF Inv, IInv, TypeOK, SpansRecorded
  <1>6. Chained'
    BY DEF Inv, IInv, TypeOK, Chained
  <1>7. LiveBlocks' /\ FreeLinks' /\ Heads' /\ Measured'
    BY HeapFrame
  <1> QED
    BY <1>1, <1>2, <1>3, <1>4, <1>5, <1>6, <1>7 DEF Inv, IInv

\* Null goes up and the spin lock is free again.
LEMMA ReturnNullInv ==
    ASSUME Inv, NEW t \in Thread, ReturnNull(t)
    PROVE  Inv'
  <1> USE DEF ReturnNull, cacheVars, lockVars, osVars
  <1>1. TypeOK'
    BY DEF Inv, IInv, TypeOK, Stage
  <1>2. LocksHeld'
    BY NullAssumption DEF Inv, IInv, TypeOK, LocksHeld, HoldsMutex, HoldsSpin
  <1>3. BusyListEmpty'
    BY DEF Inv, IInv, TypeOK, BusyListEmpty
  <1>4. InFlight'
    BY NullAssumption DEF Inv, IInv, TypeOK, InFlight, LocksHeld, HoldsMutex
  <1>5. SpansRecorded'
    BY DEF Inv, IInv, TypeOK, SpansRecorded
  <1>6. Chained'
    BY DEF Inv, IInv, TypeOK, Chained
  <1>7. LiveBlocks' /\ FreeLinks' /\ Heads' /\ Measured'
    BY HeapFrame
  <1> QED
    BY <1>1, <1>2, <1>3, <1>4, <1>5, <1>6, <1>7 DEF Inv, IInv

\* The tree is read under the mutex, so it stays current until the insertion.
LEMMA LocateNodeInv ==
    ASSUME Inv, NEW t \in Thread, LocateNode(t)
    PROVE  Inv'
  <1> USE DEF LocateNode, cacheVars, lockVars, osVars
  <1>1. TypeOK'
    BY DEF Inv, IInv, TypeOK, Stage
  <1>2. LocksHeld'
    BY NullAssumption DEF Inv, IInv, TypeOK, LocksHeld, HoldsMutex, HoldsSpin
  <1>3. BusyListEmpty'
    BY DEF Inv, IInv, TypeOK, BusyListEmpty
  <1>4. InFlight'
    BY NullAssumption DEF Inv, IInv, TypeOK, InFlight, LocksHeld, HoldsMutex
  <1>5. SpansRecorded'
    BY DEF Inv, IInv, TypeOK, SpansRecorded
  <1>6. Chained'
    BY DEF Inv, IInv, TypeOK, Chained
  <1>7. LiveBlocks' /\ FreeLinks' /\ Heads' /\ Measured'
    BY HeapFrame
  <1> QED
    BY <1>1, <1>2, <1>3, <1>4, <1>5, <1>6, <1>7 DEF Inv, IInv

\* A fresh span holds no live block, no free block and no chain: zeroing it
\* touches nothing anybody uses.
LEMMA SystemAllocInv ==
    ASSUME Inv, NEW t \in Thread, NEW s \in Span, SystemAlloc(t, s)
    PROVE  Inv'
  <1> USE DEF SystemAlloc, cacheVars, lockVars, osVars
  <1>0. /\ spanMap[s] = NULL
        /\ s \notin Claimed
        /\ s # NULL
        /\ start[t] = NULL
    <2>1. spanMap[s] = NULL
      BY DEF Inv, IInv, SpansRecorded
    <2>2. s \notin Claimed
      BY DEF Inv, IInv, InFlight, Claimed
    <2>3. s # NULL
      BY NullAssumption
    <2>4. start[t] = NULL
      BY DEF Inv, IInv, InFlight
    <2> QED
      BY <2>1, <2>2, <2>3, <2>4
  <1>1. TypeOK'
    BY DEF Inv, IInv, TypeOK, Stage
  <1>2. LocksHeld'
    BY DEF Inv, IInv, TypeOK, LocksHeld, HoldsMutex, HoldsSpin
  <1>3. BusyListEmpty'
    BY DEF Inv, IInv, TypeOK, BusyListEmpty
  <1>4. InFlight'
    <2>1. \A u \in Thread : start'[u] = IF u = t THEN s ELSE start[u]
      BY DEF Inv, IInv, TypeOK
    <2>2. \A u \in Thread : pc'[u] = IF u = t THEN "locate" ELSE pc[u]
      BY DEF Inv, IInv, TypeOK
    <2> QED
      BY <1>0, <2>1, <2>2 DEF Inv, IInv, InFlight, Claimed
  <1>5. SpansRecorded'
    BY DEF Inv, IInv, TypeOK, SpansRecorded
  <1>6. Claimed' = Claimed \cup {s}
    BY <1>0 DEF Inv, IInv, TypeOK, Claimed
  <1>7. \A b \in Block : b[1] # s => word'[b] = word[b]
    OBVIOUS
  <1>8. \A i \in Index : FreeBlocks(i)' = FreeBlocks(i)
    BY <1>0, <1>6, NullAssumption DEF FreeBlocks
  <1>9. \A i \in Index : \A b \in FreeBlocks(i) : word'[b] = word[b]
    BY <1>0, <1>7, NullAssumption DEF FreeBlocks
  <1>u. freeList' = freeList /\ freeListSize' = freeListSize
    OBVIOUS
  <1> HIDE DEF SystemAlloc
  <1>10. FreeLinks' /\ Heads'
    BY <1>8, <1>9, <1>u DEF Inv, IInv, FreeLinks, Heads
  <1>11. Measured'
    <2>1. PICK d \in [Block -> Nat \ {0}] : Measures(d)
      BY DEF Inv, Measured
    <2>2. Measures(d)'
      BY <1>8, <1>9, <1>u, <2>1 DEF Measures
    <2> QED
      BY <2>2 DEF Measured
  <1> USE DEF SystemAlloc
  <1>12. LiveBlocks'
    BY <1>0, <1>6, <1>7, NullAssumption DEF Inv, IInv, TypeOK, LiveBlocks
  <1>13. Chained'
    <2> SUFFICES ASSUME NEW u \in Thread, pc'[u] = "install", Batch[idx'[u]] > 1,
                        NEW b \in BlocksOf(start'[u], idx'[u])
                 PROVE  word'[b] = IF b[2] < Batch[idx'[u]] THEN <<b[1], b[2] + 1>> ELSE NULL
      BY DEF Chained
    <2>1. u # t /\ pc[u] = "install" /\ start'[u] = start[u] /\ idx'[u] = idx[u]
      BY DEF Inv, IInv, TypeOK
    <2>2. start[u] \in Span /\ start[u] # s /\ idx[u] \in Index
      BY <2>1 DEF Inv, IInv, TypeOK, InFlight
    <2>3. b \in Block /\ b[1] = start[u]
      BY <2>1, <2>2, BlockFacts
    <2> QED
      BY <1>7, <2>1, <2>2, <2>3 DEF Inv, IInv, Chained
  <1> QED
    BY <1>1, <1>2, <1>3, <1>4, <1>5, <1>10, <1>11, <1>12, <1>13 DEF Inv, IInv

\* The tree is still the current one, so the map gains a node and loses none.
LEMMA InsertNodeInv ==
    ASSUME Inv, NEW t \in Thread, InsertNode(t)
    PROVE  Inv'
  <1> USE DEF InsertNode, cacheVars, lockVars, osVars
  <1> DEFINE s == start[t]
  <1>0. /\ s \in Span /\ s # NULL /\ s \in Claimed /\ s \in mapped
        /\ spanMap[s] = NULL
        /\ tree[t] = spanMap
        /\ mutex = t
        /\ idx[t] \in Index
    BY NullAssumption DEF Inv, IInv, TypeOK, InFlight, Claimed, LocksHeld, HoldsMutex
  <1>a. spanMap' = [spanMap EXCEPT ![s] = idx[t]]
    BY <1>0
  <1>b. \A u \in Thread : pc'[u] = IF u = t THEN "carve" ELSE pc[u]
    BY DEF Inv, IInv, TypeOK
  <1>c. \A u \in Thread : u # t => pc[u] \notin {"locate", "insert", "system"}
    BY <1>0 DEF Inv, IInv, LocksHeld, HoldsMutex
  <1>d. \A r \in Span : r # s => spanMap'[r] = spanMap[r]
    BY <1>0, <1>a DEF Inv, IInv, TypeOK
  <1>e. spanMap'[s] = idx[t]
    BY <1>0, <1>a DEF Inv, IInv, TypeOK
  <1>1. TypeOK'
    BY <1>0, <1>a DEF Inv, IInv, TypeOK, Stage, NoSpans
  <1>2. LocksHeld'
    BY <1>b, <1>c, NullAssumption DEF Inv, IInv, LocksHeld, HoldsMutex, HoldsSpin
  <1>3. BusyListEmpty'
    BY <1>b DEF Inv, IInv, BusyListEmpty
  <1>4. InFlight'
    <2>1. \A u \in Thread : u # t /\ start[u] # NULL => start[u] # s /\ start[u] \in Span
      BY <1>0 DEF Inv, IInv, TypeOK, InFlight
    <2> QED
      BY <1>0, <1>b, <1>c, <1>d, <1>e, <2>1 DEF Inv, IInv, InFlight
  <1>5. SpansRecorded'
    <2>1. \A r \in mapped : r # s =>
             \/ spanMap[r] # NULL
             \/ \E u \in Thread : u # t /\ start[u] = r /\ pc[u] \in {"locate", "insert"}
      BY DEF Inv, IInv, SpansRecorded
    <2>2. mapped \subseteq Span
      BY DEF Inv, IInv, TypeOK
    <2> QED
      BY <1>0, <1>b, <1>c, <1>d, <1>e, <2>1, <2>2, NullAssumption
      DEF Inv, IInv, SpansRecorded
  <1>6. Claimed' = Claimed
    BY DEF Claimed
  <1>7. \A i \in Index : FreeBlocks(i)' = FreeBlocks(i)
    BY <1>0, <1>d, <1>6, BlockSpan DEF FreeBlocks
  <1>8. FreeLinks' /\ Heads'
    BY <1>7 DEF Inv, IInv, FreeLinks, Heads
  <1>9. Measured'
    BY <1>7 DEF Inv, Measured, Measures
  <1>10. LiveBlocks'
    BY <1>0, <1>d, <1>6 DEF Inv, IInv, LiveBlocks
  <1>11. Chained'
    <2> SUFFICES ASSUME NEW u \in Thread, pc'[u] = "install", Batch[idx'[u]] > 1,
                        NEW b \in BlocksOf(start'[u], idx'[u])
                 PROVE  word'[b] = IF b[2] < Batch[idx'[u]] THEN <<b[1], b[2] + 1>> ELSE NULL
      BY DEF Chained
    <2>1. pc[u] = "install" /\ word' = word /\ start' = start /\ idx' = idx
      BY <1>b
    <2> QED
      BY <2>1 DEF Inv, IInv, Chained
  <1> QED
    BY <1>1, <1>2, <1>3, <1>4, <1>5, <1>8, <1>9, <1>10, <1>11 DEF Inv, IInv

\* Linking the blocks of the span touches nobody else's: the span is claimed.
LEMMA CarveInv ==
    ASSUME Inv, NEW t \in Thread, Carve(t)
    PROVE  Inv'
  <1> USE DEF Carve, cacheVars, lockVars, osVars
  <1> DEFINE s == start[t]
  <1>0. /\ s \in Span /\ s # NULL /\ s \in Claimed
        /\ idx[t] \in Index
        /\ locks[idx[t]] = t
    BY DEF Inv, IInv, TypeOK, InFlight, Claimed, LocksHeld, HoldsSpin
  <1>a. \A u \in Thread : pc'[u] = IF u = t THEN "install" ELSE pc[u]
    BY DEF Inv, IInv, TypeOK
  <1>b. \A b \in Block : b[1] # s => word'[b] = word[b]
    BY <1>0, BlockFacts
  <1>c. Batch[idx[t]] > 1 =>
          \A b \in BlocksOf(s, idx[t]) :
             word'[b] = IF b[2] < Batch[idx[t]] THEN <<b[1], b[2] + 1>> ELSE NULL
    BY <1>0, BlockFacts
  <1>1. TypeOK'
    <2>1. word' \in [Block -> Block \cup {NULL, Payload}]
      <3>1. Batch[idx[t]] \in Nat
        BY <1>0, BatchAssumption
      <3>2. ASSUME NEW b \in BlocksOf(s, idx[t]), b[2] < Batch[idx[t]]
            PROVE  <<s, b[2] + 1>> \in Block
        <4>1. b[2] \in 1..Batch[idx[t]]
          BY <1>0, BlockFacts
        <4>2. b[2] + 1 \in 1..Batch[idx[t]]
          BY <3>1, <3>2, <4>1
        <4> QED
          BY <1>0, <4>2, BlockFacts
      <3> QED
        BY <3>2 DEF Inv, IInv, TypeOK
    <2> QED
      BY <2>1 DEF Inv, IInv, TypeOK, Stage
  <1>2. LocksHeld'
    BY <1>0, <1>a DEF Inv, IInv, TypeOK, LocksHeld, HoldsMutex, HoldsSpin
  <1>3. BusyListEmpty'
    BY <1>a DEF Inv, IInv, BusyListEmpty
  <1>4. InFlight'
    BY <1>a DEF Inv, IInv, InFlight
  <1>5. SpansRecorded'
    BY <1>a DEF Inv, IInv, SpansRecorded
  <1>6. Claimed' = Claimed
    BY DEF Claimed
  <1>7. \A i \in Index : FreeBlocks(i)' = FreeBlocks(i)
    BY <1>6 DEF FreeBlocks
  <1>8. \A i \in Index : \A b \in FreeBlocks(i) : word'[b] = word[b]
    BY <1>0, <1>b DEF FreeBlocks
  <1>u. freeList' = freeList /\ freeListSize' = freeListSize
    OBVIOUS
  <1> HIDE DEF Carve
  <1>9. FreeLinks' /\ Heads'
    BY <1>7, <1>8, <1>u DEF Inv, IInv, FreeLinks, Heads
  <1>10. Measured'
    <2>1. PICK d \in [Block -> Nat \ {0}] : Measures(d)
      BY DEF Inv, Measured
    <2>2. Measures(d)'
      BY <1>7, <1>8, <1>u, <2>1 DEF Measures
    <2> QED
      BY <2>2 DEF Measured
  <1> USE DEF Carve
  <1>11. LiveBlocks'
    BY <1>0, <1>b, <1>6, LiveFacts DEF Inv, IInv, LiveBlocks
  <1>12. Chained'
    <2> SUFFICES ASSUME NEW u \in Thread, pc'[u] = "install", Batch[idx'[u]] > 1,
                        NEW b \in BlocksOf(start'[u], idx'[u])
                 PROVE  word'[b] = IF b[2] < Batch[idx'[u]] THEN <<b[1], b[2] + 1>> ELSE NULL
      BY DEF Chained
    <2>1. CASE u = t
      BY <1>c, <2>1
    <2>2. CASE u # t
      <3>1. pc[u] = "install" /\ start[u] \in Span /\ start[u] # s /\ idx[u] \in Index
        BY <1>0, <1>a, <2>2 DEF Inv, IInv, TypeOK, InFlight
      <3>2. b \in Block /\ b[1] = start[u]
        BY <3>1, BlockFacts
      <3> QED
        BY <1>b, <3>1, <3>2 DEF Inv, IInv, Chained
    <2> QED
      BY <2>1, <2>2
  <1> QED
    BY <1>1, <1>2, <1>3, <1>4, <1>5, <1>9, <1>10, <1>11, <1>12 DEF Inv, IInv

\* The rest of the chain becomes the list, which was empty; the first block is
\* in no list.
LEMMA InstallInv ==
    ASSUME Inv, NEW t \in Thread, Install(t)
    PROVE  Inv'
  <1>a. PICK s \in Span, i \in Index, n \in Nat \ {0}, first \in Block, rest \in SUBSET Block :
          /\ s = start[t] /\ i = idx[t] /\ n = Batch[i]
          /\ first = <<s, 1>> /\ first \in BlocksOf(s, i)
          /\ rest = BlocksOf(s, i) \ {first}
    <2>1. start[t] \in Span /\ idx[t] \in Index
      BY DEF Install, Inv, IInv, TypeOK, InFlight
    <2>2. Batch[idx[t]] \in Nat \ {0}
      BY <2>1, BatchAssumption
    <2>3. BlocksOf(start[t], idx[t]) \subseteq Block
      BY <2>1, BlockFacts
    <2>4. <<start[t], 1>> \in BlocksOf(start[t], idx[t])
      BY <2>1, <2>2, BlockFacts
    <2> QED
      BY <2>1, <2>2, <2>3, <2>4
  <1>0. /\ s # NULL /\ s \in Claimed /\ s \in mapped
        /\ spanMap[s] = i
        /\ freeList[t][i] = NULL
        /\ pc[t] = "install"
    BY <1>a DEF Install, Inv, IInv, TypeOK, InFlight, Claimed, BusyListEmpty
  <1>1. /\ live' = [live EXCEPT ![i] = @ \cup {first}]
        /\ word' = [word EXCEPT ![first] = Payload]
        /\ pc' = [pc EXCEPT ![t] = "idle"]
        /\ start' = [start EXCEPT ![t] = NULL]
        /\ idx' = [idx EXCEPT ![t] = 0]
        /\ UNCHANGED <<locks, mutex, mapped, spanMap, tree, exits>>
        /\ n > 1 => /\ freeList' = [freeList EXCEPT ![t][i] = word[first]]
                     /\ freeListSize' = [freeListSize EXCEPT ![t][i] = @ + (n - 1)]
        /\ n = 1 => freeList' = freeList /\ freeListSize' = freeListSize
    BY <1>a DEF Install, HandOut, lockVars, osVars, cacheVars
  <1>b. n \in Nat /\ (n = 1 \/ n > 1)
    BY <1>a
  <1>c. \A b \in BlocksOf(s, i) : b \in Block /\ b[1] = s /\ b[2] \in 1..n /\ b = <<s, b[2]>>
    BY <1>a, BlockFacts
  <1>d. ASSUME n > 1, NEW b \in BlocksOf(s, i)
        PROVE  word[b] = IF b[2] < n THEN <<b[1], b[2] + 1>> ELSE NULL
    BY <1>0, <1>a, <1>d DEF Inv, IInv, Chained
  <1>e. Claimed' = Claimed \ {s}
    <2>1. \A u \in Thread : start'[u] = IF u = t THEN NULL ELSE start[u]
      BY <1>1 DEF Inv, IInv, TypeOK
    <2>2. \A u \in Thread : u # t => start[u] # s
      BY <1>0, <1>a DEF Inv, IInv, InFlight
    <2> QED
      BY <1>0, <1>a, <2>1, <2>2 DEF Claimed
  <1>f. \A b \in Block : b # first => word'[b] = word[b]
    BY <1>1 DEF Inv, IInv, TypeOK
  \* The rest of the span: slots 2 to n, each linked to the next.
  <1>g. ASSUME NEW b \in rest
        PROVE  /\ b \in Block /\ b[1] = s /\ b[2] \in 2..n /\ b = <<s, b[2]>>
               /\ b # first /\ n > 1
               /\ word'[b] = IF b[2] < n THEN <<s, b[2] + 1>> ELSE NULL
               /\ b[2] < n => <<s, b[2] + 1>> \in rest
               /\ \A j \in Index : b \notin FreeBlocks(j)
    <2>1. b \in BlocksOf(s, i) /\ b # first
      BY <1>a
    <2>2. b \in Block /\ b[1] = s /\ b[2] \in 1..n /\ b = <<s, b[2]>>
      BY <2>1, <1>c
    <2>3. b[2] # 1
      BY <2>1, <2>2, <1>a
    <2>4. b[2] \in 2..n /\ n > 1
      BY <1>0, <2>2, <2>3
    <2>5. word[b] = IF b[2] < n THEN <<s, b[2] + 1>> ELSE NULL
      BY <2>1, <2>2, <2>4, <1>d
    <2>6. b[2] < n => <<s, b[2] + 1>> \in rest
      <3>1. b[2] < n => b[2] + 1 \in 1..n
        BY <1>0, <2>4
      <3>2. b[2] < n => <<s, b[2] + 1>> \in BlocksOf(s, i)
        BY <3>1, <1>a, BlockFacts
      <3>3. b[2] + 1 # 1
        BY <2>4
      <3> QED
        BY <3>2, <3>3, <1>a
    <2>7. \A j \in Index : b \notin FreeBlocks(j)
      BY <1>0, <2>2 DEF FreeBlocks
    <2> QED
      BY <2>1, <2>2, <2>4, <2>5, <2>6, <2>7, <1>f
  <1>s. \A b \in rest : b[2] \in Nat /\ 2 <= b[2] /\ b[2] <= n
    <2> SUFFICES ASSUME NEW b \in rest PROVE b[2] \in Nat /\ 2 <= b[2] /\ b[2] <= n
      OBVIOUS
    <2>1. b[2] \in 2..n
      BY <1>g
    <2> QED
      BY <2>1
  <1>h. first \notin rest /\ \A j \in Index : first \notin FreeBlocks(j) /\ first \notin live[j]
    <2>1. first[1] = s
      BY <1>a
    <2> QED
      BY <1>a, <1>0, <2>1 DEF FreeBlocks, Inv, IInv, LiveBlocks
  <1>i. PICK d \in [Block -> Nat \ {0}] : Measures(d)
    BY DEF Inv, Measured
  <1>j. n > 1 => <<s, 2>> \in rest
    <2>1. n > 1 => <<s, 2>> \in BlocksOf(s, i)
      BY <1>a, BlockFacts
    <2> QED
      BY <2>1, <1>a
  <1>k. n > 1 => word[first] = <<s, 2>>
    <2>1. n > 1 => word[first] = IF first[2] < n THEN <<first[1], first[2] + 1>> ELSE NULL
      BY <1>a, <1>d
    <2>2. first[1] = s /\ first[2] = 1
      BY <1>a
    <2> QED
      BY <2>1, <2>2
  <1>o. PICK second \in Block \cup {NULL} :
          /\ second = IF n > 1 THEN <<s, 2>> ELSE NULL
          /\ n > 1 => freeList' = [freeList EXCEPT ![t][i] = second]
    BY <1>1, <1>g, <1>j, <1>k
  <1>l. \A u \in Thread, j \in Index :
          /\ freeList'[u][j] = IF u = t /\ j = i THEN second ELSE freeList[u][j]
          /\ freeListSize'[u][j] = IF u = t /\ j = i THEN n - 1 ELSE freeListSize[u][j]
    <2>1. freeListSize[t][i] = 0
      BY <1>0, <1>i DEF Measures
    <2>2. CASE n > 1
      <3>1. freeList' = [freeList EXCEPT ![t][i] = second] /\ second \in Block \cup {NULL}
        BY <1>o, <2>2
      <3>2. freeListSize' = [freeListSize EXCEPT ![t][i] = @ + (n - 1)]
        BY <1>1, <2>2
      <3>3. \A u \in Thread, j \in Index :
              freeListSize'[u][j] = IF u = t /\ j = i THEN n - 1 ELSE freeListSize[u][j]
        BY <2>1, <3>2, <1>b DEF Inv, IInv, TypeOK
      <3> QED
        BY <3>1, <3>3, HeadUpdate DEF Inv, IInv, TypeOK
    <2>3. CASE n = 1
      <3>1. second = NULL
        BY <1>o, <2>3
      <3> QED
        BY <1>0, <1>1, <2>1, <2>3, <3>1
    <2> QED
      BY <1>b, <2>2, <2>3
  <1>m. /\ FreeBlocks(i)' = FreeBlocks(i) \cup rest
        /\ \A j \in Index \ {i} : FreeBlocks(j)' = FreeBlocks(j)
    <2>1. \A j \in Index : live'[j] = IF j = i THEN live[i] \cup {first} ELSE live[j]
      BY <1>1 DEF Inv, IInv, TypeOK
    <2>2. \A j \in Index : \A b \in live[j] : b[1] # s
      BY <1>0 DEF Inv, IInv, LiveBlocks
    <2>3. \A j \in Index : \A b \in Block : b[1] # s =>
            (b \in FreeBlocks(j)' <=> b \in FreeBlocks(j))
      <3>1. \A b \in Block : b[1] # s => b # first
        BY <1>a
      <3> QED
        BY <1>1, <1>e, <2>1, <3>1 DEF FreeBlocks
    <2>4. \A j \in Index : \A b \in Block : b[1] = s => b \notin FreeBlocks(j)
      BY <1>0 DEF FreeBlocks
    <2>5. \A b \in Block : b[1] = s => (b \in FreeBlocks(i)' <=> b \in rest)
      BY <1>0, <1>1, <1>a, <1>e, <2>1, <2>2 DEF FreeBlocks
    <2>6. \A j \in Index \ {i} : \A b \in Block : b[1] = s => b \notin FreeBlocks(j)'
      BY <1>0, <1>1 DEF FreeBlocks
    <2>7. \A b \in rest : b \in Block /\ b[1] = s
      BY <1>g
    <2>8. \A j \in Index : FreeBlocks(j) \subseteq Block /\ FreeBlocks(j)' \subseteq Block
      BY DEF FreeBlocks
    <2> QED
      BY <2>3, <2>4, <2>5, <2>6, <2>7, <2>8
  <1>n. \A j \in Index : \A b \in FreeBlocks(j) : b \in Block /\ word'[b] = word[b]
    BY <1>f, <1>h DEF FreeBlocks
  <1>2. TypeOK'
    <2>1. freeList' \in [Thread -> [Index -> Block \cup {NULL}]]
      <3>3. CASE n > 1
        <4>1. freeList' = [freeList EXCEPT ![t][i] = second] /\ second \in Block \cup {NULL}
          BY <1>o, <3>3
        <4>2. freeList \in [Thread -> [Index -> Block \cup {NULL}]]
          BY DEF Inv, IInv, TypeOK
        <4> QED
          BY <4>1, <4>2, HeadUpdate
      <3>4. CASE n = 1
        BY <1>1, <3>4 DEF Inv, IInv, TypeOK
      <3> QED
        BY <1>b, <3>3, <3>4
    <2>2. freeListSize' \in [Thread -> [Index -> Nat]]
      <3>1. CASE n > 1
        <4>1. freeListSize[t][i] + (n - 1) \in Nat
          BY DEF Inv, IInv, TypeOK
        <4>2. freeListSize' = [freeListSize EXCEPT ![t][i] = @ + (n - 1)]
          BY <1>1, <3>1
        <4> QED
          BY <4>1, <4>2 DEF Inv, IInv, TypeOK
      <3>2. CASE n = 1
        BY <1>1, <3>2 DEF Inv, IInv, TypeOK
      <3> QED
        BY <1>a, <3>1, <3>2
    <2>3. 0 \in Index
      BY DEF Index
    <2> QED
      BY <1>1, <2>1, <2>2, <2>3 DEF Inv, IInv, TypeOK, Stage
  <1>3. FreeLinks'
    <2>1. ASSUME NEW j \in Index, NEW b \in FreeBlocks(j)'
          PROVE  word'[b] \in FreeBlocks(j)' \cup {NULL}
      <3>1. CASE b \in FreeBlocks(j)
        BY <3>1, <1>m, <1>n DEF Inv, IInv, FreeLinks
      <3>2. CASE j = i /\ b \in rest
        BY <3>2, <1>g, <1>m
      <3> QED
        BY <3>1, <3>2, <1>m
    <2>2. ASSUME NEW j \in Index, NEW b \in FreeBlocks(j)', NEW c \in FreeBlocks(j)',
                 word'[b] = word'[c], word'[b] # NULL
          PROVE  b = c
      <3>1. CASE b \in FreeBlocks(j) /\ c \in FreeBlocks(j)
        BY <2>2, <3>1, <1>n DEF Inv, IInv, FreeLinks
      <3>2. CASE j = i /\ b \in rest /\ c \in rest
        <4>1. word'[b] = <<s, b[2] + 1>> /\ word'[c] = <<s, c[2] + 1>>
          BY <2>2, <3>2, <1>g
        <4>2. b[2] + 1 = c[2] + 1
          <5>1. <<s, b[2] + 1>>[2] = <<s, c[2] + 1>>[2]
            BY <2>2, <4>1
          <5> QED
            BY <5>1
        <4>3. b[2] = c[2]
          BY <3>2, <4>2, <1>s
        <4> QED
          BY <3>2, <4>3, <1>g
      <3>3. ASSUME NEW x \in FreeBlocks(i), NEW y \in rest
            PROVE  word'[x] # word'[y] \/ word'[x] = NULL
        <4>1. word'[x] \in FreeBlocks(i) \cup {NULL}
          BY <1>0, <1>n DEF Inv, IInv, FreeLinks
        <4>2. word'[y] \in rest \cup {NULL}
          BY <1>g
        <4> QED
          BY <4>1, <4>2, <1>g, <1>0
      <3> QED
        BY <2>2, <3>1, <3>2, <3>3, <1>m
    <2> QED
      BY <2>1, <2>2 DEF FreeLinks
  <1>4. Heads'
    <2> SUFFICES ASSUME NEW u \in Thread, NEW j \in Index, freeList'[u][j] # NULL
                 PROVE  /\ freeList'[u][j] \in FreeBlocks(j)'
                        /\ \A v \in Thread : freeList'[v][j] = freeList'[u][j] => v = u
                        /\ \A b \in FreeBlocks(j)' : word'[b] # freeList'[u][j]
      BY DEF Heads
    <2>1. CASE u = t /\ j = i
      <3>1. n > 1 /\ freeList'[u][j] = <<s, 2>> /\ <<s, 2>> \in rest
        BY <2>1, <1>j, <1>l, <1>o
      <3>2. \A v \in Thread : v # t => freeList'[v][i] \in FreeBlocks(i) \cup {NULL}
        BY <1>0, <1>l DEF Inv, IInv, Heads
      <3>3. \A b \in FreeBlocks(i) : word'[b] \in FreeBlocks(i) \cup {NULL}
        BY <1>0, <1>n DEF Inv, IInv, FreeLinks
      <3>4. <<s, 2>> \notin FreeBlocks(i) \cup {NULL}
        BY <3>1, <1>0, <1>g, NullAssumption
      <3>5. ASSUME NEW b \in rest PROVE word'[b] # <<s, 2>>
        <4>1. b[2] >= 2 /\ b[2] \in Nat
          BY <1>s
        <4>2. b[2] < n => <<s, b[2] + 1>> # <<s, 2>>
          BY <4>1
        <4> QED
          BY <1>g, <3>4, <4>2
      <3> QED
        BY <2>1, <3>1, <3>2, <3>3, <3>4, <3>5, <1>m
    <2>2. CASE ~(u = t /\ j = i)
      <3>1. /\ freeList'[u][j] = freeList[u][j]
            /\ freeList[u][j] \in FreeBlocks(j)
        BY <2>2, <1>l DEF Inv, IInv, Heads
      <3>2. \A b \in rest : word'[b] \in rest \cup {NULL}
        BY <1>g
      <3>3. freeList[u][j] \notin rest /\ freeList[u][j] # <<s, 2>>
        <4>1. freeList[u][j] \notin rest
          BY <3>1, <1>g
        <4>2. freeList[u][j] \in Block /\ freeList[u][j][1] # s
          BY <3>1, <1>0 DEF FreeBlocks
        <4> QED
          BY <4>1, <4>2
      <3>4. \A v \in Thread : freeList'[v][j] = freeList'[u][j] => v = u
        BY <2>2, <3>1, <3>3, <1>l, <1>o DEF Inv, IInv, Heads
      <3>5. \A b \in FreeBlocks(j)' : word'[b] # freeList'[u][j]
        <4>1. \A b \in FreeBlocks(j) : word'[b] # freeList[u][j]
          BY <2>2, <3>1, <1>l, <1>n DEF Inv, IInv, Heads
        <4>2. freeList[u][j] # NULL
          BY <2>2, <3>1
        <4>3. \A b \in rest : word'[b] # freeList[u][j]
          BY <3>2, <3>3, <4>2
        <4> QED
          BY <3>1, <4>1, <4>3, <1>m
      <3> QED
        BY <3>1, <3>4, <3>5, <1>m
    <2> QED
      BY <2>1, <2>2
  <1>5. Measured'
    <2> DEFINE e == [b \in Block |-> IF b \in rest THEN (n - b[2]) + 1 ELSE d[b]]
    <2>1. e \in [Block -> Nat \ {0}]
      <3>1. \A b \in rest : (n - b[2]) + 1 \in Nat \ {0}
        <4>1. ASSUME NEW b \in rest PROVE (n - b[2]) + 1 \in Nat \ {0}
          <5>1. b[2] \in 2..n
            BY <1>g
          <5> QED
            BY <5>1
        <4> QED
          BY <4>1
      <3> QED
        BY <3>1
    <2>2. ASSUME NEW j \in Index, NEW b \in FreeBlocks(j)'
          PROVE  e[b] = IF word'[b] = NULL THEN 1 ELSE e[word'[b]] + 1
      <3>1. CASE b \in FreeBlocks(j)
        <4>1. b \notin rest /\ b \in Block /\ word'[b] = word[b]
          BY <3>1, <1>g, <1>n
        <4>2. word[b] # NULL => word[b] \in Block /\ word[b] \notin rest
          BY <3>1, <1>g DEF Inv, IInv, FreeLinks, FreeBlocks
        <4> QED
          BY <3>1, <4>1, <4>2, <1>i DEF Measures
      <3>2. CASE j = i /\ b \in rest
        <4>0. e[b] = (n - b[2]) + 1
          BY <3>2, <1>g
        <4>1. CASE b[2] < n
          <5>1. PICK c \in rest : c = <<s, b[2] + 1>> /\ word'[b] = c
            BY <3>2, <4>1, <1>g
          <5>2. c[2] = b[2] + 1
            BY <5>1
          <5>3. e[c] = (n - c[2]) + 1 /\ c # NULL
            BY <1>g, NullAssumption
          <5>4. e[b] = e[c] + 1
            BY <3>2, <4>0, <5>2, <5>3, <1>s
          <5> QED
            BY <5>1, <5>3, <5>4
        <4>2. CASE ~(b[2] < n)
          <5>1. b[2] = n
            BY <3>2, <4>2, <1>a, <1>s
          <5>2. word'[b] = NULL
            BY <3>2, <4>2, <1>g
          <5> QED
            BY <4>0, <5>1, <5>2, <1>a
        <4> QED
          BY <4>1, <4>2
      <3> QED
        BY <3>1, <3>2, <1>m
    <2>3. ASSUME NEW u \in Thread, NEW j \in Index
          PROVE  freeListSize'[u][j] = IF freeList'[u][j] = NULL THEN 0 ELSE e[freeList'[u][j]]
      <3>1. CASE u = t /\ j = i
        <4>1. CASE n > 1
          <5>1. <<s, 2>> \in Block /\ <<s, 2>> # NULL /\ e[<<s, 2>>] = (n - 2) + 1
            BY <4>1, <1>g, <1>j, NullAssumption
          <5> QED
            BY <3>1, <4>1, <5>1, <1>b, <1>l, <1>o
        <4>2. CASE n = 1
          BY <3>1, <4>2, <1>l, <1>o
        <4> QED
          BY <4>1, <4>2, <1>b
      <3>2. CASE ~(u = t /\ j = i)
        <4>1. freeList[u][j] # NULL => freeList[u][j] \in Block /\ freeList[u][j] \notin rest
          BY <1>g DEF Inv, IInv, Heads, FreeBlocks
        <4> QED
          BY <3>2, <4>1, <1>i, <1>l DEF Measures
      <3> QED
        BY <3>1, <3>2
    <2>4. Measures(e)'
      BY <2>2, <2>3 DEF Measures
    <2> QED
      BY <2>1, <2>4 DEF Measured
  <1>6. LiveBlocks'
    <2>1. \A j \in Index : live'[j] = IF j = i THEN live[i] \cup {first} ELSE live[j]
      BY <1>0, <1>1 DEF Inv, IInv, TypeOK
    <2>2. word'[first] = Payload /\ first[1] = s
      BY <1>a, <1>1 DEF Inv, IInv, TypeOK
    <2>3. spanMap' = spanMap
      BY <1>1
    <2> QED
      BY <1>0, <1>a, <1>e, <1>f, <1>h, <2>1, <2>2, <2>3, LiveFacts DEF Inv, IInv, LiveBlocks
  <1>7. Chained'
    <2> SUFFICES ASSUME NEW u \in Thread, pc'[u] = "install", Batch[idx'[u]] > 1,
                        NEW b \in BlocksOf(start'[u], idx'[u])
                 PROVE  word'[b] = IF b[2] < Batch[idx'[u]] THEN <<b[1], b[2] + 1>> ELSE NULL
      BY DEF Chained
    <2>1. u # t /\ pc[u] = "install" /\ start'[u] = start[u] /\ idx'[u] = idx[u]
      BY <1>1 DEF Inv, IInv, TypeOK
    <2>2. start[u] \in Span /\ start[u] # s /\ idx[u] \in Index
      BY <1>0, <1>a, <2>1 DEF Inv, IInv, TypeOK, InFlight
    <2>3. b \in Block /\ b[1] = start[u]
      BY <2>1, <2>2, BlockFacts
    <2>4. b # first
      <3>1. first[1] = s
        BY <1>a
      <3> QED
        BY <2>2, <2>3, <3>1
    <2> QED
      BY <1>f, <2>1, <2>3, <2>4 DEF Inv, IInv, Chained
  <1>8. LocksHeld'
    BY <1>0, <1>1 DEF Inv, IInv, TypeOK, LocksHeld, HoldsMutex, HoldsSpin
  <1>9. BusyListEmpty'
    <2>1. \A u \in Thread : u # t => pc'[u] = pc[u] /\ idx'[u] = idx[u]
      BY <1>1 DEF Inv, IInv, TypeOK
    <2>2. pc'[t] = "idle"
      BY <1>1 DEF Inv, IInv, TypeOK
    <2>3. \A u \in Thread : u # t => freeList'[u][idx[u]] = freeList[u][idx[u]]
      BY <1>l DEF Inv, IInv, TypeOK
    <2> QED
      BY <2>1, <2>2, <2>3 DEF Inv, IInv, BusyListEmpty
  <1>10. InFlight'
    <2>1. \A u \in Thread : u # t => pc'[u] = pc[u] /\ idx'[u] = idx[u] /\ start'[u] = start[u]
      BY <1>1 DEF Inv, IInv, TypeOK
    <2>2. pc'[t] = "idle" /\ start'[t] = NULL
      BY <1>1 DEF Inv, IInv, TypeOK
    <2> QED
      BY <1>1, <2>1, <2>2 DEF Inv, IInv, InFlight
  <1>11. SpansRecorded'
    <2>1. \A u \in Thread : u # t => pc'[u] = pc[u] /\ start'[u] = start[u]
      BY <1>1 DEF Inv, IInv, TypeOK
    <2>2. \A r \in mapped : spanMap[r] = NULL => r # s
      BY <1>0, NullAssumption
    <2> QED
      BY <1>0, <1>1, <2>1, <2>2 DEF Inv, IInv, SpansRecorded
  <1> QED
    BY <1>2, <1>3, <1>4, <1>5, <1>6, <1>7, <1>8, <1>9, <1>10, <1>11 DEF Inv, IInv

\* The block was live, so it is in no list, and it comes first in one.
LEMMA DeallocateInv ==
    ASSUME Inv, NEW t \in Thread, NEW i \in Index, NEW b \in live[i], Deallocate(t, i, b)
    PROVE  Inv'
  <1>a. PICK h \in Block \cup {NULL} : h = freeList[t][i]
    BY DEF Inv, IInv, TypeOK
  <1>0. /\ b \in Block /\ b # NULL
        /\ \A j \in Index : b \notin FreeBlocks(j)
        /\ \A j \in Index \ {i} : b \notin live[j]
        /\ spanMap[b[1]] = i /\ b \in BlocksOf(b[1], i) /\ b[1] \notin Claimed
        /\ h # b
    BY LiveFacts, NullAssumption, <1>a DEF Inv, IInv, LiveBlocks, Heads
  <1>1. /\ live' = [live EXCEPT ![i] = @ \ {b}]
        /\ word' = [word EXCEPT ![b] = h]
        /\ freeList' = [freeList EXCEPT ![t][i] = b]
        /\ freeListSize' = [freeListSize EXCEPT ![t][i] = @ + 1]
        /\ pc[t] = "idle"
        /\ UNCHANGED <<locks, mutex, mapped, spanMap, pc, idx, start, tree, exits>>
    BY <1>a DEF Deallocate, lockVars, osVars, callVars
  <1>b. Claimed' = Claimed
    BY <1>1 DEF Claimed
  <1>c. \A c \in Block : word'[c] = IF c = b THEN h ELSE word[c]
    BY <1>0, <1>1 DEF Inv, IInv, TypeOK
  <1>d. \A u \in Thread, j \in Index :
          freeList'[u][j] = IF u = t /\ j = i THEN b ELSE freeList[u][j]
    BY <1>0, <1>1, HeadUpdate DEF Inv, IInv, TypeOK
  <1>e. \A j \in Index : live'[j] = IF j = i THEN live[i] \ {b} ELSE live[j]
    BY <1>1 DEF Inv, IInv, TypeOK
  <1>f. /\ FreeBlocks(i)' = FreeBlocks(i) \cup {b}
        /\ \A j \in Index \ {i} : FreeBlocks(j)' = FreeBlocks(j)
    BY <1>0, <1>1, <1>b, <1>e DEF FreeBlocks
  <1>g. h # NULL => h \in FreeBlocks(i) /\ \A c \in FreeBlocks(i) : word[c] # h
    BY <1>a DEF Inv, IInv, Heads
  <1>h. \A j \in Index : \A c \in FreeBlocks(j) :
          c \in Block /\ c # b /\ word'[c] = word[c] /\ word[c] \in FreeBlocks(j) \cup {NULL}
    BY <1>0, <1>c DEF FreeBlocks, Inv, IInv, FreeLinks
  <1>i. word'[b] = h
    BY <1>0, <1>c
  <1>2. TypeOK'
    <2>1. freeList' \in [Thread -> [Index -> Block \cup {NULL}]]
      BY <1>0, <1>1, HeadUpdate DEF Inv, IInv, TypeOK
    <2>2. freeListSize' \in [Thread -> [Index -> Nat]]
      BY <1>1 DEF Inv, IInv, TypeOK
    <2> QED
      BY <1>1, <2>1, <2>2 DEF Inv, IInv, TypeOK
  <1>3. FreeLinks'
    <2>1. ASSUME NEW j \in Index, NEW c \in FreeBlocks(j)'
          PROVE  word'[c] \in FreeBlocks(j)' \cup {NULL}
      BY <1>f, <1>g, <1>h, <1>i
    <2>2. ASSUME NEW j \in Index, NEW c \in FreeBlocks(j)', NEW e \in FreeBlocks(j)',
                 word'[c] = word'[e], word'[c] # NULL
          PROVE  c = e
      <3>1. CASE c \in FreeBlocks(j) /\ e \in FreeBlocks(j)
        BY <2>2, <3>1, <1>h DEF Inv, IInv, FreeLinks
      <3>2. CASE ~(c \in FreeBlocks(j) /\ e \in FreeBlocks(j))
        BY <2>2, <3>2, <1>f, <1>g, <1>h, <1>i
      <3> QED
        BY <3>1, <3>2
    <2> QED
      BY <2>1, <2>2 DEF FreeLinks
  <1>4. Heads'
    <2> SUFFICES ASSUME NEW u \in Thread, NEW j \in Index, freeList'[u][j] # NULL
                 PROVE  /\ freeList'[u][j] \in FreeBlocks(j)'
                        /\ \A v \in Thread : freeList'[v][j] = freeList'[u][j] => v = u
                        /\ \A c \in FreeBlocks(j)' : word'[c] # freeList'[u][j]
      BY DEF Heads
    <2>0. \A v \in Thread, k \in Index : freeList[v][k] # NULL => freeList[v][k] \in FreeBlocks(k)
      BY DEF Inv, IInv, Heads
    <2>1. CASE u = t /\ j = i
      <3>1. freeList'[u][j] = b
        BY <2>1, <1>d
      <3>2. \A v \in Thread : v # t => freeList'[v][i] # b
        BY <1>0, <1>d, <2>0
      <3>3. \A c \in FreeBlocks(i)' : word'[c] # b
        BY <1>0, <1>f, <1>h, <1>i
      <3> QED
        BY <2>1, <3>1, <3>2, <3>3, <1>f
    <2>2. CASE ~(u = t /\ j = i)
      <3>1. freeList'[u][j] = freeList[u][j] /\ freeList[u][j] \in FreeBlocks(j) /\ freeList[u][j] # b
        BY <2>2, <1>0, <1>d, <2>0
      <3>2. \A v \in Thread : freeList'[v][j] = freeList[u][j] => v = u
        BY <2>2, <3>1, <1>d DEF Inv, IInv, Heads
      <3>3. \A c \in FreeBlocks(j) : word'[c] # freeList[u][j]
        BY <2>2, <3>1, <1>d, <1>h DEF Inv, IInv, Heads
      <3>4. j = i => word'[b] # freeList[u][j]
        BY <2>2, <3>1, <1>a, <1>d, <1>i DEF Inv, IInv, Heads
      <3> QED
        BY <3>1, <3>2, <3>3, <3>4, <1>f
    <2> QED
      BY <2>1, <2>2
  <1>5. Measured'
    <2>1. PICK d \in [Block -> Nat \ {0}] : Measures(d)
      BY DEF Inv, Measured
    <2>2. freeListSize[t][i] \in Nat
      BY DEF Inv, IInv, TypeOK
    <2>3. freeListSize[t][i] + 1 \in Nat \ {0}
      BY <2>2
    <2>4. PICK e \in [Block -> Nat \ {0}] : e = [d EXCEPT ![b] = freeListSize[t][i] + 1]
      BY <1>0, <2>3
    <2>5. \A c \in Block : e[c] = IF c = b THEN freeListSize[t][i] + 1 ELSE d[c]
      BY <1>0, <2>4
    <2>6. \A u \in Thread, j \in Index :
            freeListSize'[u][j] = IF u = t /\ j = i THEN freeListSize[t][i] + 1 ELSE freeListSize[u][j]
      BY <1>1, <2>2 DEF Inv, IInv, TypeOK
    <2>7. ASSUME NEW j \in Index, NEW c \in FreeBlocks(j)'
          PROVE  e[c] = IF word'[c] = NULL THEN 1 ELSE e[word'[c]] + 1
      <3>1. CASE c \in FreeBlocks(j)
        <4>1. d[c] = IF word[c] = NULL THEN 1 ELSE d[word[c]] + 1
          BY <3>1, <2>1 DEF Measures
        <4>2. word[c] # NULL => word[c] \in Block /\ word[c] # b
          BY <3>1, <1>h
        <4> QED
          BY <3>1, <4>1, <4>2, <1>h, <2>5
      <3>2. CASE j = i /\ c = b
        <4>1. freeListSize[t][i] = IF h = NULL THEN 0 ELSE d[h]
          BY <1>a, <2>1 DEF Measures
        <4>2. e[b] = freeListSize[t][i] + 1
          BY <1>0, <2>5
        <4>3. h # NULL => e[h] = d[h]
          BY <1>0, <2>5
        <4> QED
          BY <3>2, <4>1, <4>2, <4>3, <1>i
      <3> QED
        BY <3>1, <3>2, <1>f
    <2>8. ASSUME NEW u \in Thread, NEW j \in Index
          PROVE  freeListSize'[u][j] = IF freeList'[u][j] = NULL THEN 0 ELSE e[freeList'[u][j]]
      <3>1. CASE u = t /\ j = i
        BY <3>1, <1>0, <1>d, <2>5, <2>6
      <3>2. CASE ~(u = t /\ j = i)
        <4>1. freeList[u][j] # NULL => freeList[u][j] \in Block /\ freeList[u][j] # b
          BY <1>h DEF Inv, IInv, Heads
        <4>2. freeListSize[u][j] = IF freeList[u][j] = NULL THEN 0 ELSE d[freeList[u][j]]
          BY <2>1 DEF Measures
        <4> QED
          BY <3>2, <4>1, <4>2, <1>d, <2>5, <2>6
      <3> QED
        BY <3>1, <3>2
    <2>9. Measures(e)'
      BY <2>7, <2>8 DEF Measures
    <2> QED
      BY <2>9 DEF Measured
  <1>6. LiveBlocks'
    BY <1>0, <1>1, <1>b, <1>c, <1>e, LiveFacts DEF Inv, IInv, LiveBlocks
  <1>7. Chained'
    <2> SUFFICES ASSUME NEW u \in Thread, pc'[u] = "install", Batch[idx'[u]] > 1,
                        NEW c \in BlocksOf(start'[u], idx'[u])
                 PROVE  word'[c] = IF c[2] < Batch[idx'[u]] THEN <<c[1], c[2] + 1>> ELSE NULL
      BY DEF Chained
    <2>1. pc[u] = "install" /\ start'[u] = start[u] /\ idx'[u] = idx[u]
      BY <1>1
    <2>2. start[u] \in Span /\ start[u] \in Claimed /\ idx[u] \in Index
      BY <2>1, NullAssumption DEF Inv, IInv, TypeOK, InFlight, Claimed
    <2>3. c \in Block /\ c[1] = start[u]
      BY <2>1, <2>2, BlockFacts
    <2>4. c # b
      BY <1>0, <2>2, <2>3
    <2> QED
      BY <1>c, <2>1, <2>3, <2>4 DEF Inv, IInv, Chained
  <1>8. LocksHeld' /\ InFlight' /\ SpansRecorded'
    BY <1>1 DEF Inv, IInv, LocksHeld, HoldsMutex, HoldsSpin, InFlight, SpansRecorded
  <1>9. BusyListEmpty'
    BY <1>1, <1>d DEF Inv, IInv, TypeOK, BusyListEmpty
  <1> QED
    BY <1>2, <1>3, <1>4, <1>5, <1>6, <1>7, <1>8, <1>9 DEF Inv, IInv

\* Lists that nobody holds any more: their blocks stay free and linked.
LEMMA ThreadExitInv ==
    ASSUME Inv, NEW t \in Thread, ThreadExit(t)
    PROVE  Inv'
  <1>1. /\ freeList' = [freeList EXCEPT ![t] = [i \in Index |-> NULL]]
        /\ freeListSize' = [freeListSize EXCEPT ![t] = [i \in Index |-> 0]]
        /\ exits' = exits + 1
        /\ pc[t] = "idle"
        /\ UNCHANGED <<word, live, locks, mutex, mapped, spanMap, pc, idx, start, tree>>
    BY DEF ThreadExit, lockVars, osVars, callVars
  <1>2. \A u \in Thread, j \in Index :
          /\ freeList'[u][j] = IF u = t THEN NULL ELSE freeList[u][j]
          /\ freeListSize'[u][j] = IF u = t THEN 0 ELSE freeListSize[u][j]
    BY <1>1 DEF Inv, IInv, TypeOK
  <1>3. Claimed' = Claimed /\ \A j \in Index : FreeBlocks(j)' = FreeBlocks(j)
    BY <1>1 DEF Claimed, FreeBlocks
  <1>4. TypeOK'
    BY <1>1 DEF Inv, IInv, TypeOK
  <1>5. FreeLinks'
    BY <1>1, <1>3 DEF Inv, IInv, FreeLinks
  <1>6. Heads'
    BY <1>1, <1>2, <1>3 DEF Inv, IInv, Heads
  <1>7. Measured'
    <2>1. PICK d \in [Block -> Nat \ {0}] : Measures(d)
      BY DEF Inv, Measured
    <2>2. Measures(d)'
      BY <1>1, <1>2, <1>3, <2>1 DEF Measures
    <2> QED
      BY <2>2 DEF Measured
  <1>8. LiveBlocks' /\ LocksHeld' /\ InFlight' /\ SpansRecorded' /\ Chained'
    BY <1>1, <1>3
    DEF Inv, IInv, LiveBlocks, LocksHeld, HoldsMutex, HoldsSpin, InFlight, SpansRecorded, Chained
  <1>9. BusyListEmpty'
    BY <1>1, <1>2 DEF Inv, IInv, TypeOK, BusyListEmpty
  <1> QED
    BY <1>4, <1>5, <1>6, <1>7, <1>8, <1>9 DEF Inv, IInv

\* With nothing held, cached or under way, forgetting every span hurts nobody.
LEMMA ReleaseAllInv ==
    ASSUME Inv, ReleaseAll
    PROVE  Inv'
  <1>1. /\ \A i \in Index : live[i] = {}
        /\ \A t \in Thread : pc[t] \in {"idle", "null"}
        /\ \A t \in Thread, i \in Index : freeList[t][i] = NULL
        /\ mapped' = {s \in mapped : spanMap[s] = NULL}
        /\ word' = [b \in Block |-> IF spanMap[b[1]] # NULL THEN NULL ELSE word[b]]
        /\ spanMap' = [s \in Span |-> NULL]
        /\ UNCHANGED <<freeList, freeListSize, live, locks, mutex, pc, idx, start, tree, exits>>
    BY DEF ReleaseAll, Quiescent, cacheVars, lockVars, callVars, NoSpans
  <1>2. \A t \in Thread : start[t] = NULL
    BY <1>1 DEF Inv, IInv, TypeOK, InFlight
  <1>3. \A j \in Index : FreeBlocks(j)' = {}
    BY <1>1, NullAssumption, BlockSpan DEF FreeBlocks
  <1>4. TypeOK'
    BY <1>1 DEF Inv, IInv, TypeOK
  <1>5. FreeLinks' /\ Heads'
    BY <1>1, <1>3 DEF FreeLinks, Heads
  <1>6. Measured'
    <2>1. PICK d \in [Block -> Nat \ {0}] : Measures(d)
      BY DEF Inv, Measured
    <2>2. \A t \in Thread, i \in Index : freeListSize[t][i] = 0
      BY <1>1, <2>1 DEF Measures
    <2>3. Measures(d)'
      BY <1>1, <1>3, <2>2 DEF Measures
    <2> QED
      BY <2>3 DEF Measured
  <1>7. LiveBlocks'
    BY <1>1 DEF LiveBlocks
  <1>8. SpansRecorded'
    <2>1. mapped' = {}
      BY <1>1 DEF Inv, IInv, SpansRecorded
    <2> QED
      BY <1>1, <2>1 DEF SpansRecorded
  <1>9. LocksHeld' /\ BusyListEmpty' /\ Chained'
    BY <1>1 DEF Inv, IInv, LocksHeld, HoldsMutex, HoldsSpin, BusyListEmpty, Chained
  <1>10. InFlight'
    BY <1>1, <1>2 DEF Inv, IInv, InFlight
  <1> QED
    BY <1>4, <1>5, <1>6, <1>7, <1>8, <1>9, <1>10 DEF Inv, IInv

LEMMA StutterInv ==
    ASSUME Inv, UNCHANGED vars
    PROVE  Inv'
  <1> USE DEF vars, cacheVars, lockVars, osVars, callVars
  <1>1. TypeOK'
    BY DEF Inv, IInv, TypeOK
  <1>2. LocksHeld' /\ BusyListEmpty' /\ InFlight' /\ SpansRecorded' /\ Chained'
    BY DEF Inv, IInv, LocksHeld, HoldsMutex, HoldsSpin, BusyListEmpty, InFlight,
           SpansRecorded, Chained
  <1>3. LiveBlocks' /\ FreeLinks' /\ Heads' /\ Measured'
    BY HeapFrame
  <1> QED
    BY <1>1, <1>2, <1>3 DEF Inv, IInv

LEMMA StepInv == Inv /\ [Next]_vars => Inv'
  <1> SUFFICES ASSUME Inv, [Next]_vars PROVE Inv'
    OBVIOUS
  <1>1. ASSUME NEW t \in Thread, Step(t) PROVE Inv'
    <2>1. CASE SpinLock(t)
      BY <2>1, SpinLockInv
    <2>2. CASE LockPages(t)
      BY <2>2, LockPagesInv
    <2>3. ASSUME NEW s \in Span, SystemAlloc(t, s) PROVE Inv'
      BY <2>3, SystemAllocInv
    <2>4. CASE SystemAllocFails(t)
      BY <2>4, SystemAllocFailsInv
    <2>5. CASE LocateNode(t)
      BY <2>5, LocateNodeInv
    <2>6. CASE InsertNode(t)
      BY <2>6, InsertNodeInv
    <2>7. CASE Carve(t)
      BY <2>7, CarveInv
    <2>8. CASE Install(t)
      BY <2>8, InstallInv
    <2>9. CASE ReturnNull(t)
      BY <2>9, ReturnNullInv
    <2> QED
      BY <1>1, <2>1, <2>2, <2>3, <2>4, <2>5, <2>6, <2>7, <2>8, <2>9 DEF Step
  <1>2. ASSUME NEW t \in Thread, Call(t) PROVE Inv'
    <2>1. ASSUME NEW i \in Index, Hit(t, i) PROVE Inv'
      BY <2>1, HitInv
    <2>2. ASSUME NEW i \in Index, Miss(t, i) PROVE Inv'
      BY <2>2, MissInv
    <2>3. ASSUME NEW i \in Index, NEW b \in live[i], Deallocate(t, i, b) PROVE Inv'
      BY <2>3, DeallocateInv
    <2>4. CASE ThreadExit(t)
      BY <2>4, ThreadExitInv
    <2> QED
      BY <1>2, <2>1, <2>2, <2>3, <2>4 DEF Call
  <1>3. CASE ReleaseAll
    BY <1>3, ReleaseAllInv
  <1>4. CASE Halted \/ UNCHANGED vars
    BY <1>4, StutterInv DEF Halted
  <1> QED
    BY <1>1, <1>2, <1>3, <1>4 DEF Next

\* The inductive invariant holds throughout: locks belong to who is past them,
\* and links never leave the free blocks of their class (ThreadCache.cpp:18-83).
THEOREM PoolInvariant == Spec => []IInv
  <1>1. Inv => IInv
    BY DEF Inv
  <1> QED
    BY InitInv, StepInv, <1>1, PTL DEF Spec

\* Type correctness.  In particular freeListSize_, a size_t that is decremented
\* on every hit, never wraps (ThreadCache.cpp:28).
THEOREM PoolTypeOK == Spec => []TypeOK
  <1>1. IInv => TypeOK
    BY DEF IInv
  <1> QED
    BY PoolInvariant, <1>1, PTL

\* No span the pool has mapped is missing from the map that releaseAllSpanstoOS
\* goes by, except while the thread that mapped it is recording it.
THEOREM PoolSpansRecorded == Spec => []SpansRecorded
  <1>1. IInv => SpansRecorded
    BY DEF IInv
  <1> QED
    BY PoolInvariant, <1>1, PTL

(***************************************************************************)
(* The pool implements Allocator: live is its live, only Hit and Install   *)
(* add to it and only Deallocate takes from it.                            *)
(***************************************************************************)

\* A free block overlaps nothing live: its span was cut for its class, and it is
\* itself not live.
LEMMA FreeIsFresh ==
    ASSUME IInv, NEW i \in Index, NEW b \in FreeBlocks(i),
           NEW j \in Index, NEW e \in live[j]
    PROVE  ~Promise!Overlap(i, b, j, e)
  <1>1. spanMap[b[1]] = i /\ b \notin live[i] /\ b \in BlocksOf(b[1], i) /\ b[1] \in Span
    BY BlockSpan DEF FreeBlocks
  <1>2. spanMap[e[1]] = j /\ e \in BlocksOf(e[1], j) /\ e[1] \in Span
    BY DEF IInv, LiveBlocks
  <1>3. b = <<b[1], b[2]>> /\ e = <<e[1], e[2]>>
    BY <1>1, <1>2, BlockFacts
  <1> QED
    BY <1>1, <1>2, <1>3 DEF Promise!Overlap

\* A hit returns the head of the list, which is free.
LEMMA HitAllocates ==
    ASSUME Inv, NEW t \in Thread, NEW i \in Index, Hit(t, i)
    PROVE  freeList[t][i] \in Block /\ Promise!Allocate(i, freeList[t][i])
  <1>1. freeList[t][i] \in FreeBlocks(i) /\ freeList[t][i] \in Block
    BY DEF Hit, Inv, IInv, Heads, FreeBlocks
  <1>2. Promise!Allocate(i, freeList[t][i])
    BY <1>1, FreeIsFresh DEF Hit, HandOut, Inv, Promise!Allocate
  <1> QED
    BY <1>1, <1>2

\* A fetch returns the first block of a new span, in which nothing is live.
LEMMA InstallAllocates ==
    ASSUME Inv, NEW t \in Thread, Install(t)
    PROVE  /\ idx[t] \in Index /\ <<start[t], 1>> \in Block
           /\ Promise!Allocate(idx[t], <<start[t], 1>>)
  <1> DEFINE first == <<start[t], 1>>
  <1>1. start[t] \in Span /\ idx[t] \in Index /\ start[t] \in Claimed
    BY NullAssumption DEF Install, Inv, IInv, TypeOK, InFlight, Claimed
  <1>2. Batch[idx[t]] \in Nat \ {0}
    BY <1>1, BatchAssumption
  <1>3. first \in Block /\ first[1] = start[t]
    BY <1>1, <1>2, BlockFacts
  <1>4. \A j \in Index : \A e \in live[j] : e[1] # first[1]
    BY <1>1, <1>3 DEF Inv, IInv, LiveBlocks
  <1>5. \A j \in Index : \A e \in live[j] : ~Promise!Overlap(idx[t], first, j, e)
    BY <1>4 DEF Promise!Overlap
  <1>6. Promise!Allocate(idx[t], first)
    BY <1>5 DEF Install, HandOut, Promise!Allocate
  <1> QED
    BY <1>1, <1>3, <1>6

LEMMA StepRefines ==
    ASSUME Inv, [Next]_vars
    PROVE  [Promise!Next]_live
  <1>1. ASSUME NEW t \in Thread, NEW i \in Index, Hit(t, i) PROVE Promise!Next
    BY <1>1, HitAllocates DEF Promise!Next
  <1>2. ASSUME NEW t \in Thread, Install(t) PROVE Promise!Next
    BY <1>2, InstallAllocates DEF Promise!Next
  <1>3. ASSUME NEW t \in Thread, NEW i \in Index, NEW b \in live[i], Deallocate(t, i, b)
        PROVE  Promise!Next
    <2>1. b \in Block
      BY LiveFacts DEF Inv
    <2>2. Promise!Free(i, b)
      BY <1>3 DEF Deallocate, Promise!Free
    <2> QED
      BY <2>1, <2>2 DEF Promise!Next
  <1>4. ASSUME NEW t \in Thread, Step(t), ~Install(t) PROVE live' = live
    BY <1>4 DEF Step, SpinLock, LockPages, SystemAlloc, SystemAllocFails, LocateNode,
                InsertNode, Carve, ReturnNull
  <1>5. ASSUME NEW t \in Thread, NEW i \in Index, Miss(t, i) PROVE live' = live
    BY <1>5 DEF Miss
  <1>6. ASSUME NEW t \in Thread, ThreadExit(t) PROVE live' = live
    BY <1>6 DEF ThreadExit
  <1>7. ReleaseAll \/ Halted \/ UNCHANGED vars => live' = live
    BY DEF ReleaseAll, Halted, vars
  <1> QED
    BY <1>1, <1>2, <1>3, <1>4, <1>5, <1>6, <1>7 DEF Next, Step, Call

\* Every behaviour of the pool is one of an allocator: no thread is ever handed
\* memory that overlaps memory somebody holds (MemoryPool.h:28-36).
THEOREM PoolImplementsAllocator == Spec => AllocatorSpec
  <1>1. Init => Promise!Init
    BY DEF Init, Promise!Init
  <1>2. Inv /\ [Next]_vars => [Promise!Next]_live
    BY StepRefines
  <1> QED
    BY InitInv, StepInv, <1>1, <1>2, PTL DEF Spec, AllocatorSpec, Promise!Spec

\* No thread is ever handed a block that is live: neither by a hit, whoever freed
\* the block, nor by a fetch (ThreadCache.cpp:18-60).
THEOREM PoolHandsOutFree == Spec => HandsOutFree
  <1> DEFINE Fresh ==
        /\ \A t \in Thread, i \in Index : Hit(t, i) => Promise!Allocate(i, freeList[t][i])
        /\ \A t \in Thread : Install(t) => Promise!Allocate(idx[t], <<start[t], 1>>)
  <1>1. Inv => Fresh
    BY HitAllocates, InstallAllocates
  <1>2. Inv /\ [Next]_vars => [Fresh]_vars
    BY <1>1
  <1> QED
    BY InitInv, StepInv, <1>2, PTL DEF Spec, HandsOutFree

(***************************************************************************)
(* From single links to lists.  The blocks are finitely many, the measure  *)
(* falls by one along each link, so a walk from a head meets as many       *)
(* blocks as freeListSize_ says and then the null pointer.                 *)
(***************************************************************************)

\* A set of naturals that is not empty has a least member.
LEMMA LeastNat ==
    ASSUME NEW S \in SUBSET Nat, S # {}
    PROVE  \E n \in S : \A m \in S : n <= m
  <1>1. PICK n \in S : \A m \in S : ~(<<m, n>> \in OpToRel(<, Nat))
    BY NatLessThanWellFounded, WFMin, Zenon
  <1>2. \A m \in S : m \in Nat /\ ~(m < n)
    BY <1>1 DEF OpToRel
  <1>3. \A m \in S : n <= m
    BY <1>2
  <1> QED
    BY <1>3

\* There are finitely many blocks.
LEMMA BlocksAreFinite ==
    IsFiniteSet(Block) /\ Cardinality(Block) \in Nat
  <1> DEFINE n == Batch[0] + Batch[1]
  <1>1. Batch[0] \in Nat /\ Batch[1] \in Nat /\ n \in Nat
    BY BatchAssumption DEF Index
  <1>2. Block \subseteq Span \X (1..n)
    <2> SUFFICES ASSUME NEW b \in Block PROVE b \in Span \X (1..n)
      OBVIOUS
    <2>1. PICK s \in Span, i \in Index : b \in BlocksOf(s, i)
      BY DEF Block
    <2>2. PICK k \in 1..Batch[i] : b = <<s, k>>
      BY <2>1 DEF BlocksOf
    <2>3. k \in 1..n
      BY <1>1 DEF Index
    <2> QED
      BY <2>2, <2>3
  <1> HIDE DEF n
  <1>3. IsFiniteSet(1..n)
    BY <1>1, FS_Interval
  <1>4. IsFiniteSet(Span \X (1..n))
    BY <1>3, FS_Product, SpanAssumption
  <1>5. IsFiniteSet(Block)
    BY <1>2, <1>4, FS_Subset
  <1> QED
    BY <1>5, FS_CardinalityType

\* A walk of n steps from h.
IsWalk(p, h, n) ==
    p = [k \in 0..n |-> IF k = 0 THEN h
                        ELSE IF p[k - 1] \in Block THEN word[p[k - 1]] ELSE p[k - 1]]

\* The walk that Links describes exists, for as many steps as one likes.
LEMMA WalksExist ==
    ASSUME NEW h, NEW N \in Nat
    PROVE  \E p : IsWalk(p, h, N)
  <1> DEFINE After(x) == IF x \in Block THEN word[x] ELSE x
             Bad == {n \in Nat : ~\E p : IsWalk(p, h, n)}
  <1> SUFFICES ASSUME N \in Bad PROVE FALSE
    OBVIOUS
  <1>1. Bad \subseteq Nat /\ Bad # {}
    OBVIOUS
  <1>2. \A n \in Nat : n \in Bad <=> ~\E p : IsWalk(p, h, n)
    OBVIOUS
  <1> HIDE DEF After, Bad
  <1>3. PICK m \in Bad : \A k \in Bad : m <= k
    BY <1>1, LeastNat
  <1>4. m \in Nat /\ m # 0
    <2>1. IsWalk([k \in 0..0 |-> h], h, 0)
      BY DEF IsWalk
    <2> QED
      BY <1>1, <1>2, <1>3, <2>1
  <1>5. m - 1 \in Nat /\ m - 1 \notin Bad
    BY <1>3, <1>4
  <1>6. PICK p : IsWalk(p, h, m - 1)
    BY <1>2, <1>5
  <1> DEFINE q == [k \in 0..m |-> IF k = m THEN After(p[m - 1]) ELSE p[k]]
  <1>7. \A k \in 0..(m - 1) : p[k] = IF k = 0 THEN h ELSE After(p[k - 1])
    BY <1>6 DEF IsWalk, After
  <1>8. ASSUME NEW k \in 0..m
        PROVE  q[k] = IF k = 0 THEN h ELSE After(q[k - 1])
    <2>1. CASE k = m
      BY <1>4, <2>1
    <2>2. CASE k # m
      BY <1>4, <1>7, <2>2
    <2> QED
      BY <2>1, <2>2
  <1>9. q = [k \in 0..m |-> q[k]]
    OBVIOUS
  <1> HIDE DEF q
  <1>10. q = [k \in 0..m |-> IF k = 0 THEN h ELSE After(q[k - 1])]
    BY <1>8, <1>9
  <1>11. IsWalk(q, h, m)
    BY <1>10 DEF IsWalk, After
  <1> QED
    BY <1>2, <1>3, <1>4, <1>11

\* What Links is, step by step.
LEMMA LinksFollow ==
    ASSUME NEW h
    PROVE  /\ Links(h)[0] = h
           /\ \A n \in 1..Cardinality(Block) :
                 Links(h)[n] = IF Links(h)[n - 1] \in Block
                               THEN word[Links(h)[n - 1]] ELSE Links(h)[n - 1]
  <1> PICK N \in Nat : N = Cardinality(Block)
    BY BlocksAreFinite
  <1>1. \E p : IsWalk(p, h, N)
    BY WalksExist
  <1>2. Links(h) = CHOOSE p : IsWalk(p, h, N)
    BY DEF Links, IsWalk
  <1>3. IsWalk(Links(h), h, N)
    BY <1>1, <1>2
  <1> QED
    BY <1>3 DEF IsWalk

\* From the head of a list the walk meets free blocks, with measures that fall to one.
LEMMA WalkMeetsTheList ==
    ASSUME IInv, NEW d \in [Block -> Nat \ {0}], Measures(d), NEW t \in Thread, NEW i \in Index
    PROVE  \A k \in 0..Cardinality(Block) : k < freeListSize[t][i] =>
              /\ Links(freeList[t][i])[k] \in FreeBlocks(i)
              /\ d[Links(freeList[t][i])[k]] = freeListSize[t][i] - k
  <1> PICK N \in Nat : N = Cardinality(Block)
    BY BlocksAreFinite
  <1> PICK p : p = Links(freeList[t][i])
    OBVIOUS
  <1> PICK n \in Nat : n = freeListSize[t][i]
    BY DEF IInv, TypeOK
  <1> DEFINE Good(k) == p[k] \in FreeBlocks(i) /\ d[p[k]] = n - k
             Bad == {k \in Nat : k \in 0..N /\ k < n /\ ~Good(k)}
  <1>1. \A k \in Nat : k \in Bad <=> k \in 0..N /\ k < n /\ ~Good(k)
    OBVIOUS
  <1>2. Bad \subseteq Nat
    OBVIOUS
  <1> HIDE DEF Bad
  <1>3. Bad = {}
    <2> SUFFICES ASSUME Bad # {} PROVE FALSE
      OBVIOUS
    <2>1. PICK k \in Bad : \A m \in Bad : k <= m
      BY <1>2, LeastNat
    <2>2. k \in Nat /\ k \in 0..N /\ k < n /\ ~Good(k)
      BY <1>1, <1>2, <2>1
    <2>3. CASE k = 0
      <3>1. p[0] = freeList[t][i]
        BY LinksFollow
      <3>2. freeList[t][i] # NULL
        BY <2>2, <2>3 DEF Measures
      <3> QED
        BY <2>2, <2>3, <3>1, <3>2 DEF Measures, IInv, Heads
    <2>4. CASE k # 0
      <3>1. k - 1 \in Nat /\ k - 1 \in 0..N /\ k - 1 < n /\ k - 1 \notin Bad
        BY <2>1, <2>2, <2>4
      <3>2. Good(k - 1)
        BY <1>1, <3>1
      <3>3. p[k - 1] \in Block /\ k \in 1..N
        BY <2>2, <2>4, <3>2 DEF FreeBlocks
      <3>4. p[k] = word[p[k - 1]]
        BY <3>3, LinksFollow
      <3>5. word[p[k - 1]] \in FreeBlocks(i) \cup {NULL}
        BY <3>2 DEF IInv, FreeLinks
      <3>6. n - (k - 1) # 1
        BY <2>2
      <3>7. d[p[k - 1]] = IF word[p[k - 1]] = NULL THEN 1 ELSE d[word[p[k - 1]]] + 1
        BY <3>2 DEF Measures
      <3>8. word[p[k - 1]] # NULL /\ d[word[p[k - 1]]] + 1 = n - (k - 1)
        BY <3>2, <3>6, <3>7
      <3>9. p[k] \in FreeBlocks(i) /\ d[p[k]] \in Nat
        BY <3>4, <3>5, <3>8 DEF FreeBlocks
      <3> QED
        BY <2>2, <3>4, <3>8, <3>9
    <2> QED
      BY <2>3, <2>4
  <1>4. \A k \in 0..N : k \in Nat
    OBVIOUS
  <1> QED
    BY <1>1, <1>3, <1>4

\* No list has more blocks than there are.
LEMMA ListsAreShort ==
    ASSUME IInv, NEW d \in [Block -> Nat \ {0}], Measures(d), NEW t \in Thread, NEW i \in Index
    PROVE  freeListSize[t][i] <= Cardinality(Block)
  <1> PICK N \in Nat : N = Cardinality(Block)
    BY BlocksAreFinite
  <1> PICK p : p = Links(freeList[t][i])
    OBVIOUS
  <1> PICK n \in Nat : n = freeListSize[t][i]
    BY DEF IInv, TypeOK
  <1> SUFFICES ASSUME n > N PROVE FALSE
    OBVIOUS
  <1>1. \A k \in 0..N : p[k] \in FreeBlocks(i) /\ d[p[k]] = n - k
    BY WalkMeetsTheList
  <1> DEFINE f == [k \in 0..N |-> p[k]]
  <1>2. f \in Injection(0..N, Block)
    <2>1. \A k \in 0..N : p[k] \in Block
      BY <1>1 DEF FreeBlocks
    <2>2. \A j, k \in 0..N : p[j] = p[k] => j = k
      BY <1>1
    <2> QED
      BY <2>1, <2>2 DEF Injection, IsInjective
  <1>3. Cardinality(0..N) <= Cardinality(Block)
    BY <1>2, BlocksAreFinite, FS_Injection, Zenon
  <1>4. Cardinality(0..N) = N + 1
    BY FS_Interval
  <1> QED
    BY <1>3, <1>4

\* freeListSize_ counts the blocks of the list, after which comes the null pointer.
LEMMA ListsEnd == Inv => SizeIsLength
  <1> SUFFICES ASSUME Inv, NEW t \in Thread, NEW i \in Index
               PROVE  /\ freeListSize[t][i] <= Cardinality(Block)
                      /\ Links(freeList[t][i])[freeListSize[t][i]] = NULL
                      /\ \A k \in 0..(freeListSize[t][i] - 1) : Links(freeList[t][i])[k] \in Block
    BY DEF SizeIsLength
  <1> PICK N \in Nat : N = Cardinality(Block)
    BY BlocksAreFinite
  <1> PICK p : p = Links(freeList[t][i])
    OBVIOUS
  <1> PICK n \in Nat : n = freeListSize[t][i]
    BY DEF Inv, IInv, TypeOK
  <1>1. PICK d \in [Block -> Nat \ {0}] : Measures(d)
    BY DEF Inv, Measured
  <1>2. n <= N
    BY <1>1, ListsAreShort DEF Inv
  <1>3. \A k \in 0..N : k < n => p[k] \in FreeBlocks(i) /\ d[p[k]] = n - k
    BY <1>1, WalkMeetsTheList DEF Inv
  <1>4. \A k \in 0..(n - 1) : p[k] \in Block
    BY <1>2, <1>3 DEF FreeBlocks
  <1>5. CASE n = 0
    <2>1. freeList[t][i] = NULL
      <3>1. freeListSize[t][i] = IF freeList[t][i] = NULL THEN 0 ELSE d[freeList[t][i]]
        BY <1>1 DEF Measures
      <3>2. freeList[t][i] \in Block \cup {NULL}
        BY DEF Inv, IInv, TypeOK
      <3> QED
        BY <1>5, <3>1, <3>2
    <2>2. p[0] = NULL
      BY <2>1, LinksFollow
    <2> QED
      BY <1>2, <1>4, <1>5, <2>2
  <1>6. CASE n # 0
    <2>1. n - 1 \in 0..N /\ n - 1 < n /\ n \in 1..N
      BY <1>2, <1>6
    <2>2. p[n - 1] \in FreeBlocks(i) /\ d[p[n - 1]] = n - (n - 1) /\ p[n - 1] \in Block
      BY <1>3, <2>1 DEF FreeBlocks
    <2>3. d[p[n - 1]] = IF word[p[n - 1]] = NULL THEN 1 ELSE d[word[p[n - 1]]] + 1
      BY <1>1, <2>2 DEF Measures
    <2>4. word[p[n - 1]] # NULL => d[word[p[n - 1]]] \in Nat \ {0}
      BY <2>2 DEF Inv, IInv, FreeLinks, FreeBlocks
    <2>5. word[p[n - 1]] = NULL
      BY <2>2, <2>3, <2>4
    <2>6. p[n] = NULL
      BY <2>1, <2>2, <2>5, LinksFollow
    <2> QED
      BY <1>2, <1>4, <2>6
  <1> QED
    BY <1>5, <1>6

\* freeListSize_ is kept in step with the list, whatever the threads do and wherever the
\* blocks come from (ThreadCache.cpp:28, 55, 76).
THEOREM PoolSizeIsLength == Spec => []SizeIsLength
  BY InitInv, StepInv, ListsEnd, PTL DEF Spec

(***************************************************************************)
(* As long as no thread has taken its lists with it, each free block is a  *)
(* head or linked to.  With measures that fall along links, and finitely   *)
(* many blocks, it is then on the way from some head.                      *)
(***************************************************************************)
Held(i, b) ==
    \/ \E t \in Thread : freeList[t][i] = b
    \/ \E c \in FreeBlocks(i) : word[c] = b
AllHeld == exits = 0 => \A i \in Index : \A b \in FreeBlocks(i) : Held(i, b)

\* Where the lists, their links and the set of free blocks stay, blocks stay held.
LEMMA HeldFrame ==
    ASSUME AllHeld, UNCHANGED <<freeList, exits>>,
           \A i \in Index : FreeBlocks(i)' = FreeBlocks(i),
           \A i \in Index : \A b \in FreeBlocks(i) : word'[b] = word[b]
    PROVE  AllHeld'
  <1> SUFFICES ASSUME exits = 0, NEW i \in Index, NEW b \in FreeBlocks(i)
               PROVE  Held(i, b)'
    BY DEF AllHeld
  <1>1. Held(i, b)
    BY DEF AllHeld
  <1> QED
    BY <1>1 DEF Held

\* What the block that is unlinked leads to is the head now.
LEMMA HitHeld ==
    ASSUME Inv, AllHeld, NEW t \in Thread, NEW i \in Index, Hit(t, i)
    PROVE  AllHeld'
  <1> PICK h : h = freeList[t][i]
    OBVIOUS
  <1>1. /\ h \in FreeBlocks(i) /\ h \in Block
        /\ word' = [word EXCEPT ![h] = Payload]
        /\ live' = [live EXCEPT ![i] = @ \cup {h}]
        /\ freeList' = [freeList EXCEPT ![t][i] = word[h]]
        /\ UNCHANGED <<spanMap, start, exits>>
    BY DEF Hit, HandOut, osVars, callVars, Inv, IInv, Heads, FreeBlocks
  <1>2. /\ FreeBlocks(i)' = FreeBlocks(i) \ {h}
        /\ \A j \in Index \ {i} : FreeBlocks(j)' = FreeBlocks(j)
    BY <1>1 DEF FreeBlocks, Claimed, Inv, IInv, TypeOK
  <1>3. \A u \in Thread, j \in Index :
           freeList'[u][j] = IF u = t /\ j = i THEN word[h] ELSE freeList[u][j]
    BY <1>1 DEF Inv, IInv, TypeOK
  <1>4. \A c \in Block : c # h => word'[c] = word[c]
    BY <1>1 DEF Inv, IInv, TypeOK
  <1>5. \A j \in Index \ {i} : h \notin FreeBlocks(j)
    BY <1>1 DEF FreeBlocks
  <1> SUFFICES ASSUME exits = 0, NEW j \in Index, NEW b \in FreeBlocks(j)'
               PROVE  Held(j, b)'
    BY <1>1 DEF AllHeld
  <1>6. b \in FreeBlocks(j) /\ (j = i => b # h)
    BY <1>2
  <1>7. Held(j, b)
    BY <1>6 DEF AllHeld
  <1>8. CASE \E u \in Thread : freeList[u][j] = b
    <2>1. PICK u \in Thread : freeList[u][j] = b
      BY <1>8
    <2>2. freeList'[u][j] = b
      BY <1>3, <1>6, <2>1
    <2> QED
      BY <2>2 DEF Held
  <1>9. CASE \E c \in FreeBlocks(j) : word[c] = b
    <2>1. PICK c \in FreeBlocks(j) : word[c] = b
      BY <1>9
    <2>2. CASE c = h
      <3>1. j = i
        BY <1>5, <2>1, <2>2
      <3>2. freeList'[t][j] = b
        BY <1>3, <2>1, <2>2, <3>1
      <3> QED
        BY <3>2 DEF Held
    <2>3. CASE c # h
      <3>1. c \in Block
        BY <2>1 DEF FreeBlocks
      <3>2. c \in FreeBlocks(j)' /\ word'[c] = b
        BY <1>2, <1>4, <2>1, <2>3, <3>1
      <3> QED
        BY <3>2 DEF Held
    <2> QED
      BY <2>2, <2>3
  <1> QED
    BY <1>7, <1>8, <1>9 DEF Held

\* The block that is freed is the head, and leads to what was the head.
LEMMA DeallocateHeld ==
    ASSUME Inv, AllHeld, NEW t \in Thread, NEW i \in Index, NEW b \in live[i], Deallocate(t, i, b)
    PROVE  AllHeld'
  <1>0. /\ b \in Block
        /\ \A j \in Index : b \notin FreeBlocks(j)
        /\ spanMap[b[1]] = i /\ b \in BlocksOf(b[1], i) /\ b[1] \notin Claimed
    BY LiveFacts DEF Inv, IInv, LiveBlocks
  <1>1. /\ live' = [live EXCEPT ![i] = @ \ {b}]
        /\ word' = [word EXCEPT ![b] = freeList[t][i]]
        /\ freeList' = [freeList EXCEPT ![t][i] = b]
        /\ UNCHANGED <<spanMap, start, exits>>
    BY DEF Deallocate, osVars, callVars
  <1>2. Claimed' = Claimed
    BY <1>1 DEF Claimed
  <1>3. \A c \in Block : word'[c] = IF c = b THEN freeList[t][i] ELSE word[c]
    BY <1>0, <1>1 DEF Inv, IInv, TypeOK
  <1>4. \A u \in Thread, j \in Index :
          freeList'[u][j] = IF u = t /\ j = i THEN b ELSE freeList[u][j]
    BY <1>0, <1>1, HeadUpdate DEF Inv, IInv, TypeOK
  <1>5. \A j \in Index : live'[j] = IF j = i THEN live[i] \ {b} ELSE live[j]
    BY <1>1 DEF Inv, IInv, TypeOK
  <1>6. /\ FreeBlocks(i)' = FreeBlocks(i) \cup {b}
        /\ \A j \in Index \ {i} : FreeBlocks(j)' = FreeBlocks(j)
    BY <1>0, <1>1, <1>2, <1>5 DEF FreeBlocks
  <1> SUFFICES ASSUME exits = 0, NEW j \in Index, NEW e \in FreeBlocks(j)'
               PROVE  Held(j, e)'
    BY <1>1 DEF AllHeld
  <1>7. CASE e = b
    <2>1. j = i
      BY <1>0, <1>6, <1>7
    <2>2. freeList'[t][j] = e
      BY <1>4, <1>7, <2>1
    <2> QED
      BY <2>2 DEF Held
  <1>8. CASE e # b
    <2>1. e \in FreeBlocks(j)
      BY <1>6, <1>8
    <2>2. Held(j, e)
      BY <2>1 DEF AllHeld
    <2>3. CASE \E u \in Thread : freeList[u][j] = e
      <3>1. PICK u \in Thread : freeList[u][j] = e
        BY <2>3
      <3>2. CASE u = t /\ j = i
        <4>1. b \in FreeBlocks(j)' /\ word'[b] = e
          BY <1>0, <1>3, <1>6, <3>1, <3>2
        <4> QED
          BY <4>1 DEF Held
      <3>3. CASE ~(u = t /\ j = i)
        <4>1. freeList'[u][j] = e
          BY <1>4, <3>1, <3>3
        <4> QED
          BY <4>1 DEF Held
      <3> QED
        BY <3>2, <3>3
    <2>4. CASE \E c \in FreeBlocks(j) : word[c] = e
      <3>1. PICK c \in FreeBlocks(j) : word[c] = e
        BY <2>4
      <3>2. c # b /\ c \in Block
        BY <1>0, <3>1 DEF FreeBlocks
      <3>3. c \in FreeBlocks(j)' /\ word'[c] = e
        BY <1>3, <1>6, <3>1, <3>2
      <3> QED
        BY <3>3 DEF Held
    <2> QED
      BY <2>2, <2>3, <2>4 DEF Held
  <1> QED
    BY <1>7, <1>8

\* Each block of the new list is its head or linked to by the one before it.
LEMMA InstallHeld ==
    ASSUME Inv, AllHeld, NEW t \in Thread, Install(t)
    PROVE  AllHeld'
  <1>0. PICK s \in Span, i \in Index, n \in Nat \ {0}, first \in Block :
          /\ s = start[t] /\ i = idx[t] /\ n = Batch[i]
          /\ first = <<s, 1>> /\ first \in BlocksOf(s, i)
    <2>1. start[t] \in Span /\ idx[t] \in Index
      BY DEF Install, Inv, IInv, TypeOK, InFlight
    <2>2. Batch[idx[t]] \in Nat \ {0}
      BY <2>1, BatchAssumption
    <2>3. BlocksOf(start[t], idx[t]) \subseteq Block
      BY <2>1, BlockFacts
    <2>4. <<start[t], 1>> \in BlocksOf(start[t], idx[t])
      BY <2>1, <2>2, BlockFacts
    <2> QED
      BY <2>1, <2>2, <2>3, <2>4
  <1>1. /\ s # NULL /\ s \in Claimed /\ spanMap[s] = i
        /\ freeList[t][i] = NULL /\ pc[t] = "install"
    BY <1>0 DEF Install, Inv, IInv, TypeOK, InFlight, Claimed, BusyListEmpty
  <1>2. /\ live' = [live EXCEPT ![i] = @ \cup {first}]
        /\ word' = [word EXCEPT ![first] = Payload]
        /\ start' = [start EXCEPT ![t] = NULL]
        /\ UNCHANGED <<spanMap, exits>>
        /\ n > 1 => freeList' = [freeList EXCEPT ![t][i] = word[first]]
        /\ n = 1 => freeList' = freeList
    BY <1>0 DEF Install, HandOut, osVars, cacheVars
  <1>3. \A b \in BlocksOf(s, i) : b \in Block /\ b[1] = s /\ b[2] \in 1..n /\ b = <<s, b[2]>>
    BY <1>0, BlockFacts
  <1>4. ASSUME n > 1, NEW b \in BlocksOf(s, i)
        PROVE  word[b] = IF b[2] < n THEN <<b[1], b[2] + 1>> ELSE NULL
    BY <1>0, <1>1, <1>4 DEF Inv, IInv, Chained
  <1>5. Claimed' = Claimed \ {s}
    <2>1. \A u \in Thread : start'[u] = IF u = t THEN NULL ELSE start[u]
      BY <1>2 DEF Inv, IInv, TypeOK
    <2>2. \A u \in Thread : u # t => start[u] # s
      BY <1>0, <1>1 DEF Inv, IInv, InFlight
    <2> QED
      BY <1>0, <1>1, <2>1, <2>2 DEF Claimed
  <1>6. \A b \in Block : b # first => word'[b] = word[b]
    BY <1>2 DEF Inv, IInv, TypeOK
  <1>7. \A j \in Index : live'[j] = IF j = i THEN live[i] \cup {first} ELSE live[j]
    BY <1>2 DEF Inv, IInv, TypeOK
  <1>8. \A j \in Index : \A b \in FreeBlocks(j) : b \in FreeBlocks(j)' /\ b[1] # s /\ b # first
    BY <1>0, <1>1, <1>2, <1>5, <1>7 DEF FreeBlocks
  <1>9. \A b \in BlocksOf(s, i) : b # first => b \in FreeBlocks(i)'
    <2>1. \A b \in BlocksOf(s, i) : b \notin live[i]
      BY <1>1, <1>3 DEF Inv, IInv, LiveBlocks
    <2> QED
      BY <1>1, <1>2, <1>3, <1>5, <1>7, <2>1 DEF FreeBlocks
  <1>10. \A j \in Index : \A b \in FreeBlocks(j)' :
            b \in FreeBlocks(j) \/ (j = i /\ b \in BlocksOf(s, i) /\ b # first)
    <2>1. \A j \in Index : \A b \in FreeBlocks(j)' : b[1] # s => b \in FreeBlocks(j)
      BY <1>2, <1>5, <1>7 DEF FreeBlocks
    <2>2. \A j \in Index : \A b \in FreeBlocks(j)' : b[1] = s => j = i /\ b \in BlocksOf(s, i) /\ b # first
      BY <1>1, <1>2, <1>7 DEF FreeBlocks
    <2> QED
      BY <2>1, <2>2
  <1>11. \A u \in Thread, j \in Index :
            freeList'[u][j] = IF u = t /\ j = i /\ n > 1 THEN word[first] ELSE freeList[u][j]
    <2>1. freeList \in [Thread -> [Index -> Block \cup {NULL}]]
      BY DEF Inv, IInv, TypeOK
    <2>2. n = 1 \/ n > 1
      OBVIOUS
    <2> QED
      BY <1>2, <2>1, <2>2
  <1> SUFFICES ASSUME exits = 0, NEW j \in Index, NEW b \in FreeBlocks(j)'
               PROVE  Held(j, b)'
    BY <1>2 DEF AllHeld
  <1>12. CASE b \in FreeBlocks(j)
    <2>1. b # NULL
      BY <1>12, NullAssumption DEF FreeBlocks
    <2>2. Held(j, b)
      BY <1>12 DEF AllHeld
    <2>3. CASE \E u \in Thread : freeList[u][j] = b
      <3>1. PICK u \in Thread : freeList[u][j] = b
        BY <2>3
      <3>2. ~(u = t /\ j = i)
        BY <1>1, <2>1, <3>1
      <3>3. freeList'[u][j] = b
        BY <1>11, <3>1, <3>2
      <3> QED
        BY <3>3 DEF Held
    <2>4. CASE \E c \in FreeBlocks(j) : word[c] = b
      <3>1. PICK c \in FreeBlocks(j) : word[c] = b
        BY <2>4
      <3>2. c \in FreeBlocks(j)' /\ word'[c] = b
        <4>1. c \in Block
          BY DEF FreeBlocks
        <4> QED
          BY <1>6, <1>8, <3>1, <4>1
      <3> QED
        BY <3>2 DEF Held
    <2> QED
      BY <2>2, <2>3, <2>4 DEF Held
  <1>13. CASE j = i /\ b \in BlocksOf(s, i) /\ b # first
    <2>1. b[2] \in 1..n /\ b = <<s, b[2]>>
      BY <1>3, <1>13
    <2>2. b[2] # 1
      BY <1>0, <1>13, <2>1
    <2>3. n > 1 /\ b[2] \in 2..n
      BY <2>1, <2>2
    <2> DEFINE c == <<s, b[2] - 1>>
    <2>4. c \in BlocksOf(s, i) /\ c[1] = s /\ c[2] = b[2] - 1 /\ c[2] < n /\ c \in Block
      <3>1. b[2] - 1 \in 1..n
        BY <2>3
      <3> QED
        BY <1>0, <2>3, <3>1, BlockFacts
    <2>5. word[c] = b
      <3>1. word[c] = <<s, (b[2] - 1) + 1>>
        BY <1>4, <2>3, <2>4
      <3> QED
        BY <2>1, <2>3, <3>1
    <2>6. CASE c = first
      <3>1. freeList'[t][j] = b
        BY <1>11, <1>13, <2>3, <2>5, <2>6
      <3> QED
        BY <3>1 DEF Held
    <2>7. CASE c # first
      <3>1. c \in FreeBlocks(j)' /\ word'[c] = b
        BY <1>6, <1>9, <1>13, <2>4, <2>5, <2>7
      <3> QED
        BY <3>1 DEF Held
    <2> QED
      BY <2>6, <2>7
  <1> QED
    BY <1>10, <1>12, <1>13

\* No step leaves a free block that nothing leads to, except the end of a thread.
LEMMA StepHeld == Inv /\ AllHeld /\ [Next]_vars => AllHeld'
  <1> SUFFICES ASSUME Inv, AllHeld, [Next]_vars PROVE AllHeld'
    OBVIOUS
  <1> USE DEF cacheVars, lockVars, osVars, callVars
  <1>1. ASSUME UNCHANGED <<freeList, word, live, spanMap, start, exits>> PROVE AllHeld'
    <2>1. Claimed' = Claimed
      BY <1>1 DEF Claimed
    <2>2. \A i \in Index : FreeBlocks(i)' = FreeBlocks(i)
      BY <1>1, <2>1 DEF FreeBlocks
    <2> QED
      BY <1>1, <2>2, HeldFrame
  <1>2. ASSUME NEW t \in Thread, Step(t) PROVE AllHeld'
    <2>1. CASE SpinLock(t) \/ LockPages(t) \/ SystemAllocFails(t) \/ LocateNode(t) \/ ReturnNull(t)
      BY <1>1, <2>1 DEF SpinLock, LockPages, SystemAllocFails, LocateNode, ReturnNull
    <2>2. ASSUME NEW s \in Span, SystemAlloc(t, s) PROVE AllHeld'
      <3>1. /\ s \notin mapped /\ word' = [b \in Block |-> IF b[1] = s THEN NULL ELSE word[b]]
            /\ start' = [start EXCEPT ![t] = s]
            /\ UNCHANGED <<freeList, live, spanMap, exits>> /\ pc[t] = "system"
        BY <2>2 DEF SystemAlloc
      <3>2. spanMap[s] = NULL /\ s # NULL
        BY <3>1, NullAssumption DEF Inv, IInv, SpansRecorded
      <3>3. Claimed' = Claimed \cup {s}
        <4>1. start[t] = NULL
          BY <3>1 DEF Inv, IInv, InFlight
        <4> QED
          BY <3>1, <3>2, <4>1 DEF Inv, IInv, TypeOK, Claimed
      <3>4. \A i \in Index : FreeBlocks(i)' = FreeBlocks(i)
        BY <3>1, <3>2, <3>3, NullAssumption DEF FreeBlocks
      <3>5. \A i \in Index : \A b \in FreeBlocks(i) : word'[b] = word[b]
        BY <3>1, <3>2, NullAssumption DEF FreeBlocks
      <3> QED
        BY <3>1, <3>4, <3>5, HeldFrame
    <2>3. CASE InsertNode(t)
      <3>1. /\ start[t] \in Claimed /\ start[t] \in Span /\ spanMap' = [spanMap EXCEPT ![start[t]] = idx[t]]
            /\ UNCHANGED <<freeList, word, live, start, exits>>
        BY <2>3, NullAssumption DEF InsertNode, Inv, IInv, TypeOK, InFlight, Claimed
      <3>2. Claimed' = Claimed
        BY <3>1 DEF Claimed
      <3>3. \A r \in Span : r # start[t] => spanMap'[r] = spanMap[r]
        BY <3>1 DEF Inv, IInv, TypeOK
      <3>4. \A i \in Index : FreeBlocks(i)' = FreeBlocks(i)
        BY <3>1, <3>2, <3>3, BlockSpan DEF FreeBlocks
      <3> QED
        BY <3>1, <3>4, HeldFrame
    <2>4. CASE Carve(t)
      <3>1. /\ start[t] \in Span /\ start[t] \in Claimed /\ idx[t] \in Index
            /\ UNCHANGED <<freeList, live, spanMap, start, exits>>
        BY <2>4 DEF Carve, Inv, IInv, TypeOK, InFlight, Claimed
      <3>2. Claimed' = Claimed
        BY <3>1 DEF Claimed
      <3>3. \A b \in Block : b[1] # start[t] => word'[b] = word[b]
        BY <2>4, <3>1, BlockFacts DEF Carve
      <3>4. \A i \in Index : FreeBlocks(i)' = FreeBlocks(i)
        BY <3>1, <3>2 DEF FreeBlocks
      <3>5. \A i \in Index : \A b \in FreeBlocks(i) : word'[b] = word[b]
        BY <3>1, <3>3 DEF FreeBlocks
      <3> QED
        BY <3>1, <3>4, <3>5, HeldFrame
    <2>5. CASE Install(t)
      BY <2>5, InstallHeld
    <2> QED
      BY <1>2, <2>1, <2>2, <2>3, <2>4, <2>5 DEF Step
  <1>3. ASSUME NEW t \in Thread, Call(t) PROVE AllHeld'
    <2>1. ASSUME NEW i \in Index, Hit(t, i) PROVE AllHeld'
      BY <2>1, HitHeld
    <2>2. ASSUME NEW i \in Index, Miss(t, i) PROVE AllHeld'
      BY <1>1, <2>2 DEF Miss
    <2>3. ASSUME NEW i \in Index, NEW b \in live[i], Deallocate(t, i, b) PROVE AllHeld'
      BY <2>3, DeallocateHeld
    <2>4. CASE ThreadExit(t)
      <3>1. exits' = exits + 1 /\ exits \in Nat
        BY <2>4 DEF ThreadExit, Inv, IInv, TypeOK
      <3> QED
        BY <3>1 DEF AllHeld
    <2> QED
      BY <1>3, <2>1, <2>2, <2>3, <2>4 DEF Call
  <1>4. CASE ReleaseAll
    <2>1. \A i \in Index : FreeBlocks(i)' = {}
      BY <1>4, NullAssumption, BlockSpan DEF ReleaseAll, NoSpans, FreeBlocks
    <2> QED
      BY <2>1 DEF AllHeld
  <1>5. CASE Halted \/ UNCHANGED vars
    BY <1>1, <1>5 DEF Halted, vars
  <1> QED
    BY <1>2, <1>3, <1>4, <1>5 DEF Next

\* The blocks that the list of a thread holds.
Listed(i) ==
    {b \in FreeBlocks(i) : \E t \in Thread : \E k \in 0..Cardinality(Block) :
        k < freeListSize[t][i] /\ Links(freeList[t][i])[k] = b}

\* What a listed block leads to is listed.
LEMMA ListedLeadOn ==
    ASSUME Inv, NEW i \in Index, NEW c \in Listed(i), word[c] # NULL
    PROVE  word[c] \in Listed(i)
  <1> PICK N \in Nat : N = Cardinality(Block)
    BY BlocksAreFinite
  <1>1. PICK t \in Thread, k \in 0..N : k < freeListSize[t][i] /\ Links(freeList[t][i])[k] = c
    BY DEF Listed
  <1> PICK p : p = Links(freeList[t][i])
    OBVIOUS
  <1> PICK n \in Nat : n = freeListSize[t][i]
    BY DEF Inv, IInv, TypeOK
  <1>2. n <= N /\ p[n] = NULL
    BY ListsEnd DEF SizeIsLength
  <1>3. k + 1 \in 1..N /\ k = (k + 1) - 1 /\ k + 1 \in 0..N
    BY <1>1, <1>2
  <1>4. c \in FreeBlocks(i) /\ c \in Block
    BY DEF Listed, FreeBlocks
  <1>5. p[k + 1] = word[c]
    BY <1>1, <1>3, <1>4, LinksFollow
  <1>6. k + 1 # n
    BY <1>2, <1>5
  <1>7. k + 1 < n
    BY <1>1, <1>6
  <1>8. word[c] \in FreeBlocks(i)
    BY <1>4 DEF Inv, IInv, FreeLinks
  <1> QED
    BY <1>3, <1>5, <1>7, <1>8 DEF Listed

\* A free block that no list held would be linked to by another one of those, and as no
\* two lead to the same, they would all lead to another: none has the least measure.
LEMMA FreeBlocksAreListed ==
    ASSUME Inv, AllHeld, exits = 0, NEW i \in Index
    PROVE  FreeBlocks(i) = Listed(i)
  <1> DEFINE U == FreeBlocks(i) \ Listed(i)
  <1>1. IsFiniteSet(U)
    BY BlocksAreFinite, FS_Subset DEF FreeBlocks
  <1>2. ASSUME NEW b \in U
        PROVE  \E c \in U : word[c] = b
    <2>1. b # NULL
      BY NullAssumption DEF FreeBlocks
    <2>2. ~\E t \in Thread : freeList[t][i] = b
      <3> SUFFICES ASSUME NEW t \in Thread, freeList[t][i] = b PROVE FALSE
        OBVIOUS
      <3>1. PICK d \in [Block -> Nat \ {0}] : Measures(d)
        BY DEF Inv, Measured
      <3>2. freeListSize[t][i] = d[b] /\ b \in Block
        BY <2>1, <3>1 DEF Measures, FreeBlocks
      <3>3. 0 < freeListSize[t][i] /\ Links(freeList[t][i])[0] = b
        BY <3>2, LinksFollow
      <3>4. 0 \in 0..Cardinality(Block)
        BY BlocksAreFinite
      <3>5. b \in Listed(i)
        BY <3>3, <3>4 DEF Listed
      <3> QED
        BY <3>5
    <2>3. Held(i, b)
      BY DEF AllHeld
    <2>4. PICK c \in FreeBlocks(i) : word[c] = b
      BY <2>2, <2>3 DEF Held
    <2>5. c \notin Listed(i)
      BY <2>1, <2>4, ListedLeadOn
    <2> QED
      BY <2>4, <2>5
  <1> DEFINE before == [b \in U |-> CHOOSE c \in U : word[c] = b]
  <1>3. \A b \in U : before[b] \in U /\ word[before[b]] = b
    BY <1>2
  <1>4. before = [b \in U |-> before[b]]
    OBVIOUS
  <1> HIDE DEF before, U
  <1>5. before \in Injection(U, U)
    BY <1>3, <1>4 DEF Injection, IsInjective
  <1>6. before \in Surjection(U, U)
    BY <1>1, <1>5, FS_Injection, Zenon
  <1>7. \A c \in U : word[c] \in U
    BY <1>3, <1>6 DEF Surjection
  <1>8. U = {}
    <2> SUFFICES ASSUME U # {} PROVE FALSE
      OBVIOUS
    <2>1. PICK d \in [Block -> Nat \ {0}] : Measures(d)
      BY DEF Inv, Measured
    <2> DEFINE D == {d[b] : b \in U}
    <2>2. \A b \in U : b \in FreeBlocks(i) /\ b \in Block
      BY DEF U, FreeBlocks
    <2>3. D \subseteq Nat /\ D # {}
      BY <2>2
    <2>4. PICK m \in D : \A k \in D : m <= k
      BY <2>3, LeastNat
    <2>5. PICK b \in U : m = d[b]
      OBVIOUS
    <2>6. word[b] \in U /\ word[b] \in Block
      BY <1>7, <2>2
    <2>7. d[word[b]] \in D /\ d[word[b]] \in Nat
      BY <2>6
    <2>8. word[b] # NULL
      BY <2>6, NullAssumption
    <2>9. d[b] = d[word[b]] + 1
      BY <2>1, <2>2, <2>8 DEF Measures
    <2> QED
      <3>1. m <= d[word[b]]
        BY <2>4, <2>7
      <3> HIDE DEF D
      <3> QED
        BY <2>5, <2>7, <2>9, <3>1
  <1> QED
    BY <1>8 DEF U, Listed

\* Until a thread ends, no block of a recorded span is out of reach: it is live, in a list,
\* or in a span that is being handed over (ThreadCache.cpp:18-83).
THEOREM PoolLosesNothing == Spec => []NothingLost
  <1>1. Init => AllHeld
    <2> SUFFICES ASSUME Init PROVE AllHeld
      OBVIOUS
    <2>1. \A i \in Index : FreeBlocks(i) = {}
      BY NullAssumption, BlockSpan DEF Init, FreeBlocks, NoSpans
    <2> QED
      BY <2>1 DEF AllHeld
  <1>2. Inv /\ AllHeld => NothingLost
    <2> SUFFICES ASSUME Inv, AllHeld, exits = 0, NEW s \in Span, NEW i \in Index, spanMap[s] = i,
                        s \notin Claimed, NEW b \in BlocksOf(s, i), b \notin live[i]
                 PROVE  \E t \in Thread : b \in ListBlocks(t, i)
      BY DEF NothingLost
    <2>1. b \in Block /\ b[1] = s
      BY BlockFacts
    <2>2. b \in FreeBlocks(i)
      BY <2>1 DEF FreeBlocks
    <2>3. b \in Listed(i)
      BY <2>2, FreeBlocksAreListed
    <2> QED
      BY <2>1, <2>3 DEF Listed, ListBlocks
  <1> QED
    BY InitInv, StepInv, <1>1, StepHeld, <1>2, PTL DEF Spec
=============================================================================
