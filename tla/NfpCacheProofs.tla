--------------------------- MODULE NfpCacheProofs ----------------------------
(***************************************************************************)
(* Proofs about NfpCache, for any pairs and any number of workers: nothing *)
(* is lost in the build, entries stay as they were stored, and once the    *)
(* build is over a question is answered with the polygon of its own pair.  *)
(***************************************************************************)
EXTENDS NfpCache, TLAPS

\* What is known of pairs, keys and lookups, for which the shapes do not matter.
Lookups == INSTANCE NfpLookupProofs WITH Shape <- [b \in Item |-> {}]

LEMMA NoShapes == [b \in Item |-> {}] \in [Item -> SUBSET (Int \X Int)]
  OBVIOUS

LEMMA SameFields ==
    /\ Lookups!Field \subseteq Lookups!Word
    /\ \A j, k \in Lookups!Field : Lookups!Bits(j) = Lookups!Bits(k) => j = k
  <1>1. Lookups!Field = Field
    BY DEF Lookups!Field, Field, Lookups!Indices, Indices
  <1>2. Lookups!Word = Word
    BY DEF Lookups!Word, Word
  <1>3. \A j : Lookups!Bits(j) = Bits(j)
    BY DEF Lookups!Bits, Bits
  <1> QED
    BY <1>1, <1>2, <1>3, FieldAssumption

LEMMA KeyInjective ==
    ASSUME NEW p \in PairType, NEW q \in PairType, PairKey(p) = PairKey(q)
    PROVE  p = q
  <1>1. Lookups!PairType = PairType
    BY DEF Lookups!PairType, PairType, Lookups!Indices, Indices
  <1>2. \A r \in PairType : Lookups!PairKey(r) = PairKey(r)
    BY DEF Lookups!PairKey, PairKey, Lookups!Bits, Bits, Lookups!Shl, Shl, Lookups!Bit, Bit
  <1> QED
    BY <1>1, <1>2, CountAssumption, SameFields, NoShapes, Lookups!KeyInjective

LEMMA Matched == ASSUME NEW q \in Queries PROVE Lookup(q).pair \in MatchPairs
  <1>1. Lookups!Queries = Queries
    BY DEF Lookups!Queries, Queries, Lookups!QueryType, QueryType, Lookups!Oriented, Oriented,
           Lookups!Indices, Indices
  <1>2. Lookups!Lookup(q) = Lookup(q)
    BY DEF Lookups!Lookup, Lookup, Lookups!LookupSheet, LookupSheet, Lookups!LookupItems, LookupItems,
           Lookups!Answer, Answer, Lookups!Pair, Pair, Lookups!Wrap, Wrap, Lookups!Compare, Compare
  <1>3. Lookups!MatchPairs = MatchPairs
    BY DEF Lookups!MatchPairs, MatchPairs, Lookups!PairType, PairType, Lookups!CreatePair, CreatePair,
           Lookups!Compare, Compare, Lookups!Oriented, Oriented, Lookups!Indices, Indices
  <1> QED
    BY <1>1, <1>2, <1>3, CountAssumption, SameFields, NoShapes, Lookups!Matched

\* Each computed pair has a key, and only one pair has it.
LEMMA KeyOfPair ==
    /\ \A p \in MatchPairs : PairKey(p) \in Keys
    /\ \A p, q \in MatchPairs : PairKey(p) = PairKey(q) => p = q
  <1>1. MatchPairs \subseteq PairType
    BY DEF MatchPairs
  <1> QED
    BY <1>1, KeyInjective DEF Keys

LEMMA InitInv == Init => IInv
  <1> SUFFICES ASSUME Init PROVE IInv
    OBVIOUS
  <1>1. TypeOK
    BY DEF Init, TypeOK, Table, NoTable, Stage
  <1>2. TaskHeld /\ MutexHeld /\ AfterFinish
    BY DEF Init, TaskHeld, MutexHeld, AfterFinish
  <1>3. Accounted
    BY KeyOfPair, NullAssumption DEF Init, Accounted, Busy, NoTable
  <1> QED
    BY <1>1, <1>2, <1>3 DEF IInv

\* The steps of a worker.
LEMMA TakeInv ==
    ASSUME IInv, NEW w \in Worker, NEW p \in MatchPairs, Take(w, p) PROVE IInv'
  <1>1. TypeOK'
    BY DEF IInv, TypeOK, Take, readerVars, Stage
  <1>2. TaskHeld'
    BY NullAssumption DEF IInv, TypeOK, TaskHeld, Accounted, Busy, Take
  <1>3. MutexHeld'
    BY DEF IInv, TypeOK, MutexHeld, Take
  <1>4. Accounted'
    BY KeyOfPair, NullAssumption DEF IInv, TypeOK, TaskHeld, Accounted, Busy, Take
  <1>5. AfterFinish'
    BY DEF IInv, TypeOK, AfterFinish, Take, readerVars
  <1> QED
    BY <1>1, <1>2, <1>3, <1>4, <1>5 DEF IInv

LEMMA ComputeInv == ASSUME IInv, NEW w \in Worker, Compute(w) PROVE IInv'
  <1>1. TypeOK'
    BY DEF IInv, TypeOK, Compute, readerVars, Stage
  <1>2. TaskHeld'
    BY DEF IInv, TypeOK, TaskHeld, Compute
  <1>3. MutexHeld'
    BY DEF IInv, TypeOK, MutexHeld, Compute
  <1>4. Accounted'
    BY DEF IInv, TypeOK, Accounted, Busy, Compute
  <1>5. AfterFinish'
    BY DEF IInv, TypeOK, AfterFinish, Compute, readerVars
  <1> QED
    BY <1>1, <1>2, <1>3, <1>4, <1>5 DEF IInv

LEMMA ComputeEmptyInv == ASSUME IInv, NEW w \in Worker, ComputeEmpty(w) PROVE IInv'
  <1>1. task[w] \in MatchPairs
    BY DEF IInv, TypeOK, TaskHeld, ComputeEmpty
  <1>2. TypeOK'
    BY <1>1 DEF IInv, TypeOK, ComputeEmpty, readerVars, Stage
  <1>3. TaskHeld'
    BY DEF IInv, TypeOK, TaskHeld, ComputeEmpty
  <1>4. MutexHeld'
    BY DEF IInv, TypeOK, MutexHeld, ComputeEmpty
  <1>5. Accounted'
    BY <1>1, KeyOfPair, NullAssumption
    DEF IInv, TypeOK, TaskHeld, Accounted, Busy, ComputeEmpty
  <1>6. AfterFinish'
    BY DEF IInv, TypeOK, AfterFinish, ComputeEmpty, readerVars
  <1> QED
    BY <1>2, <1>3, <1>4, <1>5, <1>6 DEF IInv

LEMMA LockInv == ASSUME IInv, NEW w \in Worker, Lock(w) PROVE IInv'
  <1>1. TypeOK'
    BY DEF IInv, TypeOK, Lock, readerVars, Stage
  <1>2. TaskHeld'
    BY DEF IInv, TypeOK, TaskHeld, Lock
  <1>3. MutexHeld'
    BY NullAssumption DEF IInv, TypeOK, MutexHeld, Lock
  <1>4. Accounted'
    BY DEF IInv, TypeOK, Accounted, Busy, Lock
  <1>5. AfterFinish'
    BY DEF IInv, TypeOK, AfterFinish, Lock, readerVars
  <1> QED
    BY <1>1, <1>2, <1>3, <1>4, <1>5 DEF IInv

LEMMA LocateInv == ASSUME IInv, NEW w \in Worker, Locate(w) PROVE IInv'
  <1>1. TypeOK'
    BY DEF IInv, TypeOK, Locate, readerVars, Stage
  <1>2. TaskHeld'
    BY DEF IInv, TypeOK, TaskHeld, Locate
  <1>3. MutexHeld'
    BY DEF IInv, TypeOK, MutexHeld, Locate
  <1>4. Accounted'
    BY DEF IInv, TypeOK, Accounted, Busy, Locate
  <1>5. AfterFinish'
    BY DEF IInv, TypeOK, AfterFinish, Locate, readerVars
  <1> QED
    BY <1>1, <1>2, <1>3, <1>4, <1>5 DEF IInv

\* What an insertion does to the table: the worker's own entry, and no other.
LEMMA InsertTable ==
    ASSUME IInv, NEW w \in Worker, Insert(w)
    PROVE  /\ task[w] \in MatchPairs
           /\ table' = [table EXCEPT ![PairKey(task[w])] = task[w]]
           /\ table[PairKey(task[w])] = NULL
           /\ table' \in Table
  <1>1. task[w] \in MatchPairs
    BY DEF IInv, TypeOK, TaskHeld, Insert
  <1>2. table' = [table EXCEPT ![PairKey(task[w])] = task[w]]
    BY DEF IInv, MutexHeld, Insert
  <1>3. table[PairKey(task[w])] = NULL
    BY DEF IInv, Accounted, Insert
  <1> QED
    BY <1>1, <1>2, <1>3, KeyOfPair DEF IInv, TypeOK, Table

LEMMA InsertInv == ASSUME IInv, NEW w \in Worker, Insert(w) PROVE IInv'
  <1>1. TypeOK'
    BY InsertTable DEF IInv, TypeOK, Insert, readerVars, Stage, Table, NoTable
  <1>2. TaskHeld'
    BY DEF IInv, TypeOK, TaskHeld, Insert
  <1>3. MutexHeld'
    BY DEF IInv, TypeOK, MutexHeld, Insert
  <1>4. Accounted'
    <2>1. PICK p \in MatchPairs : p = task[w]
      BY InsertTable
    <2>2. /\ table'[PairKey(p)] = p
          /\ \A q \in MatchPairs \ {p} : table'[PairKey(q)] = table[PairKey(q)]
      BY <2>1, InsertTable, KeyOfPair DEF IInv, TypeOK, Table
    <2>3. /\ UNCHANGED <<todo, task, empty, cancelled>>
          /\ pc' = [pc EXCEPT ![w] = "unlock"]
      BY DEF Insert
    <2>4. p \notin todo /\ p \notin empty /\ p # NULL
      BY <2>1, NullAssumption DEF IInv, Accounted, Busy
    <2>5. ASSUME NEW q \in MatchPairs
          PROVE  /\ table'[PairKey(q)] \in {q, NULL}
                 /\ table'[PairKey(q)] = NULL =>
                       q \in todo' \/ Busy(q)' \/ q \in empty' \/ cancelled'
                 /\ q \in todo' => ~Busy(q)' /\ q \notin empty' /\ table'[PairKey(q)] = NULL
                 /\ q \in empty' => ~Busy(q)' /\ table'[PairKey(q)] = NULL
      BY <2>2, <2>3, <2>4 DEF IInv, Accounted, Busy
    <2>6. ASSUME NEW v \in Worker, pc'[v] \in {"compute", "lock", "locate", "insert"}
          PROVE  table'[PairKey(task'[v])] = NULL
      <3>1. v # w /\ pc[v] = pc'[v]
        BY <2>3, <2>6 DEF IInv, TypeOK
      <3>2. task[v] \in MatchPairs \ {p}
        BY <2>1, <2>6, <3>1 DEF IInv, TypeOK, TaskHeld
      <3> QED
        BY <2>2, <2>3, <2>6, <3>1, <3>2 DEF IInv, Accounted
    <2>7. ASSUME NEW v \in Worker, pc'[v] = "unlock"
          PROVE  table'[PairKey(task'[v])] = task'[v]
      <3>1. CASE v = w
        BY <2>1, <2>2, <2>3, <3>1
      <3>2. CASE v # w
        <4>1. pc[v] = "unlock" /\ pc[w] = "insert"
          BY <2>3, <2>7, <3>2 DEF IInv, TypeOK, Insert
        <4> QED
          BY <3>2, <4>1 DEF IInv, MutexHeld
      <3> QED
        BY <3>1, <3>2
    <2> QED
      BY <2>5, <2>6, <2>7 DEF Accounted
  <1>5. AfterFinish'
    BY DEF IInv, TypeOK, AfterFinish, Insert, readerVars
  <1> QED
    BY <1>1, <1>2, <1>3, <1>4, <1>5 DEF IInv

LEMMA UnlockInv == ASSUME IInv, NEW w \in Worker, Unlock(w) PROVE IInv'
  <1>1. TypeOK'
    BY DEF IInv, TypeOK, Unlock, readerVars, Stage
  <1>2. TaskHeld'
    BY DEF IInv, TypeOK, TaskHeld, Unlock
  <1>3. MutexHeld'
    BY NullAssumption DEF IInv, TypeOK, MutexHeld, Unlock
  <1>4. Accounted'
    BY NullAssumption DEF IInv, TypeOK, TaskHeld, Accounted, Busy, Unlock
  <1>5. AfterFinish'
    BY DEF IInv, TypeOK, AfterFinish, Unlock, readerVars
  <1> QED
    BY <1>1, <1>2, <1>3, <1>4, <1>5 DEF IInv

LEMMA ThrowInv == ASSUME IInv, NEW w \in Worker, Throw(w) PROVE IInv'
  <1>1. TypeOK'
    BY DEF IInv, TypeOK, Throw, readerVars, Stage, Table, NoTable
  <1>2. TaskHeld'
    BY DEF IInv, TypeOK, TaskHeld, Throw
  <1>3. MutexHeld'
    BY DEF IInv, TypeOK, MutexHeld, Throw
  <1>4. Accounted'
    BY NullAssumption DEF IInv, TypeOK, TaskHeld, Accounted, Busy, Throw
  <1>5. AfterFinish'
    BY DEF IInv, TypeOK, AfterFinish, Throw, readerVars
  <1> QED
    BY <1>1, <1>2, <1>3, <1>4, <1>5 DEF IInv

\* The signal, the reader and steps that change nothing.
LEMMA OthersInv ==
    ASSUME IInv, Finish \/ (\E q \in Queries : Read(q)) \/ UNCHANGED vars PROVE IInv'
  <1>1. CASE Finish
    BY <1>1 DEF IInv, TypeOK, TaskHeld, MutexHeld, Accounted, Busy, AfterFinish, Finish,
                workerVars, readerVars
  <1>2. CASE \E q \in Queries : Read(q)
    <2>1. PICK q \in Queries : Read(q)
      BY <1>2
    <2>2. PICK p \in MatchPairs : p = Lookup(q).pair
      BY Matched
    <2>3. PairKey(p) \in Keys /\ table[PairKey(p)] \in {p, NULL}
      BY <2>2, KeyOfPair DEF IInv, Accounted
    <2>4. /\ query' = q /\ early' = ~finished
          /\ answer' = IF \E w \in Worker : pc[w] = "insert"
                       THEN UNDEFINED ELSE table[PairKey(p)]
          /\ UNCHANGED workerVars /\ finished' = finished
      BY <2>1, <2>2 DEF Read
    <2>5. answer' \in MatchPairs \cup {NULL, UNDEFINED} /\ early' \in BOOLEAN
      BY <2>3, <2>4 DEF IInv, TypeOK
    <2>6. TypeOK'
      BY <2>4, <2>5 DEF IInv, TypeOK, workerVars
    <2>7. AfterFinish'
      <3>1. finished => \A w \in Worker : pc[w] # "insert"
        BY <2>4 DEF IInv, AfterFinish
      <3> QED
        BY <2>2, <2>3, <2>4, <3>1 DEF IInv, TypeOK, AfterFinish, workerVars
    <2> QED
      BY <2>4, <2>6, <2>7 DEF IInv, TaskHeld, MutexHeld, Accounted, Busy, workerVars
  <1>3. CASE UNCHANGED vars
    BY <1>3 DEF IInv, TypeOK, TaskHeld, MutexHeld, Accounted, Busy, AfterFinish,
                vars, workerVars, readerVars
  <1> QED
    BY <1>1, <1>2, <1>3

\* IInv holds always, whatever the workers do (nfpcache.cpp:93-139).
THEOREM CacheInvariant == Spec => []IInv
  <1>1. IInv /\ [Next]_vars => IInv'
    <2> SUFFICES ASSUME IInv, [Next]_vars PROVE IInv'
      OBVIOUS
    <2>1. CASE \E w \in Worker : Step(w)
      BY <2>1, TakeInv, ComputeInv, ComputeEmptyInv, LockInv, LocateInv, InsertInv, UnlockInv,
         ThrowInv DEF Step
    <2>2. CASE Finish \/ (\E q \in Queries : Read(q)) \/ UNCHANGED vars
      BY <2>2, OthersInv
    <2> QED
      BY <2>1, <2>2 DEF Next, Blocked
  <1> QED
    BY InitInv, <1>1, PTL DEF Spec

\* When nfpBuildFinished comes and nothing has thrown, every pair is accounted
\* for: stored under its key, or its computation gave nothing.
THEOREM CacheComplete == Spec => []FinishedIsComplete
  <1>1. IInv => FinishedIsComplete
    BY NullAssumption DEF IInv, TypeOK, TaskHeld, Accounted, Busy, AfterFinish, FinishedIsComplete
  <1> QED
    BY <1>1, CacheInvariant, PTL

\* After nfpBuildFinished every question is answered with the polygon of its own pair; before,
\* with that or with no paths, unless the question races with an insertion.
THEOREM CacheAnswersOwn == Spec => []AnswerIsOwn
  <1>1. IInv => AnswerIsOwn
    <2> SUFFICES ASSUME IInv, query # NULL, ~early
                 PROVE  \/ answer = Lookup(query).pair
                        \/ answer = NULL /\ (Lookup(query).pair \in empty \/ cancelled)
      BY DEF IInv, AfterFinish, AnswerIsOwn
    <2>1. PICK p \in MatchPairs : p = Lookup(query).pair
      BY Matched DEF IInv, TypeOK
    <2>2. answer = table[PairKey(p)] /\ (p \notin todo \/ cancelled)
      BY <2>1 DEF IInv, AfterFinish
    <2>3. answer = table[PairKey(p)] /\ ~Busy(p)
      BY <2>1, NullAssumption DEF IInv, TypeOK, TaskHeld, AfterFinish, Busy
    <2> QED
      BY <2>1, <2>2, <2>3 DEF IInv, Accounted
  <1> QED
    BY <1>1, CacheInvariant, PTL

\* What has been stored stays: no insertion loses the entry of another.
THEOREM CacheEntriesStay == Spec => EntriesStay
  <1>1. IInv /\ [Next]_vars => [\A k \in Keys : table[k] # NULL => table'[k] = table[k]]_vars
    <2> SUFFICES ASSUME IInv, Next, NEW k \in Keys, table[k] # NULL PROVE table'[k] = table[k]
      OBVIOUS
    <2>1. CASE \E w \in Worker : Insert(w)
      BY <2>1, InsertTable DEF IInv, TypeOK, Table
    <2>2. CASE table' = table
      BY <2>2
    <2> QED
      BY <2>1, <2>2 DEF Next, Step, Take, Compute, ComputeEmpty, Lock, Locate, Unlock, Throw,
                        Finish, Read, Blocked, workerVars, vars
  <1> QED
    BY <1>1, CacheInvariant, PTL DEF Spec, EntriesStay
=============================================================================
