------------------------------ MODULE NfpCache -------------------------------
(***************************************************************************)
(* The build of the cache of no-fit polygons (NfpCache::run,               *)
(* BuildFitPolygon) and the questions that are asked of it.                *)
(*                                                                         *)
(* QtConcurrent::map hands the pairs of m_match_pairs to the workers of    *)
(* the thread pool, each pair to one of them.  A worker computes the       *)
(* polygon without any lock and stores it in g_NFP_Cache, an unordered_map *)
(* that is shared by all, under g_cache_mutex.  When all workers are done  *)
(* the watcher signals nfpBuildFinished.  Questions read the table without *)
(* a lock, and without asking whether the build is over.                   *)
(* The polygon of a pair is written as the pair.                           *)
(***************************************************************************)
EXTENDS NfpPairs

CONSTANTS
    Worker,     \* threads of the global thread pool
    NULL,       \* no pair, no polygon, the owner of a free mutex
    UNDEFINED   \* what is copied from an entry in the middle of an insertion

VARIABLES
    todo,       \* pairs of m_match_pairs that no worker has taken
    task,       \* the pair that each worker has
    pc,         \* where each worker is in BuildFitPolygon
    empty,      \* pairs for which getAllResult left allResult empty
    mutex,      \* g_cache_mutex, the holder
    table,      \* g_NFP_Cache
    found,      \* g_NFP_Cache as the insertion in progress found it
    cancelled,  \* QtConcurrent has caught an exception
    finished,   \* nfpBuildFinished has been signalled
    query,      \* the last question
    answer,     \* the entry that was fetched for it
    early       \* not in the code: it was asked before nfpBuildFinished

workerVars == <<todo, task, pc, empty, mutex, table, found, cancelled>>
readerVars == <<query, answer, early>>
vars == <<workerVars, finished, readerVars>>

Keys == {PairKey(p) : p \in MatchPairs}

ASSUME NullAssumption ==
    /\ NULL \notin MatchPairs \cup Worker \cup Queries
    /\ UNDEFINED \notin MatchPairs \cup {NULL}

Stage == {"idle", "compute", "lock", "locate", "insert", "unlock"}
Table == [Keys -> MatchPairs \cup {NULL}]
NoTable == [k \in Keys |-> NULL]

TypeOK ==
    /\ todo \subseteq MatchPairs
    /\ task \in [Worker -> MatchPairs \cup {NULL}]
    /\ pc \in [Worker -> Stage]
    /\ empty \subseteq MatchPairs
    /\ mutex \in Worker \cup {NULL}
    /\ table \in Table
    /\ found \in [Worker -> Table]
    /\ cancelled \in BOOLEAN
    /\ finished \in BOOLEAN
    /\ query \in Queries \cup {NULL}
    /\ answer \in MatchPairs \cup {NULL, UNDEFINED}
    /\ early \in BOOLEAN

\* MatchPair has run in the constructor, run has called QtConcurrent::map.
Init ==
    /\ todo = MatchPairs
    /\ task = [w \in Worker |-> NULL]
    /\ pc = [w \in Worker |-> "idle"]
    /\ empty = {}
    /\ mutex = NULL
    /\ table = NoTable
    /\ found = [w \in Worker |-> NoTable]
    /\ cancelled = FALSE
    /\ finished = FALSE
    /\ query = NULL
    /\ answer = NULL
    /\ early = FALSE

(***************************************************************************)
(* The workers                                                             *)
(***************************************************************************)

\* QtConcurrent calls BuildFitPolygon on a pair.
Take(w, p) ==
    /\ pc[w] = "idle"
    /\ ~cancelled
    /\ p \in todo
    /\ todo' = todo \ {p}
    /\ task' = [task EXCEPT ![w] = p]
    /\ pc' = [pc EXCEPT ![w] = "compute"]
    /\ UNCHANGED <<empty, mutex, table, found, cancelled, finished, readerVars>>

\* getAllResult gives polygons.
Compute(w) ==
    /\ pc[w] = "compute"
    /\ pc' = [pc EXCEPT ![w] = "lock"]
    /\ UNCHANGED <<todo, task, empty, mutex, table, found, cancelled, finished, readerVars>>

\* It gives none: a line in the log and an early return, nothing is stored.
ComputeEmpty(w) ==
    /\ pc[w] = "compute"
    /\ empty' = empty \cup {task[w]}
    /\ task' = [task EXCEPT ![w] = NULL]
    /\ pc' = [pc EXCEPT ![w] = "idle"]
    /\ UNCHANGED <<todo, mutex, table, found, cancelled, finished, readerVars>>

\* Mutant of Lock: nobody waits for the mutex.
LockAtOnce(w) ==
    /\ pc[w] = "lock"
    /\ mutex' = w
    /\ pc' = [pc EXCEPT ![w] = "locate"]
    /\ UNCHANGED <<todo, task, empty, table, found, cancelled, finished, readerVars>>

\* g_cache_mutex.lock()
Lock(w) ==
    /\ pc[w] = "lock"
    /\ mutex = NULL
    /\ mutex' = w
    /\ pc' = [pc EXCEPT ![w] = "locate"]
    /\ UNCHANGED <<todo, task, empty, table, found, cancelled, finished, readerVars>>

\* g_NFP_Cache[key] = ... is two steps for any other thread: the search that
\* finds the bucket, and the link that writes it.
Locate(w) ==
    /\ pc[w] = "locate"
    /\ found' = [found EXCEPT ![w] = table]
    /\ pc' = [pc EXCEPT ![w] = "insert"]
    /\ UNCHANGED <<todo, task, empty, mutex, table, cancelled, finished, readerVars>>

Insert(w) ==
    /\ pc[w] = "insert"
    /\ table' = [found[w] EXCEPT ![PairKey(task[w])] = task[w]]
    /\ found' = [found EXCEPT ![w] = NoTable]
    /\ pc' = [pc EXCEPT ![w] = "unlock"]
    /\ UNCHANGED <<todo, task, empty, mutex, cancelled, finished, readerVars>>

\* Mutant of Unlock: the mutex is not given back.
UnlockNever(w) ==
    /\ pc[w] = "unlock"
    /\ task' = [task EXCEPT ![w] = NULL]
    /\ pc' = [pc EXCEPT ![w] = "idle"]
    /\ UNCHANGED <<todo, empty, mutex, table, found, cancelled, finished, readerVars>>

\* g_cache_mutex.unlock()
Unlock(w) ==
    /\ pc[w] = "unlock"
    /\ mutex' = NULL
    /\ task' = [task EXCEPT ![w] = NULL]
    /\ pc' = [pc EXCEPT ![w] = "idle"]
    /\ UNCHANGED <<todo, empty, table, found, cancelled, finished, readerVars>>

\* An allocation fails, in the computation or in the map.  The exception leaves
\* BuildFitPolygon as it is, past an unlock that is a plain call, and QtConcurrent
\* cancels the pairs that are left.
Throw(w) ==
    /\ pc[w] \in {"compute", "insert"}
    /\ cancelled' = TRUE
    /\ task' = [task EXCEPT ![w] = NULL]
    /\ found' = [found EXCEPT ![w] = NoTable]
    /\ pc' = [pc EXCEPT ![w] = "idle"]
    /\ UNCHANGED <<todo, empty, mutex, table, finished, readerVars>>

\* The future is done: the watcher emits finished, which is nfpBuildFinished.
Finish ==
    /\ ~finished
    /\ cancelled \/ todo = {}
    /\ \A w \in Worker : pc[w] = "idle"
    /\ finished' = TRUE
    /\ UNCHANGED <<workerVars, readerVars>>

(***************************************************************************)
(* The reader                                                              *)
(***************************************************************************)

\* readItemAndItemNfp or readSheetAndItemIfp: a copy of the entry, or no paths.  In the
\* middle of an insertion that is a data race, and what is copied may be anything.
Read(q) ==
    /\ query' = q
    /\ early' = ~finished
    /\ answer' = IF \E w \in Worker : pc[w] = "insert"
                 THEN UNDEFINED
                 ELSE table[PairKey(Lookup(q).pair)]
    /\ UNCHANGED <<workerVars, finished>>

\* An exception has left the mutex locked and every worker that is left waits.
Blocked ==
    /\ mutex # NULL /\ pc[mutex] = "idle"
    /\ \A w \in Worker : pc[w] \in {"idle", "lock"}
    /\ \E w \in Worker : pc[w] = "lock"
    /\ UNCHANGED vars

Step(w) ==
    \/ \E p \in MatchPairs : Take(w, p)
    \/ Compute(w)
    \/ ComputeEmpty(w)
    \/ Lock(w)
    \/ Locate(w)
    \/ Insert(w)
    \/ Unlock(w)
    \/ Throw(w)

Next ==
    \/ \E w \in Worker : Step(w)
    \/ Finish
    \/ \E q \in Queries : Read(q)
    \/ Blocked

\* The scheduler runs every worker that can run, and the future reports its end.
\* Nobody need ask a question.
Fairness == WF_vars(Finish) /\ \A w \in Worker : WF_vars(Step(w))

Spec == Init /\ [][Next]_vars /\ Fairness

(***************************************************************************)
(* What makes the cache correct                                            *)
(***************************************************************************)

\* No polygon is lost: when nfpBuildFinished is signalled and nothing has thrown,
\* each pair is in the table under its key, or its computation gave nothing.
\* Breaks when two insertions overlap or when two pairs share a key.
FinishedIsComplete ==
    finished /\ ~cancelled =>
        \A p \in MatchPairs : table[PairKey(p)] = IF p \in empty THEN NULL ELSE p

\* A question that is asked after nfpBuildFinished is answered with the polygon of its
\* own pair, and with no paths only if the pair had none or the build was cut short.  One
\* that is asked before may find no paths yet, or anything if it falls into an insertion.
AnswerIsOwn ==
    query # NULL =>
        LET p == Lookup(query).pair
        IN  \/ answer = p
            \/ answer = NULL /\ (p \in empty \/ cancelled)
            \/ answer \in {NULL, UNDEFINED} /\ early

\* "Data in the hash table can only be copied, std::move is forbidden"
\* (nfpcache.cpp:416): an entry, once written, is never lost or replaced.
EntriesStay ==
    [][\A k \in Keys : table[k] # NULL => table'[k] = table[k]]_vars

\* The build ends, unless an exception has cut it short.  (Without the exception
\* in mid-insertion the mutex is always given back.)
BuildEnds == <>(finished \/ cancelled)

(***************************************************************************)
(* The invariant that the proofs use.                                      *)
(***************************************************************************)

\* A worker has a pair while it is at work, and no other worker has it.
TaskHeld ==
    /\ \A w \in Worker : task[w] # NULL <=> pc[w] # "idle"
    /\ \A v, w \in Worker : task[v] = task[w] /\ task[v] # NULL => v = w

\* So the insertion in progress, of which there is one, knows the whole table.
MutexHeld ==
    /\ \A w \in Worker : pc[w] \in {"locate", "insert", "unlock"} => mutex = w
    /\ \A w \in Worker : pc[w] = "insert" => found[w] = table

\* A pair is to be done, under way, stored or known to be empty; only an
\* exception takes it out of the account.
Busy(p) == \E w \in Worker : task[w] = p
Accounted ==
    /\ \A p \in MatchPairs :
          /\ table[PairKey(p)] \in {p, NULL}
          /\ table[PairKey(p)] = NULL => p \in todo \/ Busy(p) \/ p \in empty \/ cancelled
          /\ p \in todo => ~Busy(p) /\ p \notin empty /\ table[PairKey(p)] = NULL
          /\ p \in empty => ~Busy(p) /\ table[PairKey(p)] = NULL
    /\ \A w \in Worker :
          /\ pc[w] \in {"compute", "lock", "locate", "insert"} => table[PairKey(task[w])] = NULL
          /\ pc[w] = "unlock" => table[PairKey(task[w])] = task[w]

\* After nfpBuildFinished nobody writes, and the answer is what the table has; before,
\* it is what the table had, unless it is the outcome of a race.
AfterFinish ==
    /\ finished => (cancelled \/ todo = {}) /\ \A w \in Worker : pc[w] = "idle"
    /\ query # NULL =>
         IF early THEN answer \in {Lookup(query).pair, NULL, UNDEFINED}
                  ELSE finished /\ answer = table[PairKey(Lookup(query).pair)]

IInv == TypeOK /\ TaskHeld /\ MutexHeld /\ Accounted /\ AfterFinish
=============================================================================
