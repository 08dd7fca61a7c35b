# A verification model of Not-Fit-Polygon

The repository computes no-fit polygons (NFP) and inner-fit polygons (IFP) for nesting: for two
parts, the outline along which one may touch the other. It does so for every pair of parts in
every orientation, on a pool of threads, and keeps the results in a cache. This directory holds
TLA+ modules of the parts of that program, the TLC configurations that check them on small
instances, and TLAPS proofs of what matters most for all instances.

Line numbers refer to the files under `src/`.

## 1. Inventory

| part | source | state | operations |
|---|---|---|---|
| Memory pool, level 1 `ThreadCache` | `MemoryPool/ThreadCache.*` | per thread two intrusive free lists and their lengths | `allocate`, `deallocate`, `fetchFromCentralCache` |
| Level 2 `CentralCache` | `MemoryPool/CentralCache.*` | a spin lock per class | `fetchRange`: takes a span, cuts it into a chain |
| Level 3 `PageCache` | `MemoryPool/PageCache.*` | mutex, map of spans | `allocateSpan`, `systemAlloc`, `releaseAllSpanstoOS` |
| `Vert`, `Segment` | `MemoryPool/Vert_Segment.*` | geometry; the lists of segments at a vertex; links | `init`, `reset`, `operator new/delete` (into the pool) |
| Thread-local object pool | `objectpool/objectpool.h` | a list of free objects per thread and type | `initialize`, `acquire`, `release` |
| Shared object pool (unused) | `MemoryPool/ObjectPool.h` | queue, mutex, counters | `acquire`, `release`, `warmup`, `clear` |
| `NfpCache` | `NfpCache/*` | the pairs to compute, the global hash table and its mutex, a future | `MatchPair`, `run`, `BuildFitPolygon`, `readItemAndItemNfp`, `readSheetAndItemIfp` |
| `FitPolygon` | `FitPolygons/fitpolygon.*` | results of one pair | `getNfpResult`, `getIfpResult`, `getAllResult` |
| `Nfp` | `FitPolygons/nfp.*` | trajectories by direction, outlines | `nfp_line`, `simplifySeg`, `processOverlap`, `judgeLinkSegmentFromVerts`, `findPolygon` |
| `Ifp` | `FitPolygons/ifp.*` | outlines | `findPolygon`, the rest as `Nfp` |
| `SweepLine` | `SweepLine/*` | event queue, status (a `std::set` whose comparator reads the moving `currentX`), all segments | `run`, the two handlers, `intersect`, the cuts |
| DXF input | `Dxf-Input-Output/mycreationdxf.*` | lists of lines, arcs and polylines with flags | chaining into outlines, `ProcessPolyline`, `TransformCCW`, `run` |
| DXF output | `Dxf-Input-Output/*` | layers | formatting |

How they interact: `NfpCache::run` gives each pair to `BuildFitPolygon` on a worker of the global
thread pool. The worker builds a `FitPolygon`, which runs `Nfp` (and `Ifp` for sheets); `Nfp`
collects segments, `SweepLine` cuts them where they meet, `Nfp` links the pieces and walks the
outlines. Every `Vert` and `Segment` on that way comes from the object pool and the memory pool
of the worker's thread. The worker stores the result in the shared table under a mutex; the
watcher signals `nfpBuildFinished`; from then on the program reads, without a lock.

What is hard:

* **Concurrency.** Free lists without locks, with blocks that one thread allocates and another
  frees; a spin lock held over a mutex; two-step insertions into a `std::map` and an
  `unordered_map`; exceptions past a plain `unlock()`; reads without a lock.
* **Order.** Nine rules order the events at one x; the order in the status changes with the sweep
  line; the status is searched by geometry, not by identity.
* **Agreement of code written apart.** `CreatePair` and the six cases of the lookup; the eight
  copies of the cut; the links at a vertex and the walks along them.
* **Ownership.** A vertex belongs to a segment, then to the sweep; it is replaced by another one,
  dropped, put on the lists of its segments and taken off, and given back to a pool that hands it
  to the next job.
* **Sequences of steps.** A list that is changed while it is compared with itself (`simplifySeg`);
  chains of lines that are begun and taken back; walks that may not end.
* **Failure.** A null from the system, an empty polygon, an exception in a worker.

What makes each part correct is listed with its module below, and every hazard, with its line, in
`PROJECT.json`.

## 2. Modules

| module | models | composed from |
|---|---|---|
| `Allocator` | what `MemoryPool.h` promises | |
| `MemoryPool` | the three levels of the pool | implements `Allocator` |
| `NfpPairs` | which pairs are computed, their keys, the six cases; the group of orientations as reference | |
| `NfpLookup` | a program that asks one question after another; polygons that are turned and mirrored | `NfpPairs` |
| `NfpCache` | the build on the workers, and the reads | `NfpPairs` |
| `SweepComparators` | `EventComp`, `SegmentComparator` | |
| `Plane` | points and products | |
| `SweepLine` | the sweep | `SweepComparators`, `Plane` |
| `Outlines` | linking and walking, for `Nfp` and for `Ifp` | `Plane` |
| `Trajectories` | `nfp_line` and `simplifySeg` | `Plane` |
| `Nfp` | `Nfp::run`; the no-fit polygon by its definition | `Trajectories`, `SweepLine`, `Outlines` |
| `FitPolygon` | one pair, parts or a sheet, with holes | `Nfp` |
| `Objects` | who has which `Vert` and `Segment`, and the object pools | |
| `Drawing` | from the entities of a drawing to outlines | |
| `MC...` | instances for TLC | |
| `...Proofs` | theorems; `NfpLookupProofs` has those of `NfpPairs` too, `FitPolygonProofs` those of `Trajectories` and `Nfp` | the module named |

### Memory pool

State and actions follow the code one to one. A block is `<<span, slot>>`. `word` is the first
word of every block: the link while the block is free and program data (`Payload`) while it is
live, so that a block that is handed out twice destroys a list in the model as it would in
memory. `allocate` is `Hit`, or `Miss` followed by the stages of a fetch: `SpinLock`, `LockPages`,
`SystemAlloc` or `SystemAllocFails`, `LocateNode`, `InsertNode`, `Carve`, `Install`, or
`ReturnNull`. `spanMap_[p] = span` is two actions, because it is not atomic for a thread that does
not hold the mutex. `Deallocate` may be called by any thread on any live block. `ThreadExit` ends
a `thread_local` instance. `ReleaseAll` is `releaseAllSpanstoOS`; it has no caller in the
repository, and the model calls it only when nothing is live, no list has a block and no fetch is
under way (`Quiescent`): called earlier it unmaps memory that is in use. An exception of `new Span` or of
the map's node after the `mmap` (`PageCache.cpp:25-30`) is left out: `InsertNode` never fails. (The
locks would be released, as they are guards; the pages would stay mapped and unrecorded.) When a null reaches
`operator new` what follows is undefined, and the thread stops there.

Sequential consistency is assumed. The flag of the spin lock is acquired and released with the
orders that make it so for what it protects; the lists are touched by their own thread only.

### NFP pairs and lookup

A pair is a record, a key is the set of its bits, a question is two items with their orientations.
Turns are counted in half steps, 2n to a full turn, since 180 degrees need not be a whole
step. `LookupItems` is the six cases of `readItemAndItemNfp`: the entry that is fetched, and the
mirror and turn applied to the copy. It is checked in two ways: against the group of orientations
and two laws of the no-fit polygon (`LookupIsRight`), and against the differences of points
themselves, with no law (`LookupIsDifference`, for quarter turns: these keep coordinates whole).

### NFP cache

A polygon is written as its pair. `Take`, `Compute` or `ComputeEmpty`, `Lock`, `Locate`, `Insert`, `Unlock`
are the steps of `BuildFitPolygon`; `Throw` is an exception out of it, past the unlock; `Finish` is the
signal; `Read` is a question. Nothing in the code keeps a question from coming before the signal, so `Read`
has no guard: an early one may find nothing, and one that falls into an insertion is a data race, whose
outcome is written `UNDEFINED`. No caller is in the repository. `AnswerIsOwn` promises the right answer
after the signal, and excuses the misses and races of `early` questions. `Blocked` is the state in which an
exception has left the mutex locked and the remaining workers wait: there the real program hangs, and
`BuildEnds` accordingly promises an end only if nothing has thrown.

### Sweep comparators

`EventComp` is the nine rules in their order; heights of a segment at the sweep line and one unit further
are all that `SegmentComparator` asks of it (`Seen`). Whether they are orders is asked of what the
containers hold during a sweep (`QueueIsOrdered`, `OrderedUnlessChained`). The queue's always is. The
status' is not: "less than 3 apart" is not transitive. `Chained` is the one way in which it fails, in both
directions: three heights that lie 3 units or more apart in two steps that are less, where the comparator
takes neither step for a rise. `StatusIsSorted` is what the set relies on without checking: the place that a
segment was given when it went in is right later on, although the line has moved.

### Sweep line

A `Vert` is its point; the input is made of points that are distinct as the code makes them
(`vertexDeduplicate`). One action runs one event's handler to its end, the program is sequential.
`Meet` is `processIntersect` and `processIntersectPrevNext`, `Cut` one of the cuts they make: the
segment keeps its left part and its line, the rest is a new segment. Where the code leaves a choice
the model has all of them: events that `EventComp` does not tell apart, and the place at which
`std::set` inserts or finds when the comparator, for the moment, is not an order.

Heights are exact fractions in parts of `Unit`, and the comparator's doubles are not modelled: what a
rounding error in a height may change is left out. `Leftmost` is `LLONG_MIN`, the position before the first
event; TLC, whose integers have 32 bits, is given a number below all coordinates. The rounding of a crossing
to the grid is modelled, as `llround` does it. `Unit` must exceed the product of two widths for heights of
different segments to differ whenever they do (`MCUnit`).

The model was compared with the compiled `sweepline.cpp` on all triples and quadruples of a grid of step 30:
each result of the program is one of those of the model, and the two counterexamples below of `AllAreFound`
and `ResultIsNotEmpty` happen in it too.

### Outlines

`Link` is a round of `judgeLinkSegmentFromVerts`, with the sort and the ring of
`judgeLinkSegmentCurrentFromIntersection`; `Look` and `Drop` are the first loop of `findPolygon` and
the loop in it; `ChooseOutside`, or `ChooseFirst` of an `Ifp`, `Step` and `Close` are the walks.
A vertex's round does not depend on the others', so `verts` is a set and their order is left open.
Angles are compared exactly by vectors; rays of one angle come in any order, since rounding and the
unstable sort decide. In the run of its own the module takes any pieces: that they come from a
sweep is not assumed.

### Trajectories

`Supports` is the test in `nfp_line`, on both halves of it; `Rounds` are the turns of its loops, in the
order `Before`, and `PutLine` is one that puts a line down: `processSegment` appends it to the list of its
direction. Then `i` leaves 0 and `Resolve`, `NextSegment` and `NextGroup` are the loops of `simplifySeg`.
`Resolve` is one pair that overlaps: it calls `processOverlap`, whose cases are those of `Cancel` and
`Merge`. The loop over `n` goes on with the changed segment, as in the code, and is left when the segment
has gone. A null in the list is `NULL`; `Collected` lists what is left. Directions are the same when the
cross product is zero; the key, an angle in millionths, and the equality of two doubles `lb` are not
modelled further.

### Nfp and FitPolygon

`Nfp` composes the three modules over one set of variables: `PutAndSimplify` is a step of `nfp_line` or
`simplifySeg`, `Collect` is `vec_vec_seg2input` and the call of `sw.run` (which is left out when no segment
is left, `stage = "empty"`), `HandOver` the way from the sweep to the outlines. `FitPolygon` is
`getAllResult`: `Begin`, then `RemoveFakeHoles` for parts or `KeepInner` for a sheet, then hole after hole
(`NextHole`, `HoleDone`). `erase(remove_if(begin() + 1, ...))` on an empty list ends in the phase
"undefined". The early return at the first hole that is too small is in `NextHole`.

Against these stands the definition: a part, moved by a vector, overlaps what is filled. On a grid of
squares that are halved by a falling diagonal, all shapes with sides along the grid are sets of
triangles, two triangles overlap for exactly those vectors that `Hit` has, and `NoFit` is the no-fit
polygon as a set of triangles. This was compared with sets of points in a finer grid, and the model
with the compiled `nfp.cpp` and `ifp.cpp` on thousands of random pairs. Clipper2's `Intersect` and
`Difference` are not in the repository; they are intersections and winding numbers of such sets.
The part's centre, `m_center`, which `removeFakeHoles` moves to a point of the hole, is put at the
origin: outlines are those of vectors by which a part moves, so the two agree.

### Objects

The object pool, `Nfp::run` and the life of a `SweepLine`, with nothing but ownership: which segments
overlap or cross is open, and so is where vertices go in `processOverlap`. A pool is the number of times
that an object is in it; an object that is given back twice, or while it is in use, shows. A `Vert` that is
made when the pool is empty is one that was not made before. Lists at vertices are sets. `existlk`, which
`init` sets for a vertical segment only and `reset` sets back, is there with the links and the flag; a piece
of a vertical is vertical, and a piece of another segment keeps its slope (`sweepline.cpp:507-520`).
`processIntersect` is `Intersect` or `IntersectAtEnd`, `DropCrossing` or `InsertVerts`, and `Keep` or `Cut`
for each segment. The destructor is `ClearSegment` and `ClearVert`, in the order of the code.

### Drawing

`Start`, `LinkLine`, `LinkArc`, `GiveUp` and `Close` are the loop that `processLinesAndArcs`,
`processOnlyArc`, `processOnlyLine` and the second half of `ProcessPolyline` have in common, over
lines, then arcs, then polylines; with no arcs the second pass finds nothing, so the three
functions become one. `Mark` is the first half of `ProcessPolyline`, `Turn` is `TransformCCW`. Of a
bulge only value and sign matter, near points are equal points. `spoilt` is not in the code: it notes that
`TwoEdges` was given what it is not made for (`Spoils`).

## 3. Runs

| run | instance | shows |
|---|---|---|
| `pool` | 2 threads, 2 spans, 2 Verts or 1 Segment to a span, 1 thread end | refinement of `Allocator`, no block twice, spans recorded, lengths, no block lost, the inductive invariant, every allocation returns |
| `lookup` | ids 1 and 65535, sheets 0 and 1, 4 rotations and 4 mirrored | the computed entry, a key of its own, the right polygon |
| `cache` | 2 workers, 4 pairs that would share keys if the sheet bit were missing, questions at any time | completeness, own answers, stability, the end of the build |
| `sweep` | all triples of segments on a 3 x 3 grid of step 32, all quadruples across it, a narrow picture with a vertical | flow, few pieces, no event in the past, RIGHT events, all crossings, the order of the queue and of the status |
| `sweep_order` | the same | **violated**: at one x RIGHT comes before LEFT |
| `sweep_found` | a fan of 4 segments with a vertical | **violated**: a crossing is missed |
| `outlines` | every selection and direction of the 7 edges of two squares, one possibly doubled; `Nfp` and `Ifp` | links, rings, bounds, the end of the walks |
| `fit` | 12 shapes against each other; a cave, a frame, a plate with two holes and 4 sheets against 5 parts | nothing needed is lost, the outline is covered, the answer is the no-fit polygon |
| `nfp_empty` | a bar and a zigzag | **violated**: two parts without a no-fit polygon |
| `objects` | 4 vertices, 3 segments, 3 points, one segment and no vertex in the pools | each in one place, lists, nothing left of an earlier job, one vertex to a point |
| `drawing` | up to 2 lines and 2 arcs, or 3 and 1, on 3 points; no polyline or one of 8 | every edge once, the loops end |
| `drawing_closed` | the same | **violated**: what is flagged as closed is not |

Why these bounds: two threads are enough for every pairwise race on a lock, a map or a list, and the proofs
cover any number; two spans let one class fetch twice or both classes once; a span of one block and of more
than one are the two branches of `fetchRange`. Ids 1 and 65535 use all bits of a field, and item 1 and sheet
1 share an id. Three segments give every pair of neighbours with one in between, and all common endpoints,
crossings in endpoints, collinear touching segments and verticals that a 3 x 3 grid has. Its step of 32 is
no multiple of 3, so that crossings are rounded, to (13, 39), (16, 33) or (21, 43), say, and the bent pieces
meet others and are cut again. (Steps of 31, 33 and 50 pass as well.) `MCUnit` exceeds the product of two
widths, 64 times 64. Three chained heights do not fit a grid so wide; the picture `Steep`, a vertical, a
segment across it and a steep one that begins above it, has them, so that the equivalence
`OrderedUnlessChained` is met with both sides true and both sides false. Overlapping collinear segments are
not among the inputs of `sweep`; what `simplifySeg` leaves of them reaches the sweep in `fit`. Two squares
with a common edge have vertices of degree three, chains, rings inside and beside each other, and a doubled
edge. The shapes of `fit` have reflex vertices, sides that cancel and merge, exact fits, pockets and holes;
each of the nine cases of `processOverlap` occurs. In `objects` two segments that cross and a third from a
cut are all that one crossing involves, four vertices are two segments' own, and the pools run empty and
fill as a job gives its objects back. In `drawing` three points make every closed and open chain of up to
three edges, taken in every order and direction.

Bounds: `MaxExits` on ends of threads is the only counter that is cut.

Two properties have a premise. `PartsTouch` and `SheetIsFilled` are about runs in which `simplifySeg`
left no overlap and the sweep missed no crossing (`sound`); where it did, the result may be
anything, as `nfp_empty` and `sweep_found` show. In `fit` all but 6 of 266 runs are so, and
`BoundaryIsCovered` and `CoverageIsKept` have no such premise.

### Fairness

* `MemoryPool`: weak fairness of each thread's steps inside `allocate`: the scheduler runs every
  thread. No thread need call anything. Weak fairness of `SpinLock` suffices for
  `AllocationReturns` because spans are finite and never come back while a thread waits, so each
  lock is taken finitely often by others; in a run without end of memory the spin lock
  itself promises no bound.
* `NfpCache`: weak fairness of each worker and of the signal.
* `Outlines`, `Drawing`: weak fairness of the next step: a sequential program goes on.
* `SweepLine` has none; its termination is stated as the bound `PiecesAreFew`. `FitPolygon` and
  `Objects` have none either.

### Deviations found

1. `sweep_found`: a vertical that comes in where other segments end moves the
   sweep line to their common endpoint before their RIGHT events; `find` then misses, ended
   segments stay in the status, and a crossing further right is never tested
   (`sweepline.cpp:185`; `ReadMe.md:720, 780` promise otherwise). Without verticals `LeavesAtItsEnd` holds.
2. `nfp_empty`: after `processOverlap` has exchanged ends, `simplifySeg` does not compare the changed
   segment with those it has passed (`nfp.cpp:334-388`). What covers a stretch twice then spoils
   the links, and two parts may have no no-fit polygon, which `fitpolygon.cpp:179` reports as an error
   (after `begin() + 1` of an empty list at 68). The compiled program does the same. Nothing that is
   needed is lost on the way (`CoverageIsKept`, `BoundaryIsCovered`): it is the surplus that spoils the
   result.
3. `drawing_closed`: an open polyline is taken as closed if x or y of its ends agree
   (`mycreationdxf.cpp:191`), where the comment wants the points to be equal.
4. `sweep_order`: `ReadMe.md:497, 503, 510` and the table at 535 say that LEFT goes before RIGHT at one x;
   the code (`sweepline.h:82`) does the opposite for non-verticals, as its own comment (80) says. The code
   is right: with the order of the ReadMe `StatusIsSorted` and `AllAreFound` fail (that is the mutant
   `EventCompLeftFirst`).

Seen and not given a run:

* The status' comparator is no order on chained segments (`sweepline.h:109`), so where three segments of a
  picture lie few units apart `std::set` is undefined, and crossings are lost.
* Where three segments nearly meet in a point, rounding may move a piece over another one, within one unit
  of an endpoint of each. Such a sliver of a crossing stays: `AllAreFound` allows for it (`Beside`).
* An obstacle of a sheet with a pocket that is too small for the part: fake holes are removed for
  two parts only (`fitpolygon.cpp:34`), and `Difference` then takes the pocket for free.
* A part that fits a sheet exactly in one direction: between rectangles there is no place for it; on
  other sheets a ring around nothing may be kept. Hence the premise `room # {}` of `SheetIsFilled`.
* The first hole of a part that is too small ends the loop over its holes (`fitpolygon.cpp:99-100`
  return), those after it are not used.
* `TransformCCW` of two arcs that are both clockwise makes a straight line of one, and of an open
  polyline of three points it moves a clockwise arc to the other edge
  (`mycreationdxf.cpp:499-508`); `EachDrawnOnce` excepts both (`spoilt`). A polyline without
  vertices is undefined (`first()`). Chained outlines have no layer: it is never set.
* The comments on bits 48 and 49 of the key (`nfpcache.cpp:89-90`, the shifts are 49 and 50);
  the comment at `sweepline.h:111` and the ReadMe put verticals below, the code puts them above; the
  comment at `nfp.cpp:717` says x, the code compares y; `g_use_mem_pool` in `Vert_Segment.cpp:4` hides
  the flag of that name in `nfpcache.h:35`, so setting the latter in `NfpCache::run` does nothing.
* `Common.h:20` divides by `hardware_concurrency()`, which may be 0.

## 4. Proofs

All proofs are checked by TLAPS for every value of the constants that the named assumptions allow.

* **Memory pool** (`MemoryPoolProofs`; `BatchAssumption`, `ExitsAssumption`, `NullAssumption`). What a
  caller sees, that no block is handed out twice, is not inductive: it needs to know where every block is.
  `IInv` says so with single links only: locks belong to who the program counter says (`LocksHeld`); spans
  under way are distinct, mapped and not yet linked to anything (`InFlight`, `Chained`); live blocks belong
  to recorded spans that are not under way (`LiveBlocks`); links lead from free blocks to free blocks of the
  class, and no two meet (`FreeLinks`); heads are free, not shared, and nothing links to them (`Heads`).
  That lists end needs more, since walking back cannot be put into a formula without recursion: `Measured`
  is a measure that falls along every link, and is proved along with `IInv`. From `IInv` follow
  `PoolSpansRecorded`, `PoolHandsOutFree` and the refinement `PoolImplementsAllocator`. `SizeIsLength` and
  `NothingLost` walk along lists. That the walk of a list exists follows from the measure, at a block whose
  measure is the least among those without one (`WalksExist`); that each block held by a class is in a list,
  at one whose measure is the greatest (`FreeBlocksAreListed`). `SpanAssumption`, that spans are finitely
  many, makes these blocks exist.
* **Objects** (`ObjectsProofs`; `PoolAssumption`). That no object is in two places needs to know that a
  vertex which is given back has nobody else: before the sweep each vertex belongs to one end of one
  segment (`Owned`, `Ends`), a crossing that is new and one that was dropped to none (`Apart`), and
  a vertex of the sweep is told from the others by its point (`OneVertexPerPoint`); what is still to be
  done at each stage is `ByStage`. With `ListsAgree` and `FreshAgain`, which the deduplication and the
  cuts need, these make the inductive invariant. It holds for any number of objects, whatever
  crosses, in any number of jobs.
* **Sweep line** (`SweepLineProofs`; `UnitAssumption`, `InputsAssumption`: two different points to a
  segment, not to the left of the constant `Leftmost`, which stands for `LLONG_MIN`). The invariant does not
  ask what the status is for: whatever the comparator says, a cut divides a piece in two that meet where
  they were cut (`IsCut`), so the surplus at each point stays (`CutKeepsFlow`). That no event lies behind is
  geometry. What `intersect` returns is in the boxes of both segments: an endpoint on the other segment
  since the vectors to its ends point to opposite sides (`OnSegment`), a crossing since it divides both
  segments in a ratio below one and rounding does not leave two integers (`CrossingBetween`,
  `RoundedBetween`). A cut then moves no left end, and both of its events are at the cut (`CutGrows`). That
  a segment is in the status once needs the count of its LEFT events (`Sound`, `Entered`).
* **Outlines** (`OutlinesProofs`; `InputsAssumption`: a list of pairs of points, `NullAssumption`). While
  vertices are linked nothing is linked yet at those still to come (`Linking`), so that a round sets links
  of its own only, and one to one (`PairsAreOneToOne`). While chains are dropped, what nothing leads to has
  been dropped, is being dropped or lies ahead (`Dropping`). Then all that is left leads on and is led to,
  and the walk eats up the ring that it has opened from behind (`Walking`): the only link into what has gone
  leads to its start, so it ends there and nowhere else, after at most as many turns as pieces are left.
  That much, `LinksInv`, does not depend on outlines that were there before, and `Nfp` needs it so. If there
  were none, the sides of the outlines, kept or begun, have a piece each that has gone from the list
  (`Attributed`: a one-to-one function exists), which bounds how often a side is drawn (`OutlinesInv`).
* **Trajectories, Nfp, FitPolygon** (`FitPolygonProofs`; `InputsAssumption`: polygons that are paths, of
  which no difference of coordinates lies below `Leftmost`; `LeftmostAssumption`, `UnitAssumption`,
  `NullAssumption`, `NullIsNoIndex`). First `CoverageIsKept`, for polygons with any coordinates so bounded.
  The segments of a group have one direction (`LinesTypeOK`), so an end is a place along it on one of its
  lines, and whether a segment runs over a stretch is told by places (`TimesByPlace`). What `processOverlap`
  leaves of two segments that touch is then told by the order of four places, without a product
  (`OverlapOutcome`), and each of its outcomes takes from a stretch one run in each direction, one of two in
  the same, or nothing (`OverlapTakes`). No end of a group lies inside a stretch, so each segment has it
  whole or not at all (`StretchIsFree`), and what holds for two segments holds for the group (`GroupTakes`).
  Second the composition. `NfpInv` has, for each stage of a run, the invariant of the part that is at work,
  and the proof is that what one part hands over is what the next one needs: what is left of the
  trajectories (`CollectedIsHanded`, with `AllReached`) are pairs of different points that the sweep may be
  given, its pieces are a list for the outlines, and links and walks go well whatever `result` holds of an
  earlier hole. The proofs of the parts are not repeated: their modules are instantiated, and `RingSteps`
  and `LineSteps` say that a step of the part in `Nfp` is one of the part by itself. So in every run of a
  pair `FlowIsKept` and `NothingBehind` hold of the sweep, and `LinksAgree`, `OnlyRingsAreLeft` and
  `NoWalkIsCut` of the outlines (`SweepsAreSound`, `OutlinesStaySound`): `RunsAreWellFormed` is the type
  invariant of the composition.
* **Drawing** (`DrawingProofs`; `DrawingsAssumption`, `NullAssumption`). That every edge is drawn once is a
  balance: at each moment an edge is in the polylines as often as it was drawn plus as often as lines and
  arcs have been used for it (`Balanced`). While a chain is under way, lines and arcs count as they did
  before it (`Settled`), and those it has used since are its edges (`UnderWay`): hence nothing is out of
  balance when it is given up. A chain gets one edge longer by what is linked to it (`LongerChain`), joining
  one to a polyline adds up their edges (`JoinedTimes`), the edge that closes a polyline is counted from the
  start (`Plain`), and turning one round changes nothing but for what `spoilt` notes (`TurnedTimes`). Sums
  over lists are cardinalities of sets of places, which are finite.
* **Lookup** (`NfpLookupProofs`; `CountAssumption`, `FieldAssumption`, `ShapeAssumption`). Case by case the
  entry is one that `MatchPair` computes and equals the reference; the key is injective because the fields
  do not overlap. `CountAssumption` says that all items have the same number of rotations, which the code
  relies on (it wraps by B's count). `FieldAssumption` says that ids and indices fit 16 bits.
  `LookupIsDifference` shows that the reference, and with it the group and the laws it is written in, is
  that of the plane, for items of any shape: turns and mirrors add up (`TurnedTwice`, `TurnedMirrored`) and
  respect differences (`PlacedMinus`), a mirrored or exchanged pair is one that is turned back
  (`BackAndForth`, `HalfTurn`), so that the sets of differences agree point by point (`DifferenceInOrder`,
  `DifferenceOutOfOrder`).
* **Cache** (`NfpCacheProofs`). Every pair is to be done, under way, stored or empty, or an exception has
  cut the build short (`Accounted`), and an insertion in progress knows the whole table (`MutexHeld`).
* **Orders** (`SweepLineProofs`). In every sweep of every input the queue is ordered
  (`SweepOrdersItsQueue`): `EventComp` is the order by x, then by what comes in, ends or is vertical, then
  by y (`ByGroup`), on whatever has a type and integer coordinates, and the invariant of the sweep says that
  all events have (`IsEvent`). The status is ordered if and only if no three of its segments are chained
  (`SweepOrdersItsStatus`), near and far heights mixed as they come. A chain is no order, since its first
  segment has to come before its last, and no step does (`ChainIsNoOrder`); without one, three segments are
  ordered case by case (`ThreeSeen`), whatever is vertical. What the segments look like at the sweep line
  comes from the invariant too (`SeenIsSeen`): a quotient by a positive width.

Only model-checked:

* Liveness: `AllocationReturns`, `BuildEnds`, `WalksEnd`, `ReadingEnds`. The prover has no rule for fairness.
* Of the sweep `AllAreFound`, `LeavesAtItsEnd`, `StatusIsSorted` and `PiecesAreFew`: they depend on the
  order of the status and are false for some inputs (`sweep_found`), so no invariant of all inputs has them.
* `BoundaryIsCovered`, `PartsTouch` and `SheetIsFilled`, which compare outlines with filled areas. That a
  no-fit polygon is bounded by trajectories is a theorem of plane topology, and winding numbers are sums
  over a polygon's edges, which take induction over data.

## 5. Not modelled

* Rounding in doubles: heights in the status, slopes, intercepts and angles are exact. What
  `nfp.cpp:22` and 368 do near equality is therefore left out, and so is the overflow of 64-bit products.
* `keyOf` (`sweepline.h:15`) keeps 32 bits of a coordinate; a point is its own key here.
* The shared pool `MemoryPool/ObjectPool.h`: no code uses it.
* Circles, layers, and the output of drawings: they pass through unchanged or are formatting.
  `SizeClass`, `getNfpfromCache` and a second call of `NfpCache::run` (which replaces the future while
  workers may still write): nobody calls them.
* The user interface, Qt, Clipper2 and the DXF reader, which are not in the repository.

## 6. Plan

1. Proofs: conditions on the input under which the sweep finds all crossings. On the small grids
   `LeavesAtItsEnd` holds without verticals; a proof needs the status to be ordered by height between events.
2. Larger pictures for `fit`, with shapes whose crossings are rounded.
