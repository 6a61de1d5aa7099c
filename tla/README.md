# Verification of the cs798 multicore programs

`src/` holds seven assignments of a course on multicore programming. Each is a small
concurrent program in C++: shared counters, locks, hash tables, a multi-word
compare-and-swap with lists and trees on top of it, epoch-based memory reclamation, and
structures under hardware transactions. They are exactly the kind of code whose tests pass
for years: an assertion at the end of a timed run compares two checksums. This directory
models the algorithms in TLA+, checks them with TLC on small instances, and proves some of
them with TLAPS for every instance.

To check everything: `tlc -config X.cfg M.tla` for each run of PROJECT.json, `tlapm X_proofs.tla`
for the proofs.

## 1. Inventory

Each part: what it keeps, what it does, what is hard about it, and what makes it correct.

**Counters (a2/counters_impl.h, a2/workload_timed.cpp, a2/util.h).** Six counters behind
`inc` and `read`: a plain word, a word under a mutex, an atomic, an approximate counter
(per-thread shares flushed to a common word), and two sharded ones, one of which locks all
shards to read and one none. The workload starts threads behind a barrier, runs them until
a timer expires and prints the counter beside the number of increments. Hard: reads
that overlap increments, all-shard locking, uninitialised words, the barrier.
Correct: a read returns a count that held while it ran (up to the approximate counter's
error), the final value accounts for every increment, the experiment ends.

**Dekker's lock (a3/q3_2.cpp, a3/q3_3.cpp).** Two flags and a turn guard a counter; once
on `std::atomic`, once on `volatile` with fences. Hard: store buffers. Correct: exclusion,
no lost increment, nobody starves, and the fenced version does what the atomic one does.
`a3/q2.cpp` counts in words of its own per thread and shares two flags only.

**Fixed-size hash tables (a4/alg_a.h, alg_b.h, alg_c.h).** An array probed linearly from
`murmur3(key)`; a slot goes from EMPTY to a key to TOMBSTONE. A locks every slot it looks
at, B only slots it wants to change (and looks again), C uses compare-and-swap. The
benchmark's threads insert and erase random keys and keep a checksum of their successes.
Hard: what a thread saw of a slot is stale when it acts on it; a table without room; the
wrap of `h + i` at 2^32. Correct: linearizable set, no key twice, no key out of a search's
reach, the checksum.

**Expanding hash table (a4/alg_d.h).** Table C that grows: threads claim chunks of the old
array, mark every slot and re-insert the keys; approximate counters (a4/util.h) decide when.
Hard: inserts and erases go on in both arrays; helpers wait for a count of finished chunks.
Correct: the wait ends, and the table is a linearizable set throughout.

**KCAS (a5/kcas.h, a6/kcas/kcas_reuse_impl.h).** `execute` swaps up to k words if all have
their expected values. One KCAS descriptor and one RDCSS descriptor per thread, reused
under a growing sequence number; a word of memory may be a tagged pointer to one, and
whoever meets it helps. Hard: everything: late helpers, reused descriptors, values that
come back. Correct: linearizable, lock-free, no tag left behind.

**Lists (a5/doubly_linked_list_kcas.h, _reclaim.h).** Sorted doubly linked lists with a
mark in each node; insert and erase search without locks and then execute one KCAS of four
or five words. The second list retires erased nodes. Hard: searches on erased nodes, the
pointer that is *not* in the KCAS (`succ->next`), reused addresses. Correct: linearizable
set, well linked in both directions, no dangling pointer, lock-free.

**Trees (a6/trees/).** External binary search trees on KCAS: keys in the leaves, internal
nodes to route by, a mark in every node. An insert puts an internal node with two leaves in
the place of a leaf (three words), an erase puts a leaf's sibling in the place of its parent
(six words). One tree retires what it erases; a third is the sequential model. Hard: an erase
moves a whole subtree, so that a search may go down a path that was never there at one
instant; the sibling that erase has read may be replaced before it is moved. Correct:
linearizable set, always a search tree, erased nodes frozen, no dangling pointer, lock-free.

**Record manager (a5/recordmgr, a6/recordmgr: identical).** `reclaimer_debra` with
`pool_none` is what the lists and trees instantiate: operations announce the epoch they
read, the epoch advances when all announcements were seen at it, and a thread frees the
bag it filled a number of epochs ago. Hard: announcements are relaxed stores of a value
that may already be old; the scan is spread over many operations; helpers get pointers
that operations older than their own hold. Correct: no operation has a pointer to freed
memory; every retired record is freed once.

**Other reclaimers (a7/tree/bronson_pext_bst_occ/common/recordmgr).** The copy of the record
manager below a7's AVL tree also has reclaimers that pass a token round the threads, which is
all that a thread waits for before it frees (`reclaimer_token1`, compiled as token1 to token4, and
`reclaimer_ebr_token`), and one whose threads carry their announcements up a binary tree to
the epoch at its root (`reclaimer_ebr_tree`). Hard: the token and the announcements are plain
stores, bags that are swapped while the token is on its way, late threads that carry old values
up. Correct: nothing is freed before its grace period ends, and what is retired is freed as long as
all threads go on.

**Transactional structures (a7).** A hash table under elided locks (`libtle.so`, a binary)
that expands under the fallback lock, with approximate counters of inserts and deletes that
decide when and how far; and a search tree that runs sequential code in a transaction or,
after `MAX_RETRIES` aborts, under a lock, with and without nodes allocated beforehand. Hard:
what an insert read before it gave up its transaction; the counters' lag and the assertions
behind the loops; transactions that meet the holder of the lock while it unlinks and deletes
nodes in place; retries without end. Correct: linearizable sets, counters that agree with the
table, no deleted node met, calls return.

**Relaxed AVL tree (a7/tree/bronson_pext_bst_occ).** The tree that the benchmark of a7 compares
with. Nodes have a version, a height and a lock. Searches take no locks: they look at a node's
version before they go there and at the version of the node above once more, and back up if
that one has been rotated downwards. Updates lock from parent to child. An erase leaves a node with
two children in the tree, without a value. Whoever changes a node repairs heights and balance
on the way up, with single and double rotations. Its nodes go through another copy of DEBRA, with three bags. Hard: rotations
store pointer by pointer while searches pass; two repairs that meet; nodes that are retired
before they look unlinked; locks whose order the rotations turn round. Correct: linearizable set, nobody
meets a freed node, when all is quiet the tree is in balance, calls return.

`a1`, the plots, notebooks and recorded results have no shared state.

How they interact: benchmarks call structures from many threads and check their sums; lists
and trees call KCAS for every shared word and the record manager around every operation;
KCAS helpers read descriptors that hold pointers to list nodes, which is how the record
manager's promise depends on KCAS's habits.

## 2. Modules

| module | code | role |
|---|---|---|
| `SetObject` | (contract of all sets) | abstract: a linearizable set with calls, answers and what each call has witnessed |
| `ProbeTable` | alg_*.h, a4/benchmark.cpp | array, probe sequence, calls, checksum |
| `SlotLocks` | alg_a.h, alg_b.h | the mutex of a slot |
| `AlgorithmA`, `AlgorithmB`, `AlgorithmC` | alg_a.h, alg_b.h, alg_c.h | one table each |
| `FixedTables` | a4/benchmark.cpp | composes the three; `alg` is the one the benchmark was told to run |
| `LockedCounter` | q3_2.cpp, q3_3.cpp | what both programs share |
| `DekkerSC`, `DekkerTSO` | q3_2.cpp, q3_3.cpp | the lock on atomics; the lock on store buffers, which refines the former |
| `Counters`, `CounterWorkload` | a2 | the six counters; the barrier and the workload that uses them |
| `Counting` | a2, a3 | composes the three programs that count; `program` is the one that is run |
| `AtomicKcas` | (contract of kcas.h) | abstract: an atomic multi-word compare-and-swap and read |
| `Kcas` | a5/kcas.h, a6/kcas | the algorithm, refines `AtomicKcas` |
| `KcasList` | both lists of a5 | the lists on an atomic KCAS, refine `SetObject` |
| `KcasTree` | both KCAS trees of a6 | the trees on an atomic KCAS, refine `SetObject` |
| `AlgorithmD` | alg_d.h, a4/util.h | the table that expands, with its counters |
| `BenchmarkCalls` | a7 benchmarks | the calls, and what the structures of a7 share |
| `ElidedTable`, `ElidedTree` | hashtable.h, tree.h, tree_prealloc_internal.h, a7/common/util.h | one structure each |
| `AvlTree` | ccavl_impl.h, adapter.h | the relaxed AVL tree |
| `Benchmarks` | a7 benchmarks | composes the three; `program` is the one that is run; refines `SetObject` |
| `Processes`, `Records` | record_manager.h | the threads; the records, and the operations that use them |
| `Reclamation` | reclaimer_interface.h | abstract: what every reclaimer promises |
| `Debra` | reclaimer_debra.h, record_manager.h | epochs, bags, announcements; refines `Reclamation` |
| `TokenRing` | reclaimer_token1.h, reclaimer_ebr_token.h | the five token rings; refines `Reclamation` |
| `EpochTree` | reclaimer_ebr_tree.h | the epoch tree; refines `Reclamation` |
| `Reclaimers` | a7's recordmgr | composes the rings and the tree, as a structure chooses one |
| `MC*` | | instances for TLC |
| `*_proofs` | | theorems |

How state and actions correspond to the code:

* A local variable or `this` field is a variable of the same name, a function of the thread
  where every thread has its own. `pc` is where the thread is. Every access to shared
  memory is an action of its own; what follows it up to the next one is part of it.
* In `FixedTables`, `lock[s]` is the owner of slot s's mutex. B reads a slot that others
  write without a lock; the reads are modelled as atomic, which is what an aligned `int`
  does on the machines this was built for.
* In `DekkerTSO`, each thread has a FIFO of stores; loads look there first;
  `__sync_synchronize` waits for it to be empty. Two increments by one thread can have
  stores in flight at once. `endless`, chosen at the start, is of programs with more increments than ever come to an end
  (the code has TOTAL_INCREMENTS of them): their threads go round for ever, with the counter kept modulo `Increments`
  and no loop variable, and main never prints.
* In `Counters`, a counter's uninitialised words (`CounterFetchAndAdd::v`, the shards) hold
  any value of `Junk` at first, and all claims are relative to it. A share of `CounterApproximate`
  that begins with c * N or more counts as c * N - 1 (`Counts`): the first flush takes c * N, its own increment
  included, and the reset forgets the rest. Negative contents are left out: with them the counter would be
  silent for as long as the share climbs to its threshold. The plain word under or without a mutex
  is loaded and stored in two steps (`LoadV`, `StoreV`); the read that locks takes the mutexes one by one, and
  adds up word by word. `TEST_WRITE` is not defined in the build.
* In `Kcas`, a word is a value or a tag `<<"kcas"|"rdcss", thread, sequence number>>`.
  `frames[t]` is the stack of `help` calls of thread t, since help may help. Filling a
  descriptor and publishing it is one step: no tag of its new sequence number exists
  earlier, and with the old number it is as stale as afterwards. `past` keeps the descriptors that
  were reused, so that one can still say what a late tag once meant.
* In `KcasList`, `readPtr` and `execute` are one step each, as `Kcas` is checked to
  implement `AtomicKcas`. `where` follows each node's life. A retired node may be freed once
  the guards alive at its retirement are gone: what `Debra` guarantees. `reclaims` chooses
  between the two lists.
* `KcasTree` is built like `KcasList`: `gp`, `p`, `n` are what the search returns, `sibling` is
  `pOther`. A guard lasts for the whole call here (it is taken outside of the loop), so that a
  call that starts over still holds back what it met before. New nodes are seen by nobody
  before the KCAS: allocating, filling and, if it fails, deallocating them is part of its step.
* In `AlgorithmD`, `tables` holds all tables ever installed. An insert that calls itself is a
  jump; `frames[t]` has the call and, above it, the insert that `migrate` makes. The counter's
  `++` is a load and a store, `getAccurate` reads word by word. Where C++ leaves the outcome
  undefined (`inc` with a key as thread number, from `migrate`; the loser of the race for the
  new table frees the array in use), `undefined` is set and nothing happens any more.
* In `ElidedTable`, a section under `TLEGuard` is one step. `explicit_fallback` starts it again
  with the lock held, so that only the second look counts; the expansion ends the section and the insert
  starts again in another step. The expansion's parallel loop is any order of the keys: what
  each thread of it does to the array is one compare-and-swap that succeeds.
* In `ElidedTree`, a transaction that commits is one step, enabled only while the lock is free,
  since it has the lock in its read set; one that aborts changes nothing. The holder of the
  lock takes a step for every access to memory that others can see. `linked` are the nodes
  of the tree, `used` those not yet deleted. A stale pointer would show as an address in `Reachable`, or
  in a search, that is not in `used`; addresses are used again at once. An insert of
  tree_prealloc_internal.h allocates when it is called (`TreeCall`): `newLeaf` and `newInternal` are its
  two nodes until it links them. If it finds its key it returns without them, and nobody can
  delete them any more: they are `lost`. That is a leak in the code (106-107, 169), not in the tree.
* In `AvlTree`, `w[t]` are the local variables of a call: `path` is the recursion of the search
  with the version each level was entered by, `spine` are the nodes a repair has locked, `got`
  what `nodeCondition` has read so far. Every read without a lock is a step, and so is every
  store of a rotation (`todo`). Of `changeOVL` the counter of growth is left out, since no comparison
  looks at it. The two directions of a rotation are one definition (`BigSide`). The recursive
  rebalancing of the big child happens under the lock of its inner child, as the code has it; the
  comment at 1171-1173 says after. A retired node is freed when the guards begun before the end of the
  call that retired it are gone: what three bags guarantee (`graced`). Assertions are enabled in the build, and are places.
  Memory is sequentially consistent here, and x86 is not quite: `pthread_spin_unlock` is a plain
  store, so that a repair may look at the next node before its own last store is seen by others.
  What is shown of the balance in quiet states is shown without that.
* In `Debra`, `hands[t][r]` is how thread t got its pointer to record r: 0 if it read a
  linked one itself, 1 if it found the pointer in the descriptor of such a thread, and so
  on. The announcement of `startOp` may wait in the store buffer (`pending`).
* In `TokenRing`, a bag is a set, and which of its records are in full blocks is left open. The
  token may wait in the store buffer of the thread that passes it (`passing`). token3's
  look for the token, every 100 records of the loop that frees the rest of a bag, is left out: the
  full blocks have gone to the pool before (reclaimer_token1.h:225), and the rest is less than a
  block of 40, so that the code never gets to look.
* In `EpochTree`, a step is one access to a node of the tree. `ann[t]` is the announcement of
  thread t, in memory or on its way (`pending`). Which operations climb, one in so many, is left open.
* In `Counting` and `Reclaimers` one program is chosen at the start, and the variables of the
  others are idle; they exist so that one run answers for all of a kind.
* History variables (`seen`, `past`, `entered`, `graced`, `holders`, `effected`, `initially`) are
  read by no step of the program, except that `KcasList`, `KcasTree` and `AvlTree` free by
  `graced`, which there is the reclaimer's promise.

`seen` is how linearizability is stated without prophecy: it collects, at every step of a
call, the answer that would have been right at that instant. `SetObject` and `AtomicKcas`
let a call that changes nothing give any answer it has witnessed; calls that change
something take effect in one step.

## 3. Runs

| run | shows | instance |
|---|---|---|
| `fixed_tables` | tables A, B, C are linearizable sets; no key twice; keys reachable; slots only age; checksum; calls return | 2 threads, 2 keys that collide, 3 slots, hashes modulo 5 so that one probe sequence wraps and skips a slot |
| `counting` | both of Dekker's locks starve nobody and count exactly, and the fenced one implements the other; the counters' reads and final values, barrier, termination | the lock: 2 threads (all there are), 3 increments each or increments without end; the counters: 2 threads and main, 3 increments each, error constant c = 1 |
| `kcas` | KCAS and read linearizable; SUCCEEDED means all addresses were held; no tag is left; every call returns, whatever order the addresses are given in | 2 threads, one of which calls twice, or 3 threads that call once; 2 addresses |
| `kcas_returning` | **violated**: a tag is left for ever | 2 threads, 5 calls |
| `debra` | no use after free, `Reclamation` is implemented, epoch held back, freed once | 2 threads, 1 record, 9 bags, epochs to 14 |
| `reclaimers` | the token rings and the epoch tree implement `Reclamation`; rings that free whole bags free everything; nodes of the tree stay behind the threads below; its epoch goes on | 2 threads, 2 records, blocks of 2, 3 bags, epochs to 12; a tree of 3 threads without records, epochs to 6 |
| `list` | lists linearizable, well linked, erased nodes frozen, no dangling pointers, lock-free | 2 threads, 2 keys, 2 nodes |
| `kcas_tree` | trees linearizable, a search tree at all times, erased subtrees frozen, no dangling pointers, lock-free | 2 threads, 2 keys, 2 leaves and 2 internal nodes besides the constructor's |
| `benchmarks` | the table that grows, the tree with an elided lock, the AVL tree: linearizable; counters agree; assertions hold; no freed node met, the AVL tree balanced when all is quiet; the trees' calls return | 2 threads; 2 keys, tables of 2 and 5 slots, 4 addresses, 2 retries; AVL trees of up to 8 nodes |
| `prealloc` | **violated**: a key is inserted that is there already | 1 thread, 2 keys |
| `damaged_tree` | **violated**: a wrong height that nobody repairs | 2 threads, 5 keys, one AVL tree |
| `table_d` | **violated**: threads wait for a migration that is over | 2 threads, 2 keys, one chunk of 2 slots |

Why these bounds are enough to be interesting:

* *Tables.* Three slots and two keys with the same first slot give probes past a tombstone, a
  full table, and (HashRange = 5) a probe sequence that visits one slot twice and another never. The table fills up for good,
  so that behaviours end in a stable state; every order of two threads on the way is
  covered. The theorems of section 4 cover any number of threads; what remains to this run is
  progress, and that the premises of the proofs are not empty.
* *Dekker.* With three increments a thread is still draining the stores of one round when it
  wants in again, and the turn changes hands more than once. Removing any one of the
  fences that matter is found. That threads end is no help to `StarvationFree`, which is also about the endless programs:
  there a lock that only lets *somebody* in fails it, as the mutant does that yields whoever's turn it is, although with
  three increments each it ends (`Finishes` holds of it).
* *Kcas.* Two addresses are the least at which a KCAS can hold one and fail at the other, and
  three threads the least at which a helper helps while a third moves on. `Plans` says which
  calls each thread makes: all pairs of threads one of which reuses its descriptor, and all triples with one call each among
  whom none or exactly two swap both addresses. Of any two threads that swap both, one names its addresses in the
  other order than the other does (`Makes`), so that it is `kcasdesc_sort` that makes them lock in one order: without the
  sort (the mutant) two of them help each other, one call inside the other, without end. `MaxDepth` = 3 is as deep as helping
  goes with it, since a call that got there would wait for ever, against `CallsReturn`. Calls end, so that `CallsReturn`
  is not about helping others for ever. `SettlingPlans` lets a value come back after a success, not
  under a KCAS that has failed: that is the next run's business. No sequence number comes near `SeqLimit`, so
  that the theorems' premise `SeqsFit` holds throughout; their inductive invariant has been checked on this
  instance and on that of `kcas_returning`.
* *Counters.* `c = 1` makes the approximate counter flush at every second increment.
* *Debra.* A retired record is freed six rotations later, which takes the epoch to 14; one
  record goes through its life and into a second. The scan interval is 1 so that nothing hides in it. The operation only counts as
  running between fence and `endOp`.
* *Reclaimers.* Two records and blocks of two make bags with a full block, with a rest only, and
  empty. Two threads are a ring in which the token comes back while a bag is freed, and a tree
  whose parent is the root. A third thread gives the tree an inner node, and a leaf without a
  sibling; it runs without records, since what the nodes do does not depend on them.
* *Lists.* Two nodes are two in the list, or one in it and one that has been erased, or is new,
  next to it; every address is used again and again. `Room` keeps inserts from starting when
  the model has no address left. The theorems cover any number of nodes.
* *Trees.* Two leaves and two internal nodes over the constructor's three make a tree of depth
  three, the least at which a sibling is an internal node with a subtree of its own, and in
  which gp of one erase is p of the other. One key is enough for `contains`, which is the search
  of the other two calls. Free nodes are alike, so that any of them may stand for all.
* *Benchmarks.* `Full = 2` flushes a subcounter at every second insert. Five slots with two threads
  satisfy `Ample` and let the table fill up to the bound before it expands; two slots expand at
  the first insert that is counted and let the assertions fail where `Ample` does not hold. Both
  keys start at the last slot of every larger table and wrap. Four addresses are the
  tree of two keys; an erased pair is used again at once. `MAX_RETRIES = 2` has one retry and
  one fallback. An AVL tree needs more keys before it rotates, and its calls take many steps: there, one
  thread makes the calls of a script that builds a tree, and while the last of them is under way and
  thereafter one or two further calls are made by anyone. The scripts end in rotations of both
  directions, single and double, in an unlink, in the repair of a node without a value, and in an erase
  that damages a tree of eight nodes; what meets them are searches for keys that the rotation moves, and updates of its
  nodes. Between them the plans take every branch of the module but one: rotating the big child
  first (`Near`, 1186), for which the heights must be out of date in two places, which two calls do not get to.
* *Table D.* One chunk of two slots is one migration; a second thread may help or watch.
  `MaxTables = 2` is one expansion.

Fairness. `WF` on the steps of a thread *inside* a call: the operating system schedules every
runnable thread, and no run assumes that a thread makes a call. Mutexes are not assumed
fair; A's `CallsReturn` therefore claims only that some call gets through. So do those of the lists
and the KCAS trees, which are lock-free, and that of the elided tree: nothing makes a transaction
commit and nothing makes the lock choose, yet whoever has run out of retries gets the lock or
sees another get it. In the AVL tree a lock that is free is taken by somebody; that calls
return is what rules out a deadlock there. Of the elided hash table's calls nothing is said, since how `TLEGuard`
retries is not in the source. The counter
workload ends because it makes finitely many increments (`MaxIncs`, for the timer).
`Debra` has no liveness property: a thread may stay in an operation for ever and nothing is
then freed. For the token rings and the epoch tree the run assumes what a benchmark's trial does: every
thread goes on with its operations (`WF` on its steps, endOp included), store buffers drain,
and for the tree every thread climbs again and again (`SF` on the operations that do, since which
ones do is left open).

### The assertions of the elided hash table

`AssertsHold` is about tables for which `Ample` holds: what the subcounters can hold back must be less
than the two thirds of the table that `isExpandNeeded` leaves free. With the code's constants a subcounter
holds back up to 999 inserts, and the exact count is only taken beyond 100 probes. A table of at
most 101 slots can therefore fill up with less than 1000 inserts by each thread, unseen by the counter, and
the next insert of another key, or an erase of a key that is not there, runs into `assert(false)`
(hashtable.h:164, 190). The benchmark takes the initial capacity from its command line; no line of the
repository promises small ones.

### Findings

**A tag that stays (`kcas_returning`).**
`kcas_returning` shows that `help` can leave a tag in memory for ever. Thread O executes a
KCAS on addresses a0, a1. It holds a0 and finds another value at a1, so it is going to
fail. The expected value comes back at a1. A helper H of the same KCAS installs its RDCSS at
a1 (kcas.h:269) and reads the state UNDECIDED (245). O decides FAILED (350), and its phase 2
does not find its tag at a1 (363); it returns and begins another operation, with a new
sequence number. H turns its RDCSS into the tag (249), sees in phase 2 that the sequence
number has changed, and returns at line 357 without undoing it. From then on `readPtr`
(399-404) and any KCAS of a1 (338-341) spin: they meet a tag that they cannot help. In the lists, `pred->next` goes from
succ to n and back to succ when a node is inserted and erased again, so the value does come back.

**The wrong key (`prealloc`).** `ExternalBSTB::sequentialInsertIfAbsent` fills in the
internal node it has brought along with `ret.n->key` on both sides
(tree_prealloc_internal.h:176, 181). When the new key is the larger one, the node must have
the new key (tree.h:175, and the line commented out at 180): searches go left only if their key is less.
Insert 1 and then 2 over it, and a search for 1 goes right and ends at 2. One thread alone then inserts
1 again and is told that it succeeded, against the promise at tree_prealloc_internal.h:52.

The same function also leaks, which is no finding of a run since no line of the repository says otherwise:
`insertIfAbsent` allocates both nodes on every call (tree_prealloc_internal.h:106-107), and when the key is there
(169) it returns without having linked or deleted them. The model keeps such nodes in `lost`, for ever in use; what is
said of lost nodes in this project is said of nodes that have been linked, or of tree.h, which allocates
only when it links.

**Nobody's damage (`damaged_tree`).** `nodeCondition` reads the heights of the children without
their locks, and its comment (ccavl_impl.h:1005-1009) argues that a read that was not consistent does no
harm, since "someone else has taken responsibility". The run starts from the root 2 with the
right subtree 4 (3, 5), whose left child 1 has just been erased: it is rotated to 4 (2 (-, 3), 5). Then 2 is
erased while 1 is inserted. The eraser has unlinked 2, holds the lock of 4 and reads the height 1 of 3. The
inserter puts 1 below 3, gives 3 the height 2, and looks at 4: its height 3 is right for
what is below, and the inserter stops. The eraser stores the height 2 in 4 and goes on to the
root. The height of 4 is wrong and neither is going to look at it again. Heights decide on rotations, so that the tree may be less balanced than it says; the *set* is not
affected, and by the heights that nodes have, `NoStrayNode` finds the tree in balance.

**Done twice (`table_d`).** `migrate` adds one to `chunksDone` when it has moved a chunk
(alg_d.h:150), and `helpExpansion` adds one more when `migrate` returns (119). The loop that
waits for the migration leaves when `chunksDone` *equals* the number of chunks (124). With one
chunk the count is 2 when its own thread gets there: it waits for ever, and so does every
later insert, which helps before anything else. With several chunks a
thread may get past while the count happens to be right. Whether the contents survive the
migration cannot be said of a migration that ends nowhere, and two more places (hazards: 131, 146)
leave the outcome undefined; no safety property is claimed of table D.

## 4. Proofs

| theorem | module | property of run |
|---|---|---|
| `TypeCorrect`, `UniqueKeys`, `ReachableKeys`, `SlotsAge`, `TablesAreLinearizable`, `ChecksumsAgree` | `FixedTables_proofs` | `fixed_tables` |
| `FencesSuffice`, `AtomicsExclude`, `FencesExclude`, `NobodyStartsEarly`, `ReadsSeeTheCount`, `FinalValueIsExact` | `Counting_proofs` | `counting` |
| `TypeCorrect`, `EpochIsHeldBack`, `MemoryIsSafe`, `FreedOnce`, `DebraKeepsPromise` | `Debra_proofs` | `debra` |
| `ReclaimersKeepPromise` with `TokenKeepsPromise` and `TreeKeepsPromise`; `NodesStayBehind`, `NodesStayBehindThere`; `PromiseIsSafe`, `TokensAreSafe` | `Reclaimers_proofs` | `reclaimers` |
| `TagsLead`, `DecidedOnlyWhenHeld`, `KcasIsAtomic` | `Kcas_proofs` | `kcas` |
| `TypeCorrect`, `ListIsWellLinked`, `PointersAreSafe`, `ErasedNodesAreFrozen`, `ListsAreLinearizable` | `KcasList_proofs` | `list` |
| `TypeCorrect`, `TreeIsWellFormed`, `SearchesFind`, `PointersAreSafe`, `ErasedNodesAreFrozen`, `TreesAreLinearizable` | `KcasTree_proofs` | `kcas_tree` |
| `CountersAgreeAlways`, `AssertsAlwaysHold`, `LinearizableCalls`, `TreesAreSound`, `NoStrayNodeThere` | `Benchmarks_proofs` | `benchmarks` |

They hold for every number of threads, addresses, keys, slots, records and increments, any hash function,
any scan interval, and any number of bags with the margin stated below.

**Tables.** Assumed: keys are positive, the capacity is positive, the hash has some range.
An insert writes a key after it has looked at all slots before it in the probe sequence.
The inductive invariant says of every thread in the middle of a probe that none of the slots
it has passed is EMPTY or holds its key, and of a thread about to write that the slot it
looked at is what it thinks, or (C) that the CAS will tell. Two keys alike would need two
threads that both passed the other's slot before it was written, but both probe in the same order.
That slots only age is what keeps the claim about passed slots true.
On it rests `TablesAreLinearizable`: a probe that comes to an EMPTY slot, or to the end, has missed nothing,
so its key is absent at that very step; only an erase of B or C that finds its key and loses it
before the second look answers about an earlier step, and for it the invariant keeps that the key was
seen to go (`SeenInv`). A full table turns an insert away because no slot of that key's probe is EMPTY, for good.
`ChecksumsAgree` is about the sums that the benchmark compares: what is in the table plus what threads have
erased, and not yet counted, is what they inserted. The sums are recursive functions over the slots and
over the threads; a fact about all of them is proved from the least slot, or thread, at which it would fail
(the naturals are well-founded), which takes the place of an induction.

**Dekker.** The invariant (`DekkerInv`) relates place and flags (`wants[t]` between Want and Leave, except
while yielding) and is enough for exclusion; with exclusion, a thread between load and store
has the current value, and the counter is the number of finished stores (in a program that is not endless).
q3_3 has the same by `FencesSuffice`, which maps every step on store buffers to a step on atomics, or to
none: a flag counts as changed when its store leaves the buffer, and the thread as being past its
fence only from then on. The invariant (`LockInv`) lists what the buffer of a thread can
hold at each place: nothing or one store, and up to three between the increment and the fence
behind it, always those of this round and in order. The flag that the other thread tests is thus never behind what its owner
does inside the lock. `DekkerInv` is stated once, of the lock on atomics that either program runs: its own
(`AtomicsAreDekker`), or the one that it implements (`FencesAreDekker`). `AtomicsExclude`, `FencesExclude` and the count
(`DekkerCounts`, part of `FinalValueIsExact`) follow.

**Counters.** Assumed: N and c are positive, uninitialised words are not negative. The invariant (`WInv`) of the timed workload:
`WBarrier` (the barrier is the number of those who have come), `WLocks` (who is inside a mutex
holds it; a reader holds those its loop has passed), `WCount` (where the increments are: in v,
in the sum of the shards, or for the approximate counter in v and what each thread has `Pending`), `WReads` (what each
read in progress has gathered) and `WPerformed` (what the threads have counted of their own increments, and not
yet added to the total). The one argument about several actors is the collect without locks (`Collecting`): there
is a count `lo`, true during the read, such that the sum so far is at most what the shards passed hold *now* and
at least what they held at `lo`; when all have been passed the sum is between `lo` and the count, and since
the count grows by one at a time, every number between was the count at some instant (`lo .. effected` is in `seen`). Nothing is
pending beyond c * N in each thread, which is the approximate counter's error, c * N * N. Sums over
threads or shards are a recursive function; its laws (`SumByParts`, `SumChange`, `SumBounds`) are proved from
`Induction` over sets of naturals, which follows from well-foundedness.

**Debra.** Assumed: bags less always-empty bags is at least 4 + `Hands`; with the code's 9 and 3, `Hands` is 2. The conjuncts of
the invariant: `Scans` (what a partial scan has established about those checked), `Waits` (the
announcement of a running operation holds the epoch at most one step ahead, even one that
was out of date when made), `Bagged` (a retired record is in one bag), `Holding` (only
running operations have pointers, never to a freed record, and the operations older than a
record's retirement are still running), `Ages` (an operation older than the retirement of a
record in a bag began at most so many epochs before the bag's age; whoever has its pointer
through h hands began at most h epochs later than that). An operation that reads a record itself began before its retirement: two
advances cover it. One that got it from a descriptor may have begun after, but while the
lender ran, which began before: every hand costs one more epoch. A helper that went to sleep can put the tag
of a finished KCAS back, so that a pointer can go through two hands (the sleeper and whoever
meets the tag): the margin of the code is exactly used up.

**Reclaimers.** `PromiseIsSafe` says that under `Reclamation`, which frees only retired
records whose operations of the moment of retirement have ended, no operation has a pointer to freed
memory; `TokensAreSafe` draws the conclusion for the rings. `DebraKeepsPromise`, `TokenKeepsPromise` and `TreeKeepsPromise` show that DEBRA, the rings
and the epoch tree implement it, step by step; `ReclaimersKeepPromise` is the property of the run, of whichever of the latter is chosen. For DEBRA the invariant above gives it: an operation that still runs began
too late to be among those of a record in the bag that is freed. For the rings: there is one token,
in a thread's word or in one store buffer (`At`), and every operation that a record in the bag of
thread t still waits for belongs to a thread that the token visits before t (`Waits`): when the token is
back at t, there is nobody left, since a thread passes the token between operations.
For the epoch tree two assumptions are made: `ThreeBags`, three bags from the one in use to the one that is freed (the code has three and
no always-empty ones, reclaimer_ebr_tree.h:36-37), and that `Pow2` rounds up, since the provers know nothing of powers; TLC
evaluates the latter for the trees of the run. A thread
on its way up has an announcement that every thread below its place has made too, or a later one (`Climbs`): it takes a node
only when the sibling has the same value, and then all threads below that have announced it, or when nobody is below. So the root is at most
one step ahead of every thread (`Behind`, whose first conjunct is `NodesBehind`), whatever the order in which threads
write to the nodes, and an operation that ran when a record was retired began at most one step
before the owner's epoch of that time: it is over when the bag's turn comes, at the third rotation (`Ages`). That a leaf is below a
node is stated by sets closed under the way up, for which no induction along the way is needed. `NodesStayBehind` is about a tree of any
number of threads. The two trees of the run are instances; `NodesStayBehindThere` says it of the one that keeps records, inside the composition. Helpers that pass pointers on are in `Debra` only (`hands`), since only there the structures
are ones that do; `NoUseAfterFree` of the rings is that of operations that read records
themselves.

**KCAS.** Assumed: a call's addresses differ, and `SeqsFit`: no sequence number comes to its wrap while the
theorem is used. Then a tag names one operation for ever (`OpsOK`), with the entries it had, present or in `past`. What
a helper has read may be old, so the invariant says what stays true of it. A call of `help` at
entry i of a KCAS that is still undecided has its tag at all entries before (`HeldBefore`), since
nobody takes the tag of an undecided KCAS away; a helper that begins at the second entry has met the tag, and
so it is at the first (`First`). Hence `DecidedOnlyWhenHeld`. That the tag
then *stays* until phase 2 needs the RDCSSes: nobody knows the tag of one that is not yet installed
(`PreparedOK`), an installed one is being executed by its owner and names what it replaced
(`MemOK`), and whoever saw "undecided" cannot put the tag of a KCAS back that has succeeded,
for its RDCSS would have to be where that KCAS had its tag at the decision (last conjunct of `HelpedOK`). After a
failure it can, which is the finding `kcas_returning`: what the address means is the old value all the same,
so that atomicity survives. `KcasIsAtomic` maps every step to `AtomicKcas`: the decision SUCCEEDED is
the step at which all addresses change their meaning at once (`ContentsSwapped`), no other step changes any
(`ContentsKept`), and a call that fails has met another value during the call (`SeenOK`).

**Lists.** Assumed: keys are natural numbers, the sentinels and null are no addresses of nodes.
The conjuncts of the invariant: `WellLinked` and `Ordered` (the chain; nobody's key is between
neighbours, which makes "passed" mean "absent" without an induction along the chain), `Guards`
(an erased node is marked, and waits for the guards alive at its erasure, `holders`), `Paths`
(the next pointer of an erased node leads, for each of these guards, to a node that is linked
or waits for the same guard), `Held` (so do all pointers of a call), `News` (the node of an
insert is its own until it is linked), `Searches` (what each place of a call has established)
and `Knows` (an erased node's key, and the gap behind it, answer for the instant of the erasure,
which is within the call of every guard in `holders`). `Held` and `Guards` give
`NoDanglingPointer`. With `Knows`, each step of a call is a step of `SetObject` or a stutter, which
is `ListsAreLinearizable`; the history variables `seen` and `holders` are read by no step of the lists.

**Trees.** Assumed: as for the lists. A search decides at every node by its key, so it matters which nodes are *on
the way* to a key: `On(m, k)` says that m is in every set of nodes that has the root and is closed under the steps of a
search for k. (A least closed set needs no recursion; a step of the code is shown to preserve `On` by giving, for a closed
set of the new tree, one of the old.) The conjuncts of the invariant: `Shape`, `KeysInOrder`, `Grounded` and
`Routed` (one tree, no sharing, no cycle, and every leaf is on the way to its key), `Marks`, `Held` and `Searches` (as for the
lists), and `Trails`: a running search has a set W of nodes, those it holds and those it must still get to from them. What W has
of the tree is on the way to the key; a leaf in W tells whether the key is, or during the call was, in the set; from
an erased node in W the step of the search stays in W. A node on the way to k stays there until it is erased, and only
the leaf that an insert pushes down may lose keys, which is why an erase that bypasses p and n puts them
into the W of every search that could still come by. `SearchTree` itself is about a walk defined
by recursion, which is reduced to sets too: if the walk left the tree there would be a least step at which it does
(`Least`, from the well-foundedness of the naturals), and if it never came to a leaf it
would repeat a node (pigeonhole), against `Grounded`.

**Benchmarks.** Which structure is run is chosen at the start, and the invariant is one of each.
*Hash table.* `CountersAgree` is inductive with the types: an insert counts the slot it fills, an erase
the key it takes, and `expand` leaves a table whose slots in use are its keys, each once, whatever order the old table
was read in (`Migrations`). The loops: `isExpandNeeded` lets an insert through when the *inexact* counter is at most a third
of the capacity, and each thread keeps back up to `Full - 1`, so that at most `Ceiling(capacity)` = capacity \div 3 +
N * (`Full` - 1) + 1 slots are ever in use. If that is less than the capacity (`Ample`, which the
property itself has as its hypothesis) some slot is EMPTY, and a probe comes to every slot. Without it the loop does come round, which
is hashtable.h:164 and 190. A probe that ends at an EMPTY slot has missed nothing, because keys lie where
all slots before them are in use.
*Trees.* Assumed: the program is `tree` or `prealloc`, with any threads and keys. As for the KCAS trees, `On(m, k)` says that m is
on the way of a search for k. `TreeFit`: `Shape`, `KeysInOrder`, `Grounded` (no cycle), `Whole` (every set that has the root
and is closed under children has the tree: all that is linked can be reached) and `Routed`. The last differs between
the files: in tree.h every leaf is on the way to its key; in tree_prealloc_internal.h, whose new internal nodes get the wrong key
(finding `prealloc`), only the sentinel on the right is, for a key greater than all, and that is enough for a
search to end at a leaf that has a grandparent or is a sentinel, so that an erase never follows NULL. The leaf on the left is excepted in
both: nothing that is compared with its key goes there. `HolderFits` says what the holder of the lock has unlinked and not
yet deleted, that this is all that is in use and not in the tree; when the lock is free it is nothing. `Led` says that what a search under the lock has gathered is on the
way to its key. It stays so between the steps of the holder, because transactions commit only while the lock is free: each of
them is one step that finds, links and frees. `NewFit` is about nodes not in the tree yet: an insert of
tree_prealloc_internal.h that has not said yes has two of its own, which nobody else has and no search meets; they get into
the tree, or are lost with a call that said no (the leak of section 3); tree.h loses none. `TreeIsSound` follows. So does, for tree.h, that each call takes effect in one step of
`SetObject`; for tree_prealloc_internal.h that is false, and `LinearizableCalls` leaves it out. The invariant was checked
with TLC before it was proved.

**Not proved, model-checked only:** all liveness; `QuietMemory`, which holds for plans in which no value comes back under a KCAS that
has failed, and is false without that (`kcas_returning`); the AVL tree's parts of `AssertsHold`, `NoStrayNode` and `Linearizable` (the
theorems name the programs they are about); `NodesBehind` of the second, larger epoch tree inside
the composition (the component's theorem `NodesStayBehind` is of any number of threads); table D, of which no safety is claimed.

## 5. Not modelled

* Reclaimers, pools and allocators that nothing instantiates (debra+, hazard pointers, RCU, capped
  DEBRA, the inside of block pools): the structures are built on `reclaimer_debra`, `pool_none` and `allocator_new`.
* The copy of DEBRA below a7's AVL tree, and the statistics that come with it: it has
  three bags instead of nine, and frees in full blocks. The tree's `insertReplace` is called by nobody.
* `libtle.so` is a binary, and the hardware's transactions are no source either; both are modelled by their contract.
* q2.cpp: every thread writes a word of its own, main reads them after the join.
* The sequential tree, `getSumOfKeys`, destructors and prefilling run alone, or repeat the
  modelled calls; the checksum is checked for the tables of a4 and is the same code elsewhere.
* The registration of thread numbers in a6 (`TIDGenerator`, kcas_reuse_impl.h:160): every thread is taken to have its number.
* Measuring and output; random numbers; wrap of 48-bit sequence numbers.

## 6. Plan

Done so far: KCAS and reclamation, their users (lists, trees), the tables, the locks and counters,
the structures of a7, and the theorems of section 4. What is left:

1. Theorems about the AVL tree of a7: `AvlIsSound` and its assertions, with the rotations.
2. Composition: `KcasList` with `Debra` in place of its contract, with pointers passed on in descriptors.
