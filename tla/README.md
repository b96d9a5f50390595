# A TLA+ model of ScaleLockDep

ScaleLockDep is a shared library that is preloaded into a C program and
interposes `pthread_mutex_lock`, `pthread_mutex_trylock` and
`pthread_mutex_unlock`. It does two jobs. It finds a **live deadlock** at the
moment a thread is about to block for ever and exits with code 66, and it
collects the **orders in which mutexes are nested** and prints a report when
they form a cycle, a potential deadlock. The second job has two back ends: one
that works synchronously on a global graph (`LOCKDEP_MODE=global`) and one that
hands batches to a worker thread through ring buffers (`LOCKDEP_MODE=rb`).

All source references are to `src/lockdep/`. `PROJECT.json` maps every
definition to its lines.

## 1. Inventory

| Component | State | Operations | Interacts with | Modelled |
|---|---|---|---|---|
| Hooks (`hook.c`) | re-entrancy flag and internal-thread flag (thread-local), pointers to the real functions | lock, trylock, unlock; constructor, destructor | call everything below around the real mutex | `ActualDeadlock` |
| Actual-deadlock detector (`core.c`, fast paths in `lockdep.h`) | per lock slot: owner thread slot; per thread slot: lock slot waited for | publish a wait and walk the wait chain; acquire; release; cancel a wait | reads other threads' slots without a lock | `ActualDeadlock` |
| Held-lock stacks (`state.c`) | thread-local array of held lock slots; in rb mode also a bitmap with reference counts | push, remove from anywhere, overflow panic | input of both back ends | `HeldStack`; the bitmap is the set of its entries in `RbBackend` |
| Global back end (`graph.c`) | adjacency matrix, edge information, predecessor bits | lock-free "all known?" check; insertion, search and report | metadata spin lock | `GlobalGraph`, `PathSearch` |
| rb back end (`potential.c`) | a single-producer ring per thread, worker state, `work_pending`, semaphore, stop flag; worker-private adjacency, predecessor and reachability bits; published snapshot | enqueue with stall or drop; drain; incremental reachability; lazy start; shutdown | producers and worker share the rings, the snapshot and the wake-up protocol | `RbBackend`, `PathSearch` |
| Registry (`state.c`) | lock slot and thread slot arrays with counts, thread-local lookup cache, spin lock | look up or create; register a thread | every component uses its slots | `Registry` |
| Call sites and reports (`log.c`, `lockdep.h`) | call site beside each owner and wait word and each edge | store, clear, copy into a report | races with the slots they belong to | `CallSites`; not the sites of edges |
| Start-up (`hook.c`, `potential.c`) | mode, policy | environment, `dlsym` | before `main` | no: sequential, runs once |
| Tests, benchmarks, experiment scripts, logs, plots | | | | no: not part of the library |

### What makes it hard

* The detector uses **no lock at all**. Waits are published and owners recorded
  with single atomic stores, and a walk reads a chain of them one at a time
  while the threads on it move.
* The owner record is **not written at the moment** the mutex changes hands: it
  is late after an acquire, and it is cleared after the real unlock, when the
  next owner may have written its own name already.
* Mutexes change hands where the library does not look: inside
  `pthread_cond_wait`, and in the inner levels of recursive mutexes.
* The global back end decides **without the lock** that nothing is new, and
  prints after it has released the lock.
* The rb back end has a hand-made **sleep/wake-up protocol**, rings with a limit
  and two policies, a lazy start and a shutdown that other threads overtake.
* The registry's arrays are **read without the lock** under which they grow, by
  walks and by reports, and 0, what static memory holds, is a valid slot.
* Call sites are words of their own, stored and cleared **beside** the words
  they explain.

### What makes each component correct

* Detector: no circular wait goes unreported (completeness); a report means a
  circular wait (soundness); records follow the real mutexes up to the operation
  in progress; a wait does not outlive its call; a deadlock ends in the exit.
* Held stacks: mirror the real mutexes, in the order of acquisition.
* Global back end: no order is lost, bits and matrix agree, a cyclic graph has a
  report, a report lies on a cycle.
* rb back end: the same after the queues have drained; rings are first in, first
  out, nothing accepted is lost, taken twice or invented; no sleep with work queued,
  or with the stop unheard; a stalled producer goes on.
* Registry: one slot per mutex and thread, caches agree with it, slots are
  complete before they are visible, the spin lock is given back on every path.
* Call sites: right or unknown, never wrong; no site outlives its record.
* Reports: the search finds what reachability says, and the chain it prints is
  a path of recorded edges.

The full list of hazards, each with its line and the properties aimed at it, is
in `PROJECT.json`.

## 2. Modules

| Module | What it is |
|---|---|
| `HeldStack` | the held-lock stack: removal of the topmost matching entry |
| `HeldStackProofs` | lemmas about that removal: type, order of what remains |
| `ActualDeadlock` | hooks, bookkeeping and wait-chain walk around the real mutexes, with optional x86-TSO store buffers |
| `MCActualDeadlock` | symmetry sets for TLC |
| `CallSites` | call sites beside the owner and wait words, and the report of an actual deadlock; composed with `ActualDeadlock` |
| `MCCallSites` | call sites of a small program |
| `ActualDeadlockProofs` | types, held stacks and waits, in all configurations; owner records, with or without store buffers; for ordinary mutexes on sequentially consistent memory, completeness of the detector and soundness of its undisturbed reports |
| `CallSitesProofs` | sites do not change the detector; for ordinary mutexes they are right, go with their record, and are rightly shown |
| `SlotTable` | what a registry promises: an append-only table without duplicates |
| `Registry` | lock slots, thread slots, caches, spin lock, and the words of the slots; refining two `SlotTable`s |
| `MCRegistry` | a cache layout with a collision, symmetry |
| `RegistryProofs` | every property of `Registry` |
| `LockGraph` | reachability and cycles in sets of edges |
| `LockOrder` | abstract back end: record an order together with the verdict on its cycle; print it later |
| `LockOrderProofs` | the abstract back end never leaves a cyclic graph unnoticed |
| `GlobalGraph` | the synchronous back end, refining `LockOrder` |
| `PathSearch` | the depth-first search of both back ends, call by call, and the chain read back from its pointers |
| `PathSearchProofs` | that the search finds a path exactly if there is one, and that its chain is one |
| `MCGlobalGraph` | symmetry sets for TLC |
| `GlobalGraphProofs` | its types, the refinement, and that its graph holds only orders that were taken, and all that a thread would have waited in |
| `EventQueues` | abstract rings and worker: bounded first-in-first-out queues emptied into batches that are finished |
| `RbBackend` | the ring-buffer back end with its worker, refining `LockOrder` and `EventQueues` |
| `MCRbBackend` | symmetry sets for TLC |
| `RbBackendProofs` | its types, the reachability bits, both refinements, the sleep of the worker, that nothing is lost or invented, the shutdown |

### `ActualDeadlock`

One step is one access to memory that other threads read or write: an atomic
load, store or compare-and-swap, or a call of the real pthread function,
together with the thread-local code up to the next such access. `pc[t]` says
where in the hooks thread `t` is:

| `pc` | Code | Actions leaving it |
|---|---|---|
| `idle` | outside the hooks | `LockTop`, `LockBusy`, `Trylock`, `RealUnlock`, `CondWait` |
| `top_lock`, `top_acquire` | `hook.c:94-105`, nothing held: straight to the real lock | `RealLockTop`, `RealLockTopFails`, `AcquireTopLevelMutexFast` |
| `before_block` | `core.c:83`, the wait store | `BeforeBlockingMutexLock` |
| `load_owner`, `load_waiting` | `core.c:40`, `core.c:57`, the two loads of a hop | `LoadOwner`, `LoadWaiting` |
| `exit66` | `hook.c:118` | `ExitDeadlock` |
| `real_lock` | `hook.c:121` | `RealLock`, `CancelWait` |
| `acquire`, `acquire_wait`, `store_owner` | `core.c:126-159`: push, clear the wait, record the owner | `PushHeldLockSlot`, `HeldStackOverflow`, `ClearWait`, `PublishOwner` |
| `release` | after the real unlock: `core.c:164-194`, `lockdep.h:267-291` | `ReleaseMutex` |
| `cond_wait` | inside `pthread_cond_wait` | `CondWake` |

The real mutex is `holder`/`depth`: modelled from POSIX as far as the hooks use
it. Recursive and error-checking mutexes, mutexes whose lock may return an
error, and mutexes given to `pthread_cond_wait` are sets among the constants.
With `StoreBuffers` the two release stores go into a FIFO per thread that
`Drain` empties one at a time; locked instructions and the real pthread calls
wait until it is empty. That is what `memory_order_release` compiles to on
x86. `disturbed` is a history variable: who released a mutex or gave up a wait
while a walk was under way.

A lock slot stands for its mutex and a thread slot for its thread; that they do
is what `Registry` shows. The back end is left out here because it touches none
of this state; it runs between the real acquire and the owner store, and the
model allows any delay there.

### `CallSites`

`LOCKDEP_REPORT_SITES` puts a word with a return address beside each owner and
each wait word. `CallSites` extends `ActualDeadlock`: a step of a thread
(`LockStep`) is a step of the detector, which also says which accesses to sites
follow it in the code (`due`); the thread makes these one at a time
(`SiteStep`) before its next step, and others run in between. So a site is
stored before the owner word (`core.c:155`), after the wait word (`core.c:83`),
and cleared after either (`core.c:114`, `lockdep.h:286`); a report reads the
two sites of each hop one by one (`log.c:319-337`). With sites off nothing is due and the
module is the detector. `lockedAt` and `wrong` are history variables: where a
thread locked what it holds, and whether a report has shown a site that was not
the one of the wait or acquire it stood for, while the chain it prints was the
case. (A report without a deadlock, see `false_report`, has no right sites to show.)

A site may be *unknown* where one would expect it: a releaser clears the site
after its owner word, and may erase what the next owner has stored. The code
prints such a site as unknown, and calls sites best-effort. What must not
happen is a wrong one.

### `Registry`

The two arrays, the spin lock, each thread's `tls_thread_slot` and cache. A hook
resolves its thread (`reg` ... `reg_unlock`), then its mutex (`look` ... `unlock`),
then uses both (`use`, `waiting`): it writes or clears the owner word or the wait
word. A scan, a store to a slot, the store of a count, the release of the lock
are steps of their own. `ReleaseTop` is the way without a lookup, by the address
in the slot on top of the held stack.

A member of `Threads` is a place for a thread: one may end there and leave
mutexes locked (`Gone`), and another start with any tid no living thread has, so
that a tid comes back and with it a slot. `Unseen` mutexes are also locked by
functions that are not interposed; their release may be one of an unknown
mutex. `CondMutexes` are also passed to `pthread_cond_wait`, which gives the mutex back
(`CondWait`) and gets it again (`CondWake`) without a hook: meanwhile the owner word
goes on naming the waiter, even while another thread has the mutex and has not yet
written its own name, and after the wake-up it names nobody if another thread has had
the mutex. So what `ReportNamesAreRight` says of an owner word is that it names a thread
that has the mutex, is giving it back in a hook, or waits in `pthread_cond_wait` for
it; or the mutex is one that a thread left locked when it ended. `held` is the set of
slots on a thread's held stack, which decides whether `pthread_mutex_lock` looks at
anything before it blocks (`Block`). Under the spin lock x86 keeps the order of stores, which the readers
without the lock rely on; sequential consistency is enough.

The two arrays implement `SlotTable` with the counted part of the array as the
table.

### `GlobalGraph`

A thread that acquires a mutex with others held runs the lock-free check bit by
bit (`check`), and if one bit is missing the insertion loop (`add`): take the
spin lock, look for a path (`search`), set the matrix entry (`insert`), set the
predecessor bit (`publish`), release the spin lock (`unlock`), print (`report`).
Search and insertion are two steps, so the spin lock has something to protect.
`observed` is a history variable: all orders in which threads acquired mutexes;
`blocking`, another, those in which `pthread_mutex_lock` acquired the later one. (The
code records the orders of a `pthread_mutex_trylock` in the same way; what to think of
that is a question of its own, see "Trylock" below.)
The depth-first search stands for its result, reachability, defined through
closed sets (a form without recursion, which proofs can use); the search itself is
`PathSearch`, see below. Sequential consistency is enough here: all shared
accesses but the bits' loads are under the spin lock or read-modify-writes, and a
bit read late only leads to the insertion loop.

The real mutex appears as the guard `Available`: while a thread records an
order it really holds both mutexes. This matters: two threads that record at
the same time have four different mutexes in hand, which is why the smallest
cycle closed by two simultaneous insertions has four locks.

`LockOrder` is implemented with the mapping `recorded = graph`, `pending` = the
edges of threads that found a cycle, from the insertion to the report.

### `RbBackend`

Three kinds of actors. An **application thread** compares the orders with the
worker's published snapshot (`collect`), starts the worker if need be (`ensure`,
`await`, `create`, `launch`, `started`: `g_rb_worker_state` 0, 1, 2; who lost the
compare-and-swap waits in `await`), writes its event and moves
`tail` (`enqueue`), exchanges `work_pending` (`signal`) and posts if it was
clear (`post`). On a full ring it signals too, and then either goes back to
`enqueue` (`stall`, `stall_post`) or gives the event up. The **worker** drains
ring after ring (`DequeueEvent`, `AdvanceHead`, `NextRing`), then adds the edges
of the batch (`FindCycle`, `ReportCycle`, `InsertEdge`), and follows
`lockdep_rb_worker_main` from drain to drain (`DrainAgain`, `ClearPending`,
`WorkFound`, `EndOrSleep`, `WakeUp`); `second` tells the drain after the clearing
of `work_pending` from those before. Once it has seen the stop flag it looks at
each ring in turn (`CheckQueue`) and ends only if all are empty (`EndWorker`). The
**main thread** runs the destructor: stop flag, post, join, reset.

`head` and `tail` run modulo `IndexModulus`, which stands for 2^32, and the
model keeps the two conditions the code relies on: it is a multiple of the
capacity and larger than it. The worker's adjacency and predecessor bits and
the published snapshot change in one step, for others see only the snapshot;
the reachability bits are kept beside them with the code's update. With
`StoreBuffers` the store that clears `work_pending` may become visible late
(`late`): until then the worker goes on reading rings, but no locked
instruction (`InsertEdge`'s fetch-or, `sem_wait`) and no later store overtakes
it. The order among the edges of one batch is left open.

It implements `LockOrder` with a lag: `recorded` is the worker's graph and the
edge it is reporting, `pending` that edge until it is printed.

It also implements `EventQueues`. The queue of a thread is what lies between `head`
and `tail`, oldest first, but for the event the worker has copied and not yet moved
`head` past (`Copied`): an event leaves its queue when it is copied. So a queue is
never longer than the ring, but may be shorter than the ring is full.

The destructor runs after the program's threads have finished, all but those in
`Unjoined`, which go on acquiring mutexes during and after it: they enqueue while
the worker ends, post on the semaphore that was destroyed (glibc's `sem_destroy`
does nothing, and the model follows it), and find `g_rb_worker_state` reset and
start a second worker. `owed` is a history variable: the events on their way when
the stop flag was set.

### `PathSearch`

The recursive search over the lock slots in the order of their numbers, as a stack
of `calls`: a call begins (`EnterCall`) or is the target (`FindTarget`), its loop
passes a slot over (`PassOver`) or calls the search for it (`Descend`), and it returns
(`BackOut`). `visited` and `parent` are the code's arrays. After it the chain is read
back along `parent` (`ReadParent`) and turned round (`TurnRound`). The graph stays as
it is, for it belongs to the worker or to whoever has the spin lock; but the number
of lock slots, which each call loads for itself, may grow at any time (`CreateSlot`).
A slot that is created meanwhile has no edges, which is what keeps calls with
different limits from missing one.

The two back ends take the outcome of the search, `Reaches`, in one step;
`SearchIsRight` says that this is what the code computes.

## 3. Runs

| Run | Bounds | Question |
|---|---|---|
| `detector` | 3 threads, 3 ordinary mutexes, sequential consistency, 160 k states | completeness and its induction hypothesis, records, and the part of soundness that holds |
| `detector_mixed` | 2 threads, 3 mutexes (recursive; error-checking and failing; condition variable), store buffers, 127 k states | stacks mirror the mutexes; every path clears its wait |
| `detector_live` | 2 threads, 3 mutexes, one may fail, 7 call sites or none; fair, 590 k states | a circular wait ends in exit 66; sites are right or unknown, in the records and in the report |
| `false_report` | 2 threads, 3 mutexes | violation: a report without a deadlock |
| `missed_tso` | 2 threads, 2 mutexes, store buffers | violation: an unreported deadlock |
| `missed_condvar` | 2 threads, 2 mutexes, one with a condition variable | violation: an unreported deadlock |
| `global_graph` | 2 threads, 4 mutexes, one recursive, each locked or trylocked, up to 4 orders, stack of 3, 1.4 M states | no order lost, cycles noticed, refinement of `LockOrder` |
| `path_search` | all graphs on up to 4 slots, every new edge, slots created meanwhile; fair, 305 k states | the search ends and is right; the chain is a simple path |
| `rb_backend` | 2 threads, both joined, 4 mutexes, rings of 2, index range 4, 4 acquires, both policies, late store, 706 k states | nothing lost or invented, cycles noticed, reachability is the closure, refinement of `LockOrder` and `EventQueues` |
| `rb_live` | 2 threads, one not joined, 2 mutexes, one recursive, rings of 1, index range 2, 4 acquires, stall; fair, sequential consistency, 372 k states | no sleep on queued work or with the stop unheard; stalled threads go on; everything recorded; destructor returns, with all recorded that was on its way |
| `rb_lost_wakeup` | 1 thread, 2 mutexes, late store | violation: the worker sleeps on a queued event |
| `registry` | 2 threads at a time, 3 tids, 3 mutexes, two on one cache entry, one locked behind the hooks' back and used with a condition variable, 2 slots of each kind, 6 calls, 907 k states | slots unique, complete and right; spin lock given back; names in reports; refinement of `SlotTable` |

Why the bounds are enough. Three threads on three mutexes give every shape a
wait chain has: a cycle of two or three, a chain into a cycle not containing its
first thread, a chain that ends; `MaxThreadSlots` equals the number of threads,
so the hop limit of the walk is reached. What three threads cannot show is
proved for all numbers of them. With stores buffered two threads suffice for
the races, which are between one publisher and one reader. In `detector_mixed`
a recursive mutex fills the stack of 3, so that overflow happens. In
`global_graph` four locks are needed for two insertions that close a cycle only
together, and as many orders; `MaxOrders` bounds how many different pairs the program
nests.

For `RbBackend` four acquires let one thread offer three events, more than a ring of
two can hold, and let two threads close a cycle, or one thread a cycle of three. A ring
of two shows whether events come out in order, and its slots are used again. The
indices run through their range and start again in `rb_live`, where the ring has one
slot and is full after one event. Four mutexes are needed for two threads with an order
in hand at the same time, which then start the worker at once. `MaxAcquires` bounds the
program, not the back end. In `rb_live` four acquires let the unjoined thread nest the two
mutexes in one order before the destructor ends and in the other after it, so that
it has an event on its way when the stop flag is set, and starts a second worker.

In `registry` three tids and three mutexes meet tables of two slots, so both
tables fill and a tid is reused; the third mutex shares a cache entry with none,
so entries collide and survive. Six calls are enough for a first lookup by both
threads at once, a release by the other route, a reuse, and for a thread to get the
mutex, and to give it back, while another waits on the condition variable.

With every graph on four slots, cyclic ones included, `path_search` sees searches that
back out of dead ends, meet visited slots on other branches, and chains of all
lengths up to the cycle through all locks.

Deadlock checking is on wherever the modelled system cannot stop; it is off in
the runs in which threads really do block for ever unreported, in those of
`RbBackend`, where the program may end, and in `registry`, whose calls are bounded.

### Fairness

`FairSpec` assumes weak fairness of each thread's steps **inside** a hook:
a runnable thread is scheduled, and a store buffer drains. Nothing is assumed
of the application: it need not call, unlock or signal. A thread waiting for
the real mutex is fair only while its step stays enabled, so no fair queueing
of mutexes is assumed. `DeadlockEventuallyReported` needs no more.

`RbBackend`'s `FairSpec` assumes the same of the threads inside the back end and
of the worker; the destructor goes on once it has begun, but the program need
not end. `EventuallyRecorded` and `AcquiresEnd` have a premise, that the (other)
threads are outside the hooks from some time on. It is needed: a drain goes to
the next ring only when one is empty, and adds no edge before all were, so a
thread that offers the same order again and again, as fast as the worker
dequeues, holds up everybody. `EventuallyRecorded` and `AcquiresEnd` promise nothing
to a thread that outlives `main`'s destructor: the process is about to end.

`ShutdownEnds` needs no such premise, also with a thread that goes on: the worker
may sleep once more after it has consumed the post that came with the stop flag,
if it found that thread's ring not empty; the post that thread owes for it wakes the
worker. It does rest on `MaxAcquires`: a thread that enqueues for ever can keep
the worker from ever finding all rings empty.

For the registry's spin lock no liveness is claimed: a test-and-set lock may starve
a thread, and nothing in the repository promises otherwise.

### What the violations show

* **A report can be wrong** (`false_report`). T1 waits for B and reads
  that T2 owns it. T2 unlocks B and, still holding C, waits for A, which T1
  holds. T1 now reads T2's wait, finds itself the owner of A, and exits 66;
  yet B is free. The README calls the detector exact (`README.md:236-237`).
  `ReportRealUnlessDisturbed` is what remains: such a report needs a thread on
  its chain that released or gave up in the middle of the walk.
* **A deadlock can be missed on x86** (`missed_tso`). Wait store and owner load
  are not ordered; two threads can both read before either's wait is visible.
  A sequentially consistent store (or a fence after it) removes the run's
  counterexample: it is then the `detector` run.
* **Recursive mutexes**: the inner unlock clears the owner of a mutex that stays
  locked (`core.c:179`). `ActualDeadlockCond.cfg` with `Recursive = {m1}`, no
  `CondMutexes` and `MaxHeldLockSlots = 3` has the counterexample.
* **Condition variables** (`missed_condvar`): `pthread_cond_wait` re-acquires
  its mutex behind the library's back.
* **Trylock** (no run of its own). `test/README.md:72-76` says of two threads that take
  mutexes in opposite orders by `pthread_mutex_trylock` that this is "*not* sufficient
  to deadlock when nobody blocks", and calls test 12 "the regression test against false
  positives". The code records the orders of a successful trylock like any other
  (`hook.c:186`, `core.c:139`), so once both orders have been taken a potential deadlock
  is reported although nobody can block. `GlobalGraph` states what the document says as
  `NoReportWithoutBlocking`. With `Locks = {m1, m2}`, `Recursive = {}`,
  `MaxHeldLockSlots = 2`, `MaxOrders = 2` and that one invariant, `GlobalGraph.cfg` has
  the counterexample: m1 then m2 by trylock, everything recorded, m1 released, m1 again
  by trylock, report. Test 12 does not show it, for both its threads take A before B;
  and `README.md:287` calls what is to be expected of tests 11 to 13
  "Timing-dependent". `GraphIsObserved` does not take sides: it wants the graph to
  hold only orders that were taken, and all those in which a thread would have waited.
  The other properties (`HeldOrdersRecorded`, `CyclesNoticed`, the refinement) are about
  the orders the code chooses to record, and these include a trylock's.
* **A wake-up can be lost on x86** (`rb_lost_wakeup`). The worker's clearing of
  `work_pending` is not ordered before its reading of the rings. A producer
  enqueues behind the worker's back, sees the old flag and does not post; the
  worker sleeps with the event queued. `rb_backend`, with the same late store,
  shows that nothing is lost for good: the next event or the shutdown wakes the
  worker. A cycle in the event goes unreported until then. With a thread that was not
  joined the same can happen behind the post of the shutdown: the worker consumes it,
  finds a ring not empty, misses the wake-up and sleeps, and the destructor waits in
  `pthread_join` until that thread nests mutexes again (`StopWakesWorker` fails with
  `StoreBuffers`; it is checked and proved without).

## 4. What is proved

All theorems hold for every number of threads and mutexes and all limits.
TLAPS checks every step; the assumptions are the named `ASSUME`s of the
modules (disjointness of the null values, positive limits, no more threads than
thread slots), which TLC evaluates in the runs. Where a theorem assumes more of the
program or the memory, it says so in an `ASSUME` of its own; each such assumption is
one without which a run shows the statement false, or is named below.

**Types** (`ActualDeadlockProofs!TypeCorrect`, `GlobalGraphProofs!TypeCorrect`,
`RbBackendProofs!TypeCorrect`, `RegistryProofs!TypeCorrect`): the first in every
configuration, store buffers and all kinds of mutexes.

**Held stacks** (`ActualDeadlockProofs!HeldStackCorrect`), also in every
configuration: a stack lists each mutex as often as its thread has locked it.
`MirrorInv` states it for every place in the hooks, and that the fast path for
threads with nothing held is taken with nothing held. The rest is counting:
appending adds one position of the entry (`CountAppend`), removing the topmost
matching entry takes one away and no other (`CountRemoveHeld`), and there is a
topmost one because `<` on the naturals is well-founded (`TopPosition`).

**Waits** (`ActualDeadlockProofs!WaitsCorrect`), again in every configuration: a wait
does not stay published after its call, whichever way the call ends. With store
buffers a word in memory says little; `WaitInv` says that a wait in memory is that of
the call in progress or a clearing store (`Clear`) is in its thread's buffer, and that a
wait in the buffer is that of the call in progress.

**Owner records** (`ActualDeadlockProofs!OwnershipCorrect`), with store buffers or
without, under `PlainMutexes`: no recursive mutexes, none used with condition
variables; locking may fail. A store of an owner in the buffer of a thread is of a
mutex it has, and an unlock, a locked instruction, empties the buffer first; that is
why the late owner store cannot outlive the ownership (`HolderRight`, `OwnerRight`).

**Completeness of the detector** (`ActualDeadlockProofs!DetectorComplete`), under
`OrdinaryMutexes`: sequential consistency, no recursive mutexes, none used with
condition variables. (Without any of the three it is false; see above.)
`NoUndetectedDeadlock` is not inductive: it says nothing of threads that are
still walking. The argument:

1. *Books*: what a place in the hooks says about real mutex, owner record,
   stack and published wait. Inductive by itself.
2. *The last one walks*: `DetectorAlive` says that in every circular wait some
   thread has found it or is walking around it, and the circle does not exist
   without that thread. Nobody in such a circle can move except by walking, so
   the records the walk will read are fixed; and a thread that has just closed
   a circle has just begun its walk.
3. *The hop limit does not bite*: an owner never repeats on the track, so by
   pigeonhole the walk is shorter than the number of thread slots.
4. A blocked circle has no walker, hence does not exist (`DetectorComplete`).

**Soundness, as far as it goes** (`ActualDeadlockProofs!UndisturbedReportIsReal`),
under `OrdinaryMutexes` and `NoFailures`: mutexes whose locking does not return an
error. A report need not be true (`false_report`), but if nobody on its chain released
a mutex or gave up waiting during the walk it is. `WalkTrue` says what a walk in
progress knows: each owner on an undisturbed chain still holds its mutex and waits
for the next one, or is the last owner and just leaving the hook, and then the walk
is about to end there.

**The abstract back end** (`LockOrderProofs`): if the graph is acyclic and the
new edge closes no cycle then the graph stays acyclic. Non-reachability is
witnessed by a closed set; given one for the new edge and one for an old edge,
their union or their intersection serves in the new graph. No path is ever
followed, so no induction over paths is needed.

**The global back end** (`GlobalGraphProofs`):
`LockInv` adds to the types that a thread in the critical section owns the spin
lock, that a search result is still true at the insertion, that inserted edges
stay, and that no two threads are about to print one edge (the abstract `Report`
takes the edge out of `pending`). With it every step is a step of `LockOrder` or
a stutter (`BackendImplementsLockOrder`), and `CyclesAreNoticed` and
`ReportsAreOnCycles` follow from the abstract theorems through the refinement.
`RecordInv` adds what the insertion loop has done so far (`LoopDone`) and gives
`BitsMatchGraph`, `HeldOrdersAreRecorded` and `GraphMatchesObserved`.

**The search** (`PathSearchProofs`), for any number of slots and any graph. A search by
recursion, but no induction over its calls or over paths is needed. Calls under way
are a simple path from the root, linked by the pointers (`CallsArePath`), so
the depth is bounded by pigeonhole (`TypeCorrect`). `VisitedReached`: what is visited
can be reached. `NothingForgotten`: an edge from a visited slot leads to a visited one,
or is still ahead of the loop of a call under way, whose limit covers every slot with
edges (`CallsSeeEdges`). When the last call returns, nothing is
ahead, so the visited slots are closed and shut out the target (`SearchCorrect`). When
the target is found the pointers along the calls are frozen, and the walk back reads
the calls from the last to the first (`ChainRight`), which gives `ChainCorrect`.

**The rb back end** (`RbBackendProofs`), for any number of threads, any ring
capacity, any index range it divides, with the late store or without:

* `TypeCorrect`. `TypeInv` adds that a queued event holds orders only, that a
  thread has an event in hand only where it is to enqueue it, and that one
  thread creates a worker. The part that is not mere
  typing: `tail - head` in unsigned arithmetic never exceeds the capacity, and
  the worker advances only a ring that is not empty (`RingArithmetic`).
* `ReachabilityIsClosure`. Of two graphs that differ in one edge,
  `ClosureGrows` says how reachability by at least one edge differs; that is
  what `lockdep_rb_update_reachability` computes. Again by closed sets, without
  induction over paths; cyclic graphs are no special case.
* `BackendImplementsLockOrder`: the edge in hand is in the batch and not in the
  graph (`HandInBatch`), and the bits say of an edge what a search of the graph
  says (`BitsFindCycles`), so an edge inserted without a report closes no cycle.
* `OrdersAreKept`. What is in the graph, the batch, the rings and the threads' hands
  only moves in that direction, unless the policy drops it. An enqueue never
  overwrites a queued slot, for the indices wrap where the ring does; the worker
  holds an event's orders in its batch before the event leaves the ring, and has
  them in the graph before it forgets the batch (`BatchInv`).
* `ShutdownIsComplete`. `DrainInv`: from the stop flag on, what is owed is in the graph,
  in the batch, or in a ring the worker has not looked at; while it makes its
  last round its batch is in the graph. Nobody creates a worker while the destructor
  waits for the one there is.
* `WorkerSleepsRight`, on sequentially consistent memory (with the late store it is
  false, `rb_lost_wakeup`). `WakeInv`: while the worker is on its way to sleep,
  `work_pending` means a post given or about to be, and a ring it has passed and
  that is not empty means `work_pending`, or a thread about to set it.

* `StopIsHeard`, on sequentially consistent memory. `StopInv`: once the stop has been
  posted, a worker in `sem_wait` has a post to come or a ring that is not empty, since
  emptiness of all rings is what it looks for before it ends. With `WakeInv` the
  latter has a post on its way.
* `BackendImplementsEventQueues`. Every access to a ring is a `Put`, a `Take` or a
  stutter of its queue: `tail % Capacity` is the slot behind the last queued one, also
  where the index wraps, because the index range is a multiple of the capacity. The
  worker's `head` store is a stutter, and a new drain is `NewBatch` (`BatchInv`).
* `OrdersAreReal`. `SeenInv`: whatever is in the graph, the batch, a ring or a hand was
  observed. An acyclic program can never be reported: by `LockOrder`'s theorem, through
  the refinement, a reported edge is on a cycle of the graph.
* `CyclesAreNoticed`, from the refinement and the theorem about `LockOrder`.

These hold with threads that outlive the destructor and any number of workers, one
after the other: `StartedOnce`, a part of `TypeInv`, says that one thread creates a
worker, and only when there is none.

**The registry** (`RegistryProofs`), for any cache layout, any reuse of tids and any
table sizes. All six properties of its run are theorems.

* `IInv` is inductive. Beside types and places (`Control`) it says that whoever is in
  a critical section has the spin lock and nobody else (`MetaLockGivenBack`), that
  the slot about to be counted is filled and its key not yet in the table
  (`Pending`), that counted lock slots have different mutexes (`Counted`) and that
  slots in hands and caches were counted (`SlotsHeld`). Arrays that only grow
  (`TablesGrow`) keep what a thread resolved long ago right.
* `LockTableImplemented`, `ThreadTableImplemented`: `CountLockSlot` is `Append` of a
  key that is not there (`TableAppend`), everything else a stutter.
* `NamesCorrect` needs two more inductive parts: an acquire in progress has its
  mutex (`Holding`), and each owner word names a thread that has the mutex, is
  giving it back or waits in `pthread_cond_wait` for it, or the mutex is `Gone`
  (`OwnersNamed`); and `WaitsNamed` for wait words. The acquires and releases that no
  hook sees are steps of `Next`, so the theorem holds with them: a wait on the
  condition variable makes the thread one that has given back, a wake-up one that has
  the mutex, whatever the word says by then.

**Call sites** (`CallSitesProofs`). `SitesKeepDetector` holds in every configuration: a
behaviour with sites is one of the detector, so all that is proved of the detector
holds with call sites too. The others assume `OrdinaryMutexes`. `SiteBook` extends
the detector's *Books*: which accesses to sites are due at which place in the hooks
(`DuePlaces`); a wait's site is there from the store after the wait's to the one after
its end (`WaitSite`); whoever holds a mutex has stored its site, which only a late
clear can have erased, or has neither stored it nor its owner word (`OwnerSite`);
a free mutex has none, or its clear is due (`FreeSite`). This gives `SitesCorrect` and
`SitesCleared`. `ReportsCorrect` adds that a report's remaining reads are the last
ones of its chain in order (`PrintsChain`): if the chain is the case, what it
reads at each hop is the site of a wait or acquire in it, or unknown.

### Only model-checked

All liveness (`DeadlockEventuallyReported`, `EventuallyRecorded`, `AcquiresEnd`,
`ShutdownEnds`, `SearchEnds`), which is out of the prover's reach. Every invariant, action
property and refinement of a passing run is a theorem; those with an assumption about
memory or mutexes need it, as the violations show, with these exceptions: the call
sites of recursive mutexes and with store buffers are neither checked nor proved.

## 5. Not modelled

* The call sites and held locks stored with each edge of the two graphs. They are
  written once, together with the edge and, in global mode, under the lock that a
  copying search holds; in rb mode by the worker only.
* Semaphore and thread calls that fail in rb mode (the program ends in a panic).
* The end of the process by `_exit(66)` or by `exit` while other threads are in the
  back ends: `_exit(66)` skips the destructor, so what is in the rings is lost; and a
  thread that has inserted an edge in global mode may not come to print its cycle.
* `pthread_mutex_timedlock` and other calls that are not interposed, other than
  `pthread_cond_wait`, but for the acquires of `Registry`'s `Unseen` mutexes; robust and priority-inheriting mutexes.
* In `ActualDeadlock` and the back ends: threads that end and start. They are in
  `Registry`, where a thread may exit holding mutexes and a new one reuse its tid.
* The report of an actual deadlock without call sites prints only the first thread
  of the chain (`log.c:304-309`), whereas `lockdep/README.md:80-84` has it print the
  live wait chain. It takes no model to see that; none is made of it.
* Report texts, debug output, backtraces, symbol lookup.
* An error-checking mutex that its owner locks again: the code exits 66, and the
  model follows it; the repository does not say what is expected.
* Start-up, tests, benchmarks and scripts.

## 6. Plan

The components are modelled, and every safety property of the runs is proved. Left are

1. Call sites of recursive mutexes, where the inner unlock clears the record.
2. The information stored with an edge, should the code ever change it after the edge
   is inserted.

## 7. Running

    tlc -config ActualDeadlock.cfg MCActualDeadlock
    tlc -config GlobalGraph.cfg MCGlobalGraph
    tlc -config PathSearch.cfg PathSearch
    tlc -config RbBackend.cfg MCRbBackend
    tlc -config ActualDeadlockLive.cfg MCCallSites
    tlc -config Registry.cfg MCRegistry
    tlapm GlobalGraphProofs.tla
    tlapm CallSitesProofs.tla
