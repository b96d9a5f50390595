------------------------------ MODULE Registry -------------------------------
(***************************************************************************)
(* The registry of lock and thread slots (state.c, the lookups of          *)
(* lockdep.h) and the names a report prints for them (log.c): two arrays   *)
(* that only grow, under one spin lock, a cache of lock slots per thread,  *)
(* and the words in them that other threads read without the lock.         *)
(*                                                                         *)
(* A hook resolves its thread's slot, then its mutex's slot, then uses     *)
(* both: it writes the owner word (acquire), clears it (release) or writes *)
(* the wait word (block; the walk is ActualDeadlock's).  One step is one   *)
(* access to shared memory outside the spin lock, and one store or scan    *)
(* under it.  All stores under the lock, and its release, reach memory in  *)
(* their order, so sequential consistency is enough.                       *)
(*                                                                         *)
(* Mutexes also change hands where the hooks do not look: a function that  *)
(* is not interposed locks one (AcquireUnseen), pthread_cond_wait gives    *)
(* one back and gets it again (CondWait, CondWake).                        *)
(*                                                                         *)
(* A member of Threads is a place for a thread: one ends there and another *)
(* starts, to which the kernel gives any tid that no living thread has.    *)
(***************************************************************************)
EXTENDS Integers

CONSTANTS
    Threads,        \* threads alive at the same time
    Tids,           \* Linux thread ids
    Mutexes,        \* addresses
    Unseen,         \* mutexes also locked by a function that is not interposed
    CondMutexes,    \* mutexes passed to pthread_cond_wait
    NoThread, Gone, NoTid, NullAddr,
    CacheIndex,     \* lockdep_tls_lock_cache_index
    CacheEntries,   \* LOCKDEP_TLS_LOCK_CACHE_SIZE
    MaxLockSlots,   \* LOCKDEP_MAX_LOCK_SLOTS
    MaxThreadSlots, \* LOCKDEP_MAX_THREAD_SLOTS
    MaxCalls        \* bound on calls of hooks

ASSUME RegistryAssumption ==
    /\ NoThread \notin Threads /\ Gone \notin Threads /\ NoThread # Gone
    /\ NoTid \notin Tids
    /\ NullAddr \notin Mutexes
    /\ Unseen \subseteq Mutexes
    /\ CondMutexes \subseteq Mutexes
    /\ CacheEntries \in Nat \ {0}
    /\ CacheIndex \in [Mutexes -> 0..(CacheEntries - 1)]
    /\ MaxLockSlots \in Nat \ {0}
    /\ MaxThreadSlots \in Nat \ {0}
    /\ MaxCalls \in Nat

VARIABLES
    metaLock,      \* g_meta_lock
    lockAddr,      \* g_lock_slots[].addr
    lockOwner,     \* g_lock_slots[].owner_thread_slot
    lockCount,     \* g_lock_slot_count
    threadTid,     \* g_thread_slots[].tid
    threadWaiting, \* g_thread_slots[].waiting_on_lock_slot
    threadCount,   \* g_thread_slot_count
    tid,           \* the thread's id, NoTid when there is none
    tlsSlot,       \* tls_thread_slot
    cache,         \* tls_lock_slot_cache
    held,          \* the set of tls_thread_state.held_lock_slots
    pc, op, arg,   \* where a thread is, in which hook, on which mutex
    calls,         \* hooks called so far, by all threads
    slot,          \* its local lock_slot
    holder,        \* of the real mutexes: Gone when it ended without an unlock
    status         \* the process: running, or ended by a panic

lockVars   == <<lockAddr, lockOwner, lockCount>>
threadVars == <<threadTid, threadWaiting, threadCount>>
callVars   == <<op, arg, calls>>
vars == <<metaLock, lockVars, threadVars, tid, tlsSlot, cache, held, pc, callVars, slot,
          holder, status>>

Invalid     == -1
LockSlots   == 0..(MaxLockSlots - 1)
ThreadSlots == 0..(MaxThreadSlots - 1)
CacheSlots  == 0..(CacheEntries - 1)
Entries     == [mutex : Mutexes \cup {NullAddr}, slot : LockSlots]
NoEntry     == [mutex |-> NullAddr, slot |-> 0]

\* Static storage is zero, and 0 is a valid slot.
Init ==
    /\ metaLock = NoThread
    /\ lockAddr      = [s \in LockSlots |-> NullAddr]
    /\ lockOwner     = [s \in LockSlots |-> 0]
    /\ threadTid     = [s \in ThreadSlots |-> NoTid]
    /\ threadWaiting = [s \in ThreadSlots |-> 0]
    /\ lockCount = 0 /\ threadCount = 0
    /\ tid     = [t \in Threads |-> NoTid]
    /\ tlsSlot = [t \in Threads |-> Invalid]
    /\ cache   = [t \in Threads |-> [i \in CacheSlots |-> NoEntry]]
    /\ held    = [t \in Threads |-> {}]
    /\ pc      = [t \in Threads |-> "idle"]
    /\ op      = [t \in Threads |-> "none"]
    /\ arg     = [t \in Threads |-> NullAddr]
    /\ slot    = [t \in Threads |-> Invalid]
    /\ calls   = 0
    /\ holder  = [m \in Mutexes |-> NoThread]
    /\ status  = "running"

Goto(t, point) == pc' = [pc EXCEPT ![t] = point]

Return(t) ==
    /\ Goto(t, "idle")
    /\ op'   = [op EXCEPT ![t] = "none"]
    /\ arg'  = [arg EXCEPT ![t] = NullAddr]
    /\ slot' = [slot EXCEPT ![t] = Invalid]
    /\ UNCHANGED calls

Alive(t) == tid[t] # NoTid

-----------------------------------------------------------------------------
(* Threads come and go.                                                    *)

Start(t, i) ==
    /\ ~Alive(t)
    /\ \A u \in Threads : tid[u] # i
    /\ tid' = [tid EXCEPT ![t] = i]
    /\ UNCHANGED <<metaLock, lockVars, threadVars, tlsSlot, cache, held, pc, callVars, slot,
                   holder, status>>

\* Thread-local storage goes with the thread; its mutexes stay locked.
Exit(t) ==
    /\ Alive(t) /\ pc[t] = "idle"
    /\ tid'     = [tid EXCEPT ![t] = NoTid]
    /\ tlsSlot' = [tlsSlot EXCEPT ![t] = Invalid]
    /\ cache'   = [cache EXCEPT ![t] = [i \in CacheSlots |-> NoEntry]]
    /\ held'    = [held EXCEPT ![t] = {}]
    /\ holder'  = [m \in Mutexes |-> IF holder[m] = t THEN Gone ELSE holder[m]]
    /\ UNCHANGED <<metaLock, lockVars, threadVars, pc, callVars, slot, status>>

-----------------------------------------------------------------------------
(* The thread-local cache.                                                 *)

Entry(t, m) == cache[t][CacheIndex[m]]

\* Mutant: the address is not compared.
HitsAnything(t, m) == Entry(t, m).mutex # NullAddr

\* lockdep_lookup_lock_slot_in_cache
Hits(t, m) == Entry(t, m).mutex = m

\* The thread's slot is known: the mutex's comes next.
FindLockSlot(t, m) ==
    IF Hits(t, m)
    THEN Goto(t, "use") /\ slot' = [slot EXCEPT ![t] = Entry(t, m).slot]
    ELSE Goto(t, "look") /\ UNCHANGED slot

\* A hook begins, with lockdep_current_thread_slot.
Enter(t, m, o) ==
    /\ Alive(t) /\ pc[t] = "idle" /\ calls < MaxCalls
    /\ calls' = calls + 1
    /\ op'  = [op EXCEPT ![t] = o]
    /\ arg' = [arg EXCEPT ![t] = m]
    /\ IF tlsSlot[t] = Invalid
       THEN Goto(t, "reg") /\ UNCHANGED slot
       ELSE FindLockSlot(t, m)
    /\ UNCHANGED <<metaLock, lockVars, threadVars, tid, tlsSlot, cache, held, status>>

\* The real lock, then the hook's bookkeeping.
Acquire(t, m) ==
    /\ holder[m] = NoThread
    /\ holder' = [holder EXCEPT ![m] = t]
    /\ Enter(t, m, "acquire")

\* The real unlock, then the bookkeeping.
Release(t, m) ==
    /\ holder[m] = t
    /\ holder' = [holder EXCEPT ![m] = NoThread]
    /\ Enter(t, m, "release")

\* The slot lies on top of the held stack: its address is compared, nothing is
\* looked up.
ReleaseTop(t, m) ==
    /\ Alive(t) /\ pc[t] = "idle" /\ calls < MaxCalls
    /\ holder[m] = t
    /\ holder' = [holder EXCEPT ![m] = NoThread]
    /\ \E s \in held[t] :
          /\ lockAddr[s] = m
          /\ slot' = [slot EXCEPT ![t] = s]
    /\ calls' = calls + 1
    /\ op'  = [op EXCEPT ![t] = "release"]
    /\ arg' = [arg EXCEPT ![t] = m]
    /\ Goto(t, "use")
    /\ UNCHANGED <<metaLock, lockVars, threadVars, tid, tlsSlot, cache, held, status>>

\* The mutex is busy: lockdep_before_blocking_mutex_lock.  (A thread that holds
\* nothing calls the real function at once.)
Block(t, m) ==
    /\ held[t] # {}
    /\ holder[m] \notin {t, NoThread}
    /\ UNCHANGED holder
    /\ Enter(t, m, "block")

\* A lock function without a hook.
AcquireUnseen(t, m) ==
    /\ Alive(t) /\ pc[t] = "idle"
    /\ m \in Unseen
    /\ holder[m] = NoThread
    /\ holder' = [holder EXCEPT ![m] = t]
    /\ UNCHANGED <<metaLock, lockVars, threadVars, tid, tlsSlot, cache, held, pc, callVars,
                   slot, status>>

\* pthread_cond_wait is not interposed: it unlocks the mutex ...
CondWait(t, m) ==
    /\ Alive(t) /\ pc[t] = "idle"
    /\ m \in CondMutexes
    /\ holder[m] = t
    /\ holder' = [holder EXCEPT ![m] = NoThread]
    /\ op'  = [op EXCEPT ![t] = "cond_wait"]
    /\ arg' = [arg EXCEPT ![t] = m]
    /\ Goto(t, "cond_wait")
    /\ UNCHANGED <<metaLock, lockVars, threadVars, tid, tlsSlot, cache, held, calls, slot,
                   status>>

\* ... and locks it again before it returns.
CondWake(t) ==
    /\ pc[t] = "cond_wait"
    /\ holder[arg[t]] = NoThread
    /\ holder' = [holder EXCEPT ![arg[t]] = t]
    /\ Return(t)
    /\ UNCHANGED <<metaLock, lockVars, threadVars, tid, tlsSlot, cache, held, status>>

-----------------------------------------------------------------------------
(* lockdep_meta_lock and lockdep_meta_unlock.                              *)

\* Mutant: the flag is not waited for.
MetaIgnored == TRUE

MetaFree == metaLock = NoThread

MetaLock(t) ==
    /\ pc[t] \in {"reg", "look"}
    /\ MetaFree
    /\ metaLock' = t
    /\ Goto(t, IF pc[t] = "reg" THEN "reg_scan" ELSE "scan")
    /\ UNCHANGED <<lockVars, threadVars, tid, tlsSlot, cache, held, callVars, slot, holder,
                   status>>

\* Mutant: the lock is kept when the mutex is unknown.
UnlockIfFound(t) == metaLock' = IF slot[t] = Invalid /\ pc[t] = "unlock" THEN metaLock ELSE NoThread

MetaUnlock(t) == metaLock' = NoThread

\* The table is full: unlock, then panic.
UnlockFull(t) ==
    /\ pc[t] \in {"reg_full", "full"}
    /\ MetaUnlock(t)
    /\ Goto(t, "panic")
    /\ UNCHANGED <<lockVars, threadVars, tid, tlsSlot, cache, held, callVars, slot, holder,
                   status>>

\* lockdep_panic
Panic(t) ==
    /\ pc[t] = "panic"
    /\ status' = "panic"
    /\ UNCHANGED <<metaLock, lockVars, threadVars, tid, tlsSlot, cache, held, pc, callVars,
                   slot, holder>>

-----------------------------------------------------------------------------
(* lockdep_get_or_register_thread_slot                                     *)

\* Mutant: a tid is never looked for.
NeverSeen(t) == {}

\* The slots with the thread's tid.
SlotsOfTid(t) == {s \in 0..(threadCount - 1) : threadTid[s] = tid[t]}

ScanThreads(t) ==
    /\ pc[t] = "reg_scan"
    /\ \/ \E s \in SlotsOfTid(t) :
            /\ tlsSlot' = [tlsSlot EXCEPT ![t] = s]
            /\ Goto(t, "reg_unlock")
            /\ UNCHANGED threadTid
       \/ /\ SlotsOfTid(t) = {} /\ threadCount >= MaxThreadSlots
          /\ Goto(t, "reg_full")
          /\ UNCHANGED <<tlsSlot, threadTid>>
       \/ /\ SlotsOfTid(t) = {} /\ threadCount < MaxThreadSlots
          /\ threadTid' = [threadTid EXCEPT ![threadCount] = tid[t]]
          /\ Goto(t, "reg_init")
          /\ UNCHANGED tlsSlot
    /\ UNCHANGED <<metaLock, lockVars, threadWaiting, threadCount, tid, cache, held, callVars,
                   slot, holder, status>>

\* Mutant: the wait word is left as it is.
WaitWordLeft == UNCHANGED threadWaiting

InitWaitWord == threadWaiting' = [threadWaiting EXCEPT ![threadCount] = Invalid]

InitThreadSlot(t) ==
    /\ pc[t] = "reg_init"
    /\ InitWaitWord
    /\ Goto(t, "reg_count")
    /\ UNCHANGED <<metaLock, lockVars, threadTid, threadCount, tid, tlsSlot, cache, held,
                   callVars, slot, holder, status>>

CountThreadSlot(t) ==
    /\ pc[t] = "reg_count"
    /\ threadCount' = threadCount + 1
    /\ tlsSlot' = [tlsSlot EXCEPT ![t] = threadCount]
    /\ Goto(t, "reg_unlock")
    /\ UNCHANGED <<metaLock, lockVars, threadTid, threadWaiting, tid, cache, held, callVars,
                   slot, holder, status>>

EndRegistration(t) ==
    /\ pc[t] = "reg_unlock"
    /\ MetaUnlock(t)
    /\ FindLockSlot(t, arg[t])
    /\ UNCHANGED <<lockVars, threadVars, tid, tlsSlot, cache, held, callVars, holder, status>>

-----------------------------------------------------------------------------
(* lockdep_lookup_lock_slot (release) and                                  *)
(* lockdep_lookup_or_create_lock_slot (acquire, block).                    *)

\* Mutant: one slot too many.
FullTooLate == lockCount > MaxLockSlots

LockTableFull == lockCount >= MaxLockSlots

SlotsOfMutex(m) == {s \in 0..(lockCount - 1) : lockAddr[s] = m}

ScanLocks(t) ==
    LET known == SlotsOfMutex(arg[t])
        create == op[t] # "release"
    IN
    /\ pc[t] = "scan"
    /\ \/ \E s \in known :
            /\ slot' = [slot EXCEPT ![t] = s]
            /\ Goto(t, "unlock")
            /\ UNCHANGED lockAddr
       \/ /\ known = {} /\ ~create
          /\ Goto(t, "unlock")
          /\ UNCHANGED <<slot, lockAddr>>
       \/ /\ known = {} /\ create /\ LockTableFull
          /\ Goto(t, "full")
          /\ UNCHANGED <<slot, lockAddr>>
       \/ /\ known = {} /\ create /\ ~LockTableFull
          /\ lockAddr' = [lockAddr EXCEPT ![lockCount] = arg[t]]
          /\ Goto(t, "init")
          /\ UNCHANGED slot
    /\ UNCHANGED <<metaLock, lockOwner, lockCount, threadVars, tid, tlsSlot, cache, held,
                   callVars, holder, status>>

\* Mutant: the owner word is left as it is.
OwnerWordLeft == UNCHANGED lockOwner

InitOwnerWord == lockOwner' = [lockOwner EXCEPT ![lockCount] = Invalid]

InitLockSlot(t) ==
    /\ pc[t] = "init"
    /\ InitOwnerWord
    /\ Goto(t, "count")
    /\ UNCHANGED <<metaLock, lockAddr, lockCount, threadVars, tid, tlsSlot, cache, held,
                   callVars, slot, holder, status>>

CountLockSlot(t) ==
    /\ pc[t] = "count"
    /\ lockCount' = lockCount + 1
    /\ slot' = [slot EXCEPT ![t] = lockCount]
    /\ Goto(t, "unlock")
    /\ UNCHANGED <<metaLock, lockAddr, lockOwner, threadVars, tid, tlsSlot, cache, held,
                   callVars, holder, status>>

\* lockdep_store_lock_slot_in_cache; a release of an unknown mutex is over.
EndLookup(t) ==
    /\ pc[t] = "unlock"
    /\ MetaUnlock(t)
    /\ IF slot[t] = Invalid
       THEN Return(t) /\ UNCHANGED cache
       ELSE /\ cache' = [cache EXCEPT ![t][CacheIndex[arg[t]]] =
                            [mutex |-> arg[t], slot |-> slot[t]]]
            /\ Goto(t, "use")
            /\ UNCHANGED <<callVars, slot>>
    /\ UNCHANGED <<lockVars, threadVars, tid, tlsSlot, held, holder, status>>

-----------------------------------------------------------------------------
(* What the slots are for.                                                 *)

PublishOwner(t) ==
    /\ pc[t] = "use" /\ op[t] = "acquire"
    /\ held' = [held EXCEPT ![t] = @ \cup {slot[t]}]
    /\ lockOwner' = [lockOwner EXCEPT ![slot[t]] = tlsSlot[t]]
    /\ Return(t)
    /\ UNCHANGED <<metaLock, lockAddr, lockCount, threadVars, tid, tlsSlot, cache, holder,
                   status>>

ClearOwner(t) ==
    /\ pc[t] = "use" /\ op[t] = "release"
    /\ lockOwner' = [lockOwner EXCEPT ![slot[t]] = IF @ = tlsSlot[t] THEN Invalid ELSE @]
    /\ held' = [held EXCEPT ![t] = @ \ {slot[t]}]
    /\ Return(t)
    /\ UNCHANGED <<metaLock, lockAddr, lockCount, threadVars, tid, tlsSlot, cache, holder,
                   status>>

PublishWait(t) ==
    /\ pc[t] = "use" /\ op[t] = "block"
    /\ threadWaiting' = [threadWaiting EXCEPT ![tlsSlot[t]] = slot[t]]
    /\ Goto(t, "waiting")
    /\ UNCHANGED <<metaLock, lockVars, threadTid, threadCount, tid, tlsSlot, cache, held,
                   callVars, slot, holder, status>>

\* The wait ends (here always as with an error: lockdep_cancel_wait).
ClearWait(t) ==
    /\ pc[t] = "waiting"
    /\ threadWaiting' = [threadWaiting EXCEPT ![tlsSlot[t]] = Invalid]
    /\ Return(t)
    /\ UNCHANGED <<metaLock, lockVars, threadTid, threadCount, tid, tlsSlot, cache, held,
                   holder, status>>

-----------------------------------------------------------------------------
Internal(t) ==
    \/ MetaLock(t) \/ UnlockFull(t) \/ Panic(t)
    \/ ScanThreads(t) \/ InitThreadSlot(t) \/ CountThreadSlot(t) \/ EndRegistration(t)
    \/ ScanLocks(t) \/ InitLockSlot(t) \/ CountLockSlot(t) \/ EndLookup(t)
    \/ PublishOwner(t) \/ ClearOwner(t) \/ PublishWait(t) \/ ClearWait(t)

Call(t) ==
    \/ \E i \in Tids : Start(t, i)
    \/ Exit(t)
    \/ \E m \in Mutexes :
          \/ Acquire(t, m) \/ AcquireUnseen(t, m)
          \/ Release(t, m) \/ ReleaseTop(t, m)
          \/ Block(t, m) \/ CondWait(t, m)
    \/ CondWake(t)

Next ==
    /\ status = "running"
    /\ \E t \in Threads : Internal(t) \/ Call(t)

Spec == Init /\ [][Next]_vars

-----------------------------------------------------------------------------
(* Properties.                                                             *)

Points == {"idle", "reg", "reg_scan", "reg_init", "reg_count", "reg_unlock", "reg_full",
           "look", "scan", "init", "count", "unlock", "full", "panic", "use", "waiting",
           "cond_wait"}

\* Every variable has its type.
TypeOK ==
    /\ metaLock      \in Threads \cup {NoThread}
    /\ lockAddr      \in [LockSlots -> Mutexes \cup {NullAddr}]
    /\ lockOwner     \in [LockSlots -> ThreadSlots \cup {Invalid}]
    /\ lockCount     \in 0..MaxLockSlots
    /\ threadTid     \in [ThreadSlots -> Tids \cup {NoTid}]
    /\ threadWaiting \in [ThreadSlots -> LockSlots \cup {Invalid}]
    /\ threadCount   \in 0..MaxThreadSlots
    /\ tid     \in [Threads -> Tids \cup {NoTid}]
    /\ tlsSlot \in [Threads -> ThreadSlots \cup {Invalid}]
    /\ cache   \in [Threads -> [CacheSlots -> Entries]]
    /\ pc      \in [Threads -> Points]
    /\ held    \in [Threads -> SUBSET LockSlots]
    /\ op      \in [Threads -> {"none", "acquire", "release", "block", "cond_wait"}]
    /\ arg     \in [Threads -> Mutexes \cup {NullAddr}]
    /\ slot    \in [Threads -> LockSlots \cup {Invalid}]
    /\ calls   \in 0..MaxCalls
    /\ holder  \in [Mutexes -> Threads \cup {NoThread, Gone}]
    /\ status  \in {"running", "panic"}

\* lockdep_print_lock_slot and lockdep_print_thread_slot read count and entry
\* without the lock.
PrintLockSlot(s) == IF s \in 0..(lockCount - 1) THEN lockAddr[s] ELSE NullAddr

PrintThreadSlot(s) == IF s \in 0..(threadCount - 1) THEN threadTid[s] ELSE NoTid

\* Every slot a thread has in its hands, or in its cache, is complete and is
\* the one of its mutex, or of itself, and no two living threads share one.
SlotsAreRight ==
    /\ \A t \in Threads :
          /\ \A i \in CacheSlots : cache[t][i].mutex # NullAddr =>
                PrintLockSlot(cache[t][i].slot) = cache[t][i].mutex
          /\ slot[t] # Invalid => PrintLockSlot(slot[t]) = arg[t]
          /\ tlsSlot[t] # Invalid => PrintThreadSlot(tlsSlot[t]) = tid[t]
    /\ \A t, u \in Threads :
          tlsSlot[t] = tlsSlot[u] /\ tlsSlot[t] # Invalid => t = u

\* What a report prints is so.  An owner word names, by its tid, a thread that
\* holds the mutex, is giving it back, or has given it to pthread_cond_wait and
\* waits there (nobody clears the word then: another thread may hold the mutex),
\* or the mutex is one that a thread left locked when it ended; a wait word names
\* a living thread and the mutex it waits for.  A new slot names nobody, although
\* its memory is zero and 0 is a valid slot.
ReportNamesAreRight ==
    /\ \A s \in 0..(lockCount - 1) : lockOwner[s] # Invalid =>
          \/ holder[lockAddr[s]] = Gone
          \/ \E t \in Threads :
                /\ PrintThreadSlot(lockOwner[s]) = tid[t]
                /\ \/ holder[lockAddr[s]] = t
                   \/ op[t] \in {"release", "cond_wait"} /\ arg[t] = lockAddr[s]
    /\ \A s \in 0..(threadCount - 1) : threadWaiting[s] # Invalid =>
          \E t \in Threads :
              /\ tlsSlot[t] = s /\ pc[t] = "waiting"
              /\ PrintThreadSlot(s) = tid[t]
              /\ PrintLockSlot(threadWaiting[s]) = arg[t]

Locked == {"reg_scan", "reg_init", "reg_count", "reg_unlock", "reg_full",
           "scan", "init", "count", "unlock", "full"}

\* Whatever becomes of a lookup (found, created, unknown, table full), the thread
\* leaves it without the spin lock, which it had to itself until then; a panic
\* leaves it to the threads that are still running.
MetaLockGivenBack == \A t \in Threads : pc[t] \in Locked <=> metaLock = t

\* The two arrays implement append-only tables without duplicates.
LockTable == INSTANCE SlotTable WITH
    Keys <- Mutexes, Size <- MaxLockSlots,
    table <- [i \in 1..lockCount |-> lockAddr[i - 1]]

ThreadTable == INSTANCE SlotTable WITH
    Keys <- Tids, Size <- MaxThreadSlots,
    table <- [i \in 1..threadCount |-> threadTid[i - 1]]

LockSlotsAreATable == LockTable!Spec

ThreadSlotsAreATable == ThreadTable!Spec

=============================================================================
