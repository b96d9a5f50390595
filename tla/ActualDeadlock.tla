--------------------------- MODULE ActualDeadlock ---------------------------
(***************************************************************************)
(* The actual-deadlock detector: the interposed pthread_mutex_lock, unlock *)
(* and trylock (hook.c), the owner/waiting bookkeeping and the wait-chain  *)
(* walk (core.c), the top-level fast paths (lockdep.h) and the held-lock   *)
(* stack (state.c), around the real pthread mutexes.                       *)
(*                                                                         *)
(* One step is one access to shared memory (an atomic load, store or       *)
(* compare-and-swap, or a call of the real pthread function) together with *)
(* the thread-local code up to the next one.  A lock slot is identified    *)
(* with its mutex and a thread slot with its thread.  Call-site tracking   *)
(* is off (the default), and the potential-deadlock backend, which touches *)
(* none of this state, is left out.                                        *)
(***************************************************************************)
EXTENDS Integers, Sequences, FiniteSets, HeldStack

CONSTANTS
    Threads,         \* application threads (thread slots)
    Locks,           \* mutexes (lock slots)
    NoThread,        \* LOCKDEP_INVALID_SLOT as an owner
    NoLock,          \* LOCKDEP_INVALID_SLOT as a wait target
    Recursive,       \* mutexes of type PTHREAD_MUTEX_RECURSIVE
    ErrorCheck,      \* mutexes of type PTHREAD_MUTEX_ERRORCHECK
    MayFail,         \* mutexes whose blocking lock may return an error
    CondMutexes,     \* mutexes passed to pthread_cond_wait
    StoreBuffers,    \* TRUE: stores are buffered (x86-TSO); FALSE: seq. cst.
    MaxThreadSlots,  \* LOCKDEP_MAX_THREAD_SLOTS
    MaxHeldLockSlots \* LOCKDEP_MAX_HELD_LOCK_SLOTS

ASSUME ThreadsAssumption ==
    /\ IsFiniteSet(Threads)
    /\ NoThread \notin Threads

ASSUME LocksAssumption ==
    /\ NoLock \notin Locks
    /\ Recursive \subseteq Locks
    /\ ErrorCheck \subseteq Locks
    /\ MayFail \subseteq Locks
    /\ CondMutexes \subseteq Locks
    /\ Recursive \cap ErrorCheck = {}

\* The registry panics before a thread without a slot gets this far.
ASSUME LimitsAssumption ==
    /\ StoreBuffers \in BOOLEAN
    /\ MaxThreadSlots \in Nat
    /\ Cardinality(Threads) <= MaxThreadSlots
    /\ MaxHeldLockSlots \in Nat \ {0}

VARIABLES
    holder,     \* real mutex: the thread that holds it
    depth,      \* real mutex: how often the holder has locked it
    owner,      \* g_lock_slots[m].owner_thread_slot
    waiting,    \* g_thread_slots[t].waiting_on_lock_slot
    held,       \* tls_thread_state.held_lock_slots[0 .. count-1] of t
    pc,         \* where thread t is inside the hooks
    arg,        \* the mutex argument of t's current call
    cur,        \* current_lock_slot of t's wait-chain walk
    chain,      \* t's lock_chain and thread_chain[1..], hop by hop
    sb,         \* t's store buffer
    status,     \* the process: running, or how it exited
    disturbed   \* history: who released or backed off during t's walk

vars == <<holder, depth, owner, waiting, held, pc, arg, cur, chain, sb,
          status, disturbed>>

mutexVars == <<holder, depth>>
walkVars  == <<cur, chain>>

-----------------------------------------------------------------------------
(* Program points. *)

WalkPoints    == {"load_owner", "load_waiting"}
WaitPoints    == WalkPoints \cup {"real_lock", "exit66"}
AcquirePoints == {"top_acquire", "acquire", "acquire_wait", "store_owner"}
Points        == {"idle", "top_lock", "before_block", "release", "cond_wait"}
                    \cup WaitPoints \cup AcquirePoints

Hop   == [lock : Locks, owner : Threads]
Store == [loc : {"waiting", "owner"}, lock : Locks \cup {NoLock}]

Init ==
    /\ holder    = [m \in Locks |-> NoThread]
    /\ depth     = [m \in Locks |-> 0]
    /\ owner     = [m \in Locks |-> NoThread]
    /\ waiting   = [t \in Threads |-> NoLock]
    /\ held      = [t \in Threads |-> << >>]
    /\ pc        = [t \in Threads |-> "idle"]
    /\ arg       = [t \in Threads |-> NoLock]
    /\ cur       = [t \in Threads |-> NoLock]
    /\ chain     = [t \in Threads |-> << >>]
    /\ sb        = [t \in Threads |-> << >>]
    /\ status    = "running"
    /\ disturbed = [t \in Threads |-> {}]

-----------------------------------------------------------------------------
(* Helpers. *)

Goto(t, point) == pc' = [pc EXCEPT ![t] = point]

Return(t) ==
    /\ Goto(t, "idle")
    /\ arg' = [arg EXCEPT ![t] = NoLock]

\* memory_order_release stores: a plain store on x86, so it may sit in the
\* store buffer while the thread's later loads are already served.
StoreWaiting(t, m) ==
    IF StoreBuffers
    THEN /\ sb' = [sb EXCEPT ![t] = Append(@, [loc |-> "waiting", lock |-> m])]
         /\ UNCHANGED waiting
    ELSE /\ waiting' = [waiting EXCEPT ![t] = m]
         /\ UNCHANGED sb

StoreOwner(t, m) ==
    IF StoreBuffers
    THEN /\ sb' = [sb EXCEPT ![t] = Append(@, [loc |-> "owner", lock |-> m])]
         /\ UNCHANGED owner
    ELSE /\ owner' = [owner EXCEPT ![m] = t]
         /\ UNCHANGED sb

\* Locked instructions (the real pthread calls, the owner compare-and-swap)
\* wait until the store buffer is empty.
Fenced(t) == sb[t] = << >>

\* History: t takes a release step or gives up waiting while others walk.
Disturb(t) ==
    disturbed' = [w \in Threads |->
        IF pc[w] \in WalkPoints
        THEN disturbed[w] \cup {t} ELSE disturbed[w]]

-----------------------------------------------------------------------------
(* The real pthread mutex. *)

TrylockSucceeds(t, m) ==
    holder[m] = NoThread \/ (m \in Recursive /\ holder[m] = t)

RealAcquire(t, m) ==
    /\ holder' = [holder EXCEPT ![m] = t]
    /\ depth'  = [depth EXCEPT ![m] = @ + 1]

RealRelease(m) ==
    /\ depth'  = [depth EXCEPT ![m] = @ - 1]
    /\ holder' = [holder EXCEPT ![m] = IF depth[m] = 1 THEN NoThread ELSE @]

LockFails(t, m) ==
    m \in MayFail \/ (m \in ErrorCheck /\ holder[m] = t)

-----------------------------------------------------------------------------
(* pthread_mutex_lock and pthread_mutex_trylock. *)

\* pthread_mutex_lock with nothing held: straight into the real lock.
LockTop(t, m) ==
    /\ pc[t] = "idle" /\ held[t] = << >>
    /\ Goto(t, "top_lock")
    /\ arg' = [arg EXCEPT ![t] = m]
    /\ UNCHANGED <<mutexVars, owner, waiting, held, walkVars, sb, status,
                   disturbed>>

RealLockTop(t) ==
    /\ pc[t] = "top_lock" /\ Fenced(t)
    /\ holder[arg[t]] = NoThread
    /\ RealAcquire(t, arg[t])
    /\ Goto(t, "top_acquire")
    /\ UNCHANGED <<owner, waiting, held, arg, walkVars, sb, status, disturbed>>

RealLockTopFails(t) ==
    /\ pc[t] = "top_lock" /\ Fenced(t)
    /\ LockFails(t, arg[t])
    /\ Return(t)
    /\ UNCHANGED <<mutexVars, owner, waiting, held, walkVars, sb, status,
                   disturbed>>

\* lockdep_acquire_top_level_mutex_fast.
AcquireTopLevelMutexFast(t) ==
    /\ pc[t] = "top_acquire"
    /\ held' = [held EXCEPT ![t] = <<arg[t]>>]
    /\ StoreOwner(t, arg[t])
    /\ Return(t)
    /\ UNCHANGED <<mutexVars, waiting, walkVars, status, disturbed>>

\* The real trylock succeeds: inside pthread_mutex_lock when a lock is held,
\* or in pthread_mutex_trylock (which returns at once when it is busy).
Trylock(t, m) ==
    /\ pc[t] = "idle" /\ Fenced(t)
    /\ TrylockSucceeds(t, m)
    /\ RealAcquire(t, m)
    /\ Goto(t, IF held[t] = << >> THEN "top_acquire" ELSE "acquire")
    /\ arg' = [arg EXCEPT ![t] = m]
    /\ UNCHANGED <<owner, waiting, held, walkVars, sb, status, disturbed>>

\* Inside pthread_mutex_lock with a lock held, the real trylock says EBUSY.
LockBusy(t, m) ==
    /\ pc[t] = "idle" /\ Fenced(t)
    /\ held[t] # << >>
    /\ ~TrylockSucceeds(t, m)
    /\ Goto(t, "before_block")
    /\ arg' = [arg EXCEPT ![t] = m]
    /\ UNCHANGED <<mutexVars, owner, waiting, held, walkVars, sb, status,
                   disturbed>>

-----------------------------------------------------------------------------
(* lockdep_before_blocking_mutex_lock and the wait-chain walk. *)

\* Publish the wait, then start the walk at the target.
BeforeBlockingMutexLock(t) ==
    /\ pc[t] = "before_block"
    /\ StoreWaiting(t, arg[t])
    /\ cur' = [cur EXCEPT ![t] = arg[t]]
    /\ Goto(t, "load_owner")
    /\ UNCHANGED <<mutexVars, owner, held, arg, chain, status, disturbed>>

\* Mutants: the loop stops one hop early; LOCKDEP_INVALID_SLOT is not tested.
WalkStopsEarly(l, n) == l # NoLock /\ n < MaxThreadSlots - 1
WalkIgnoresInvalid(l, n) == n < MaxThreadSlots

\* After n hops the last owner waits on l: does the walk load l's owner?
WalkContinues(l, n) == l # NoLock /\ n < MaxThreadSlots

\* The walk returns 0: its local variables are gone and the thread blocks.
EndWalk(t) ==
    /\ Goto(t, "real_lock")
    /\ cur'       = [cur EXCEPT ![t] = NoLock]
    /\ chain'     = [chain EXCEPT ![t] = << >>]
    /\ disturbed' = [disturbed EXCEPT ![t] = {}]

\* Load the owner of the current lock: no owner ends the walk, the walking
\* thread itself closes it.
LoadOwner(t) ==
    LET o == owner[cur[t]] IN
    /\ pc[t] = "load_owner"
    /\ \/ o = NoThread /\ EndWalk(t)
       \/ /\ o # NoThread
          /\ chain' = [chain EXCEPT ![t] =
                          Append(@, [lock |-> cur[t], owner |-> o])]
          /\ Goto(t, IF o = t THEN "exit66" ELSE "load_waiting")
          /\ UNCHANGED <<cur, disturbed>>
    /\ UNCHANGED <<mutexVars, owner, waiting, held, arg, sb, status>>

\* Load what that owner waits for: nothing ends the walk, and so does a
\* chain of MaxThreadSlots hops.
LoadWaiting(t) ==
    LET l == waiting[chain[t][Len(chain[t])].owner] IN
    /\ pc[t] = "load_waiting"
    /\ \/ ~WalkContinues(l, Len(chain[t])) /\ EndWalk(t)
       \/ /\ WalkContinues(l, Len(chain[t]))
          /\ cur' = [cur EXCEPT ![t] = l]
          /\ Goto(t, "load_owner")
          /\ UNCHANGED <<chain, disturbed>>
    /\ UNCHANGED <<mutexVars, owner, waiting, held, arg, sb, status>>

\* The chain has been reported; _exit(66).
ExitDeadlock(t) ==
    /\ pc[t] = "exit66"
    /\ status' = "deadlock"
    /\ UNCHANGED <<mutexVars, owner, waiting, held, pc, arg, walkVars, sb,
                   disturbed>>

\* The blocking real lock after a walk that found nothing.
RealLock(t) ==
    /\ pc[t] = "real_lock" /\ Fenced(t)
    /\ TrylockSucceeds(t, arg[t])
    /\ RealAcquire(t, arg[t])
    /\ Goto(t, "acquire_wait")
    /\ UNCHANGED <<owner, waiting, held, arg, walkVars, sb, status, disturbed>>

\* The real lock returned an error: lockdep_cancel_wait.
CancelWait(t) ==
    /\ pc[t] = "real_lock" /\ Fenced(t)
    /\ LockFails(t, arg[t])
    /\ StoreWaiting(t, NoLock)
    /\ Return(t)
    /\ Disturb(t)
    /\ UNCHANGED <<mutexVars, owner, held, walkVars, status>>

-----------------------------------------------------------------------------
(* lockdep_acquire_mutex: push, clear the wait if there was one, then      *)
(* publish the ownership.                                                  *)

\* Mutant: the published wait is left behind.
KeepWait(t) == UNCHANGED <<waiting, sb>>

\* if (clear_wait_state)
ClearWait(t) ==
    IF pc[t] = "acquire_wait" THEN StoreWaiting(t, NoLock)
                              ELSE UNCHANGED <<waiting, sb>>

PushHeldLockSlot(t) ==
    /\ pc[t] \in {"acquire", "acquire_wait"}
    /\ Len(held[t]) < MaxHeldLockSlots
    /\ held' = [held EXCEPT ![t] = Append(@, arg[t])]
    /\ ClearWait(t)
    /\ Goto(t, "store_owner")
    /\ UNCHANGED <<mutexVars, owner, arg, walkVars, status, disturbed>>

\* The held-lock stack is full: lockdep_panic, _exit(1).
HeldStackOverflow(t) ==
    /\ pc[t] \in {"acquire", "acquire_wait"}
    /\ Len(held[t]) >= MaxHeldLockSlots
    /\ status' = "panic"
    /\ UNCHANGED <<mutexVars, owner, waiting, held, pc, arg, walkVars, sb,
                   disturbed>>

PublishOwner(t) ==
    /\ pc[t] = "store_owner"
    /\ StoreOwner(t, arg[t])
    /\ Return(t)
    /\ UNCHANGED <<mutexVars, waiting, held, walkVars, status, disturbed>>

-----------------------------------------------------------------------------
(* pthread_mutex_unlock: the real unlock comes first. *)

RealUnlock(t, m) ==
    /\ pc[t] = "idle" /\ Fenced(t)
    /\ holder[m] = t
    /\ RealRelease(m)
    /\ Goto(t, "release")
    /\ arg' = [arg EXCEPT ![t] = m]
    /\ Disturb(t)
    /\ UNCHANGED <<owner, waiting, held, walkVars, sb, status>>

\* Mutants: a plain store instead of the compare-and-swap; no store at all.
StoreNoOwner(t, m) == owner' = [owner EXCEPT ![m] = NoThread]
KeepOwner(t, m) == UNCHANGED owner

\* compare_exchange(owner_thread_slot, self, LOCKDEP_INVALID_SLOT)
ClearOwner(t, m) ==
    owner' = [owner EXCEPT ![m] = IF @ = t THEN NoThread ELSE @]

\* lockdep_release_top_level_mutex_fast or lockdep_release_mutex: disown the
\* slot if it is still ours, then drop it from the held stack.
ReleaseMutex(t) ==
    /\ pc[t] = "release" /\ Fenced(t)
    /\ ClearOwner(t, arg[t])
    /\ held' = [held EXCEPT ![t] = RemoveHeld(@, arg[t])]
    /\ Return(t)
    /\ Disturb(t)
    /\ UNCHANGED <<mutexVars, waiting, walkVars, sb, status>>

-----------------------------------------------------------------------------
(* pthread_cond_wait is not interposed: libc releases and re-acquires the  *)
(* mutex without the hooks seeing it.                                      *)

CondWait(t, m) ==
    /\ pc[t] = "idle" /\ Fenced(t)
    /\ m \in CondMutexes /\ holder[m] = t /\ depth[m] = 1
    /\ RealRelease(m)
    /\ Goto(t, "cond_wait")
    /\ arg' = [arg EXCEPT ![t] = m]
    /\ UNCHANGED <<owner, waiting, held, walkVars, sb, status, disturbed>>

CondWake(t) ==
    /\ pc[t] = "cond_wait"
    /\ holder[arg[t]] = NoThread
    /\ RealAcquire(t, arg[t])
    /\ Return(t)
    /\ UNCHANGED <<owner, waiting, held, walkVars, sb, status, disturbed>>

-----------------------------------------------------------------------------
(* The oldest buffered store of t reaches memory. *)

Drain(t) ==
    LET w == Head(sb[t]) IN
    /\ sb[t] # << >>
    /\ sb' = [sb EXCEPT ![t] = Tail(@)]
    /\ IF w.loc = "waiting"
       THEN waiting' = [waiting EXCEPT ![t] = w.lock] /\ UNCHANGED owner
       ELSE owner' = [owner EXCEPT ![w.lock] = t] /\ UNCHANGED waiting
    /\ UNCHANGED <<mutexVars, held, pc, arg, walkVars, status, disturbed>>

-----------------------------------------------------------------------------
(* What a thread does by itself once it is inside a hook ... *)
Internal(t) ==
    \/ RealLockTop(t) \/ RealLockTopFails(t) \/ AcquireTopLevelMutexFast(t)
    \/ BeforeBlockingMutexLock(t) \/ LoadOwner(t) \/ LoadWaiting(t)
    \/ ExitDeadlock(t) \/ RealLock(t) \/ CancelWait(t)
    \/ PushHeldLockSlot(t) \/ HeldStackOverflow(t) \/ PublishOwner(t)
    \/ ReleaseMutex(t) \/ Drain(t)

(* ... and what the application decides. *)
Call(t) ==
    \/ \E m \in Locks : \/ LockTop(t, m) \/ Trylock(t, m) \/ LockBusy(t, m)
                        \/ RealUnlock(t, m) \/ CondWait(t, m)
    \/ CondWake(t)

\* The process has exited; nothing happens any more.
Exited ==
    /\ status # "running"
    /\ UNCHANGED vars

Next ==
    \/ /\ status = "running"
       /\ \E t \in Threads : Internal(t) \/ Call(t)
    \/ Exited

Spec == Init /\ [][Next]_vars

(* A thread inside a hook runs, and memory drains; nothing makes the       *)
(* application call, unlock or signal.                                     *)
Fairness == \A t \in Threads : WF_vars(status = "running" /\ Internal(t))

FairSpec == Spec /\ Fairness

-----------------------------------------------------------------------------
(* Properties. *)

\* Every variable has its type.
TypeOK ==
    /\ holder    \in [Locks -> Threads \cup {NoThread}]
    /\ depth     \in [Locks -> Nat]
    /\ owner     \in [Locks -> Threads \cup {NoThread}]
    /\ waiting   \in [Threads -> Locks \cup {NoLock}]
    /\ held      \in [Threads -> Seq(Locks)]
    /\ pc        \in [Threads -> Points]
    /\ arg       \in [Threads -> Locks \cup {NoLock}]
    /\ \A t \in Threads : pc[t] # "idle" => arg[t] \in Locks
    /\ cur       \in [Threads -> Locks \cup {NoLock}]
    /\ \A t \in Threads : pc[t] \in WalkPoints => cur[t] \in Locks
    /\ chain     \in [Threads -> Seq(Hop)]
    /\ \A t \in Threads : pc[t] = "load_waiting" => chain[t] # << >>
    /\ sb        \in [Threads -> Seq(Store)]
    /\ \A t \in Threads : \A i \in 1..Len(sb[t]) :
            sb[t][i].loc = "owner" => sb[t][i].lock \in Locks
    /\ status    \in {"running", "deadlock", "panic"}
    /\ disturbed \in [Threads -> SUBSET Threads]

\* The number of times t's held stack lists m.
TrackedDepth(t, m) == Cardinality({i \in 1..Len(held[t]) : held[t][i] = m})

RealDepth(t, m) == IF holder[m] = t THEN depth[m] ELSE 0

\* The thread-local held stack lists each mutex as often as the thread has
\* really locked it, up to the acquire or release in progress and a mutex
\* handed to pthread_cond_wait (push and removal in state.c, the top-level
\* fast paths of lockdep.h).
HeldMirrorsMutexes ==
    \A t \in Threads, m \in Locks :
        LET mine == arg[t] = m IN
        TrackedDepth(t, m) =
            CASE mine /\ pc[t] \in AcquirePoints \ {"store_owner"}
                    -> RealDepth(t, m) - 1
              [] mine /\ pc[t] = "release"   -> RealDepth(t, m) + 1
              [] mine /\ pc[t] = "cond_wait" -> 1
              [] OTHER -> RealDepth(t, m)

\* owner_thread_slot names the real holder: a recorded owner holds the mutex
\* or is between its real unlock and its compare-and-swap, and a holder that
\* has left the acquire code is recorded or has the store in its buffer.
OwnerTracksHolder ==
    \A t \in Threads, m \in Locks :
        /\ owner[m] = t =>
              holder[m] = t \/ (pc[t] = "release" /\ arg[t] = m)
        /\ holder[m] = t =>
              \/ owner[m] = t
              \/ pc[t] \in AcquirePoints /\ arg[t] = m
              \/ \E i \in 1..Len(sb[t]) :
                    sb[t][i] = [loc |-> "owner", lock |-> m]

\* A published wait belongs to a thread that is walking, blocked or has just
\* got that very mutex: every path out of the hook clears it.
WaitingOnlyWhileBlocking ==
    \A t \in Threads :
        waiting[t] # NoLock =>
            \/ /\ waiting[t] = arg[t]
               /\ pc[t] \in WaitPoints \cup {"acquire_wait"}
            \/ [loc |-> "waiting", lock |-> NoLock] \in
                    {sb[t][i] : i \in 1..Len(sb[t])}

\* Threads blocked for good in the real lock, each on a mutex another one of
\* them holds.
Blocked(t) == pc[t] \in {"top_lock", "real_lock", "cond_wait"}

Deadlocked(S) ==
    /\ S # {}
    /\ \A t \in S : /\ Blocked(t)
                    /\ ~LockFails(t, arg[t])
                    /\ holder[arg[t]] \in S
                    /\ ~TrylockSucceeds(t, arg[t])

\* Completeness of the detector: threads never block in a circular wait, for
\* the last one to publish its wait finds the cycle and exits 66.
NoUndetectedDeadlock == \A S \in SUBSET Threads : ~Deadlocked(S)

\* Threads inside pthread_mutex_lock, their waits published, each waiting for
\* a mutex that another one of them holds and that will not be handed back.
CircularWait(S) ==
    /\ S # {}
    /\ \A t \in S : /\ pc[t] \in WaitPoints
                    /\ holder[arg[t]] \in S
                    /\ ~LockFails(t, arg[t])

\* Soundness of the detector: whoever is about to _exit(66) is in a circular
\* wait.
InCircularWait(t) == \E S \in SUBSET Threads : t \in S /\ CircularWait(S)

ReportedDeadlockIsReal ==
    \A t \in Threads : pc[t] = "exit66" => InCircularWait(t)

\* The part of soundness the walk does have: a wrong report has a thread on
\* its chain that released a mutex or gave up waiting during the walk.
ReportRealUnlessDisturbed ==
    \A t \in Threads : pc[t] = "exit66" =>
        \/ InCircularWait(t)
        \/ \E i \in 1..Len(chain[t]) : chain[t][i].owner \in disturbed[t]

\* The i-th thread of w's chain: thread_chain[i - 1].
Waiter(w, i) == IF i = 1 THEN w ELSE chain[w][i - 1].owner

\* w's walk has followed, inside C, the mutexes' real holders, none twice.
OnTrack(w, C) ==
    /\ pc[w] \in WalkPoints
    /\ \A i \in 1..Len(chain[w]) :
          /\ chain[w][i].owner \in C \ {w}
          /\ chain[w][i].owner = holder[arg[Waiter(w, i)]]
          /\ \A j \in 1..(i - 1) : chain[w][j].owner # chain[w][i].owner
    /\ pc[w] = "load_owner" => cur[w] = arg[Waiter(w, Len(chain[w]) + 1)]

\* w is walking around a circular wait that does not exist without w.
WillReport(w) ==
    \E C \in SUBSET Threads :
        /\ w \in C /\ CircularWait(C)
        /\ \A D \in SUBSET C : CircularWait(D) => w \in D
        /\ OnTrack(w, C)

\* Why the detector is complete: whenever threads wait in a circle, the last
\* one that closed it is still walking, on a path no other thread can bend,
\* or has found the circle (the induction behind NoUndetectedDeadlock).
DetectorAlive ==
    \A S \in SUBSET Threads : CircularWait(S) =>
        \E w \in S : pc[w] = "exit66" \/ WillReport(w)

\* Once threads wait for each other in a circle, the process exits 66.
DeadlockEventuallyReported ==
    (\E t \in Threads : InCircularWait(t)) ~> (status = "deadlock")

=============================================================================
