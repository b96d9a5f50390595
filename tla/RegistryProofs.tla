--------------------------- MODULE RegistryProofs ----------------------------
(***************************************************************************)
(* The registry, for every number of threads, ids, mutexes and slots: its  *)
(* types, that the spin lock is given back, that both arrays are tables    *)
(* without duplicates, that the slots in the threads' hands are theirs and *)
(* that the names a report prints are right.                               *)
(***************************************************************************)
EXTENDS Registry, SequenceTheorems, TLAPS

Registering == {"reg", "reg_scan", "reg_init", "reg_count", "reg_full"}

Resolving == {"reg_unlock", "look", "scan", "init", "count", "unlock", "full"}

Using == {"use", "waiting"}

\* What a thread has in its hands at each point of a hook.
Control ==
    \A t \in Threads :
        /\ pc[t] = "idle" => op[t] = "none" /\ arg[t] = NullAddr
        /\ pc[t] # "idle" => tid[t] # NoTid /\ arg[t] \in Mutexes
        /\ pc[t] \in Registering => tlsSlot[t] = Invalid
        /\ pc[t] \in Resolving \cup Using => tlsSlot[t] # Invalid
        /\ pc[t] \in Using => slot[t] # Invalid
        /\ pc[t] \notin Using \cup {"unlock"} => slot[t] = Invalid
        /\ pc[t] = "waiting" => op[t] = "block"
        /\ tid[t] = NoTid => tlsSlot[t] = Invalid
        /\ held[t] # {} => tlsSlot[t] # Invalid

\* Every slot in a thread's hands, or in its cache, has been counted and is the
\* right one.
CacheHeld(t) ==
    \A i \in CacheSlots : cache[t][i].mutex # NullAddr =>
        /\ cache[t][i].slot \in 0..(lockCount - 1)
        /\ lockAddr[cache[t][i].slot] = cache[t][i].mutex

SlotHeld(t) ==
    slot[t] # Invalid => slot[t] \in 0..(lockCount - 1) /\ lockAddr[slot[t]] = arg[t]

TlsHeld(t) ==
    tlsSlot[t] # Invalid =>
        tlsSlot[t] \in 0..(threadCount - 1) /\ threadTid[tlsSlot[t]] = tid[t]

StackHeld(t) == \A s \in held[t] : s \in 0..(lockCount - 1)

SlotsHeld ==
    \A t \in Threads : CacheHeld(t) /\ SlotHeld(t) /\ TlsHeld(t) /\ StackHeld(t)

\* The counted lock slots have different mutexes.
Counted ==
    /\ \A s \in 0..(lockCount - 1) : lockAddr[s] \in Mutexes
    /\ \A r, s \in 0..(lockCount - 1) : lockAddr[r] = lockAddr[s] => r = s

\* No two living threads have the same id.
TidsUnique == \A t, u \in Threads : tid[t] = tid[u] /\ tid[t] # NoTid => t = u

\* The slot that a thread is about to count is filled, and its key is new.
PendingLock ==
    \A t \in Threads :
        /\ pc[t] \in {"init", "count"} =>
              /\ lockCount < MaxLockSlots
              /\ lockAddr[lockCount] = arg[t]
              /\ SlotsOfMutex(arg[t]) = {}
        /\ pc[t] = "count" => lockOwner[lockCount] = Invalid
        /\ pc[t] = "unlock" /\ slot[t] = Invalid => SlotsOfMutex(arg[t]) = {}

PendingThread ==
    \A t \in Threads :
        /\ pc[t] \in {"reg_init", "reg_count"} =>
              /\ threadCount < MaxThreadSlots
              /\ threadTid[threadCount] = tid[t]
              /\ SlotsOfTid(t) = {}
        /\ pc[t] = "reg_count" => threadWaiting[threadCount] = Invalid

Pending == PendingLock /\ PendingThread

LEMMA StartsRight == Init => TypeOK /\ Control /\ MetaLockGivenBack /\ Pending
<1>1. LockSlots # {} /\ 0 \in LockSlots /\ 0 \in ThreadSlots
  BY RegistryAssumption DEF LockSlots, ThreadSlots
<1>2. Init => TypeOK
  BY <1>1, RegistryAssumption
     DEF Init, TypeOK, Points, NoEntry, Entries
<1>3. Init => Control /\ MetaLockGivenBack /\ Pending
  BY RegistryAssumption
     DEF Init, Control, MetaLockGivenBack, Locked, Registering, Resolving, Using, Pending,
         PendingLock, PendingThread
<1>4. QED
  BY <1>2, <1>3

\* The entry of a cache is a slot or empty.
LEMMA EntryType ==
    ASSUME TypeOK, NEW t \in Threads, NEW m \in Mutexes
    PROVE  CacheIndex[m] \in CacheSlots /\ Entry(t, m) \in Entries
BY RegistryAssumption DEF TypeOK, CacheSlots, Entry

LEMMA GotoType ==
    ASSUME TypeOK, NEW t \in Threads, NEW point \in Points, Goto(t, point)
    PROVE  pc' \in [Threads -> Points]
BY DEF TypeOK, Goto

LEMMA ReturnType ==
    ASSUME TypeOK, NEW t \in Threads, Return(t)
    PROVE  /\ pc' \in [Threads -> Points]
           /\ op' \in [Threads -> {"none", "acquire", "release", "block", "cond_wait"}]
           /\ arg' \in [Threads -> Mutexes \cup {NullAddr}]
           /\ slot' \in [Threads -> LockSlots \cup {Invalid}]
           /\ calls' \in 0..MaxCalls
BY DEF TypeOK, Return, Goto, Points

LEMMA FindType ==
    ASSUME TypeOK, NEW t \in Threads, NEW m \in Mutexes, FindLockSlot(t, m)
    PROVE  /\ pc' \in [Threads -> Points]
           /\ slot' \in [Threads -> LockSlots \cup {Invalid}]
<1>1. Entry(t, m).slot \in LockSlots
  BY EntryType DEF Entries
<1>2. CASE Hits(t, m)
  BY <1>1, <1>2 DEF TypeOK, FindLockSlot, Goto, Points
<1>3. CASE ~Hits(t, m)
  BY <1>3 DEF TypeOK, FindLockSlot, Goto, Points
<1>4. QED
  BY <1>2, <1>3

LEMMA TypeStep == TypeOK /\ Control /\ Pending /\ [Next]_vars => TypeOK'
<1> SUFFICES ASSUME TypeOK, Control, Pending, [Next]_vars
             PROVE  TypeOK'
  OBVIOUS
<1> USE RegistryAssumption
<1> USE DEF lockVars, threadVars, callVars
<1>0. LockSlots = 0..(MaxLockSlots - 1) /\ ThreadSlots = 0..(MaxThreadSlots - 1)
  BY DEF LockSlots, ThreadSlots
<1>1. ASSUME NEW t \in Threads, Internal(t)
      PROVE  TypeOK'
  <2>1. CASE MetaLock(t)
    BY <2>1 DEF MetaLock, TypeOK, Points, Goto
  <2>2. CASE UnlockFull(t)
    BY <2>2 DEF UnlockFull, MetaUnlock, TypeOK, Points, Goto
  <2>3. CASE Panic(t)
    BY <2>3 DEF Panic, TypeOK, Points
  <2>4. CASE ScanThreads(t)
    <3>1. pc' \in [Threads -> Points]
      BY <2>4, GotoType DEF ScanThreads, Points
    <3>2. tlsSlot' \in [Threads -> ThreadSlots \cup {Invalid}]
      BY <2>4, <1>0 DEF ScanThreads, SlotsOfTid, TypeOK
    <3>3. threadTid' \in [ThreadSlots -> Tids \cup {NoTid}]
      BY <2>4 DEF ScanThreads, TypeOK
    <3>4. QED
      BY <2>4, <3>1, <3>2, <3>3 DEF ScanThreads, TypeOK
  <2>5. CASE InitThreadSlot(t)
    BY <2>5, GotoType DEF InitThreadSlot, InitWaitWord, TypeOK, Points
  <2>6. CASE CountThreadSlot(t)
    <3>1. threadCount < MaxThreadSlots /\ threadCount \in Nat
      BY <2>6 DEF CountThreadSlot, Pending, PendingThread, TypeOK
    <3>2. threadCount + 1 \in 0..MaxThreadSlots /\ threadCount \in ThreadSlots
      BY <3>1, <1>0
    <3>3. tlsSlot' \in [Threads -> ThreadSlots \cup {Invalid}]
      BY <2>6, <3>2 DEF CountThreadSlot, TypeOK
    <3>4. pc' \in [Threads -> Points]
      BY <2>6, GotoType DEF CountThreadSlot, Points
    <3>5. QED
      BY <2>6, <3>2, <3>3, <3>4 DEF CountThreadSlot, TypeOK
  <2>7. CASE EndRegistration(t)
    <3>1. arg[t] \in Mutexes
      BY <2>7 DEF EndRegistration, Control
    <3>2. QED
      BY <2>7, <3>1, FindType DEF EndRegistration, MetaUnlock, TypeOK
  <2>8. CASE ScanLocks(t)
    <3>1. pc' \in [Threads -> Points]
      BY <2>8, GotoType DEF ScanLocks, Points
    <3>2. slot' \in [Threads -> LockSlots \cup {Invalid}]
      BY <2>8, <1>0 DEF ScanLocks, SlotsOfMutex, TypeOK
    <3>3. lockAddr' \in [LockSlots -> Mutexes \cup {NullAddr}]
      BY <2>8 DEF ScanLocks, TypeOK
    <3>4. QED
      BY <2>8, <3>1, <3>2, <3>3 DEF ScanLocks, TypeOK
  <2>9. CASE InitLockSlot(t)
    BY <2>9, GotoType DEF InitLockSlot, InitOwnerWord, TypeOK, Points
  <2>10. CASE CountLockSlot(t)
    <3>1. lockCount < MaxLockSlots /\ lockCount \in Nat
      BY <2>10 DEF CountLockSlot, Pending, PendingLock, TypeOK
    <3>2. lockCount + 1 \in 0..MaxLockSlots /\ lockCount \in LockSlots
      BY <3>1, <1>0
    <3>3. slot' \in [Threads -> LockSlots \cup {Invalid}]
      BY <2>10, <3>2 DEF CountLockSlot, TypeOK
    <3>4. pc' \in [Threads -> Points]
      BY <2>10, GotoType DEF CountLockSlot, Points
    <3>5. QED
      BY <2>10, <3>2, <3>3, <3>4 DEF CountLockSlot, TypeOK
  <2>11. CASE EndLookup(t)
    <3>1. CASE slot[t] = Invalid
      BY <2>11, <3>1, ReturnType DEF EndLookup, MetaUnlock, TypeOK
    <3>2. CASE slot[t] # Invalid
      <4> DEFINE i == CacheIndex[arg[t]]
                 e == [mutex |-> arg[t], slot |-> slot[t]]
      <4>1. /\ cache' = [cache EXCEPT ![t][i] = e]
            /\ Goto(t, "use")
        BY <2>11, <3>2 DEF EndLookup
      <4>2. e \in Entries
        BY <3>2 DEF TypeOK, Entries
      <4>3. cache[t] \in [CacheSlots -> Entries]
        BY DEF TypeOK
      <4>4. [cache[t] EXCEPT ![i] = e] \in [CacheSlots -> Entries]
        BY <4>2, <4>3
      <4>5. cache' \in [Threads -> [CacheSlots -> Entries]]
        BY <4>1, <4>4 DEF TypeOK
      <4>6. pc' \in [Threads -> Points]
        BY <4>1, GotoType DEF Points
      <4>7. QED
        BY <2>11, <3>2, <4>5, <4>6 DEF EndLookup, MetaUnlock, TypeOK
    <3>3. QED
      BY <3>1, <3>2
  <2>12. CASE PublishOwner(t)
    <3>1. tlsSlot[t] \in ThreadSlots /\ slot[t] \in LockSlots
      BY <2>12 DEF PublishOwner, Control, Using, TypeOK
    <3>2. held' \in [Threads -> SUBSET LockSlots]
      BY <2>12, <3>1 DEF PublishOwner, TypeOK
    <3>3. QED
      BY <2>12, <3>1, <3>2, ReturnType DEF PublishOwner, TypeOK
  <2>13. CASE ClearOwner(t)
    BY <2>13, ReturnType DEF ClearOwner, TypeOK
  <2>14. CASE PublishWait(t)
    <3>1. slot[t] \in LockSlots
      BY <2>14 DEF PublishWait, Control, Using, TypeOK
    <3>2. QED
      BY <2>14, <3>1, GotoType DEF PublishWait, TypeOK, Points
  <2>15. CASE ClearWait(t)
    BY <2>15, ReturnType DEF ClearWait, TypeOK
  <2>16. QED
    BY <1>1, <2>1, <2>2, <2>3, <2>4, <2>5, <2>6, <2>7, <2>8, <2>9, <2>10, <2>11, <2>12,
       <2>13, <2>14, <2>15 DEF Internal
<1>2. ASSUME NEW t \in Threads, NEW i \in Tids, Start(t, i)
      PROVE  TypeOK'
  BY <1>2 DEF Start, TypeOK
<1>3. ASSUME NEW t \in Threads, Exit(t)
      PROVE  TypeOK'
  <2>1. NoEntry \in Entries
    BY <1>0 DEF NoEntry, Entries
  <2>2. cache' \in [Threads -> [CacheSlots -> Entries]]
    BY <1>3, <2>1 DEF Exit, TypeOK
  <2>3. QED
    BY <1>3, <2>2 DEF Exit, TypeOK
<1>4. ASSUME NEW t \in Threads, NEW m \in Mutexes,
             NEW o \in {"acquire", "release", "block"}, Enter(t, m, o),
             holder' \in [Mutexes -> Threads \cup {NoThread, Gone}]
      PROVE  TypeOK'
  <2>1. /\ pc' \in [Threads -> Points]
        /\ slot' \in [Threads -> LockSlots \cup {Invalid}]
    <3>1. CASE tlsSlot[t] = Invalid
      BY <1>4, <3>1, GotoType DEF Enter, TypeOK, Points
    <3>2. CASE tlsSlot[t] # Invalid
      BY <1>4, <3>2, FindType DEF Enter
    <3>3. QED
      BY <3>1, <3>2
  <2>2. calls' \in 0..MaxCalls
    BY <1>4 DEF Enter, TypeOK
  <2>3. QED
    BY <1>4, <2>1, <2>2 DEF Enter, TypeOK
<1>5. ASSUME NEW t \in Threads, NEW m \in Mutexes,
             \/ Acquire(t, m) \/ AcquireUnseen(t, m) \/ Release(t, m)
             \/ ReleaseTop(t, m) \/ Block(t, m) \/ CondWait(t, m)
      PROVE  TypeOK'
  <2>1. CASE Acquire(t, m) \/ Release(t, m) \/ Block(t, m)
    <3>1. holder' \in [Mutexes -> Threads \cup {NoThread, Gone}]
      BY <2>1 DEF Acquire, Release, Block, TypeOK
    <3>2. PICK o \in {"acquire", "release", "block"} : Enter(t, m, o)
      BY <2>1 DEF Acquire, Release, Block
    <3>3. QED
      BY <1>4, <3>1, <3>2
  <2>2. CASE AcquireUnseen(t, m)
    BY <2>2 DEF AcquireUnseen, TypeOK
  <2>3. CASE ReleaseTop(t, m)
    <3>1. /\ pc' \in [Threads -> Points]
          /\ slot' \in [Threads -> LockSlots \cup {Invalid}]
          /\ calls' \in 0..MaxCalls
      BY <2>3, <1>0, GotoType DEF ReleaseTop, TypeOK, Points
    <3>2. QED
      BY <2>3, <3>1 DEF ReleaseTop, TypeOK
  <2>4. CASE CondWait(t, m)
    BY <2>4, GotoType DEF CondWait, TypeOK, Points
  <2>5. QED
    BY <1>5, <2>1, <2>2, <2>3, <2>4
<1>6. ASSUME NEW t \in Threads, CondWake(t)
      PROVE  TypeOK'
  <2>1. arg[t] \in Mutexes
    BY <1>6 DEF CondWake, Control
  <2>2. QED
    BY <1>6, <2>1, ReturnType DEF CondWake, TypeOK
<1>7. CASE UNCHANGED vars
  BY <1>7 DEF vars, TypeOK
<1>8. QED
  BY <1>1, <1>2, <1>3, <1>5, <1>6, <1>7 DEF Next, Call

LEMMA ControlStep == TypeOK /\ Control /\ [Next]_vars => Control'
<1> SUFFICES ASSUME TypeOK, Control, [Next]_vars
             PROVE  Control'
  OBVIOUS
<1> USE RegistryAssumption
<1> USE DEF callVars, Goto, Registering, Resolving, Using
<1>1. ASSUME NEW t \in Threads, Internal(t)
      PROVE  Control'
  <2>1. CASE MetaLock(t)
    BY <2>1 DEF MetaLock, TypeOK, Control
  <2>2. CASE UnlockFull(t)
    BY <2>2 DEF UnlockFull, TypeOK, Control
  <2>3. CASE Panic(t)
    BY <2>3 DEF Panic, Control
  <2>4. CASE ScanThreads(t)
    BY <2>4 DEF ScanThreads, SlotsOfTid, TypeOK, Control, Invalid
  <2>5. CASE InitThreadSlot(t)
    BY <2>5 DEF InitThreadSlot, TypeOK, Control
  <2>6. CASE CountThreadSlot(t)
    BY <2>6 DEF CountThreadSlot, TypeOK, Control, Invalid
  <2>7. CASE EndRegistration(t)
    BY <2>7, EntryType DEF EndRegistration, FindLockSlot, TypeOK, Control, Entries, LockSlots,
                           Invalid
  <2>8. CASE ScanLocks(t)
    BY <2>8 DEF ScanLocks, TypeOK, Control
  <2>9. CASE InitLockSlot(t)
    BY <2>9 DEF InitLockSlot, TypeOK, Control
  <2>10. CASE CountLockSlot(t)
    BY <2>10 DEF CountLockSlot, TypeOK, Control
  <2>11. CASE EndLookup(t)
    BY <2>11 DEF EndLookup, Return, TypeOK, Control
  <2>12. CASE PublishOwner(t)
    BY <2>12 DEF PublishOwner, Return, TypeOK, Control
  <2>13. CASE ClearOwner(t)
    BY <2>13 DEF ClearOwner, Return, TypeOK, Control
  <2>14. CASE PublishWait(t)
    BY <2>14 DEF PublishWait, TypeOK, Control
  <2>15. CASE ClearWait(t)
    BY <2>15 DEF ClearWait, Return, TypeOK, Control
  <2>16. QED
    BY <1>1, <2>1, <2>2, <2>3, <2>4, <2>5, <2>6, <2>7, <2>8, <2>9, <2>10, <2>11, <2>12,
       <2>13, <2>14, <2>15 DEF Internal
<1>2. ASSUME NEW t \in Threads, NEW i \in Tids, Start(t, i)
      PROVE  Control'
  BY <1>2 DEF Start, Alive, TypeOK, Control
<1>3. ASSUME NEW t \in Threads, Exit(t)
      PROVE  Control'
  BY <1>3 DEF Exit, TypeOK, Control
<1>4. ASSUME NEW t \in Threads, NEW m \in Mutexes,
             NEW o \in {"acquire", "release", "block"}, Enter(t, m, o)
      PROVE  Control'
  BY <1>4, EntryType DEF Enter, Alive, FindLockSlot, TypeOK, Control, Entries, LockSlots, Invalid
<1>5. ASSUME NEW t \in Threads, NEW m \in Mutexes, AcquireUnseen(t, m) \/ CondWait(t, m)
      PROVE  Control'
  BY <1>5 DEF AcquireUnseen, CondWait, Alive, TypeOK, Control
<1>6. ASSUME NEW t \in Threads, NEW m \in Mutexes, ReleaseTop(t, m)
      PROVE  Control'
  <2>1. PICK s \in held[t] : slot' = [slot EXCEPT ![t] = s]
    BY <1>6 DEF ReleaseTop
  <2>2. s \in LockSlots /\ s # Invalid /\ tlsSlot[t] # Invalid
    BY <2>1 DEF TypeOK, Control, LockSlots, Invalid
  <2>3. /\ pc'  = [pc EXCEPT ![t] = "use"] /\ op' = [op EXCEPT ![t] = "release"]
        /\ arg' = [arg EXCEPT ![t] = m]
        /\ UNCHANGED <<tid, tlsSlot, held>> /\ tid[t] # NoTid
    BY <1>6 DEF ReleaseTop, Alive
  <2>4. QED
    BY <2>1, <2>2, <2>3 DEF TypeOK, Control
<1>7. ASSUME NEW t \in Threads, CondWake(t)
      PROVE  Control'
  BY <1>7 DEF CondWake, Return, TypeOK, Control
<1>8. CASE UNCHANGED vars
  BY <1>8 DEF vars, Control
<1>9. QED
  BY <1>1, <1>2, <1>3, <1>4, <1>5, <1>6, <1>7, <1>8 DEF Next, Call, Acquire, Release, Block

LEMMA MetaLockStep ==
    TypeOK /\ MetaLockGivenBack /\ [Next]_vars => MetaLockGivenBack'
<1> SUFFICES ASSUME TypeOK, MetaLockGivenBack, [Next]_vars
             PROVE  MetaLockGivenBack'
  OBVIOUS
<1> USE RegistryAssumption
<1> USE DEF Goto, Locked, MetaLockGivenBack, TypeOK
<1>1. ASSUME NEW t \in Threads, Internal(t)
      PROVE  MetaLockGivenBack'
  <2>1. CASE MetaLock(t)
    BY <2>1 DEF MetaLock, MetaFree
  <2>2. CASE UnlockFull(t)
    BY <2>2 DEF UnlockFull, MetaUnlock
  <2>3. CASE Panic(t)
    BY <2>3 DEF Panic
  <2>4. CASE ScanThreads(t)
    BY <2>4 DEF ScanThreads
  <2>5. CASE InitThreadSlot(t)
    BY <2>5 DEF InitThreadSlot
  <2>6. CASE CountThreadSlot(t)
    BY <2>6 DEF CountThreadSlot
  <2>7. CASE EndRegistration(t)
    <3>1. pc[t] = "reg_unlock" /\ metaLock' = NoThread
      BY <2>7 DEF EndRegistration, MetaUnlock
    <3>2. \/ pc' = [pc EXCEPT ![t] = "use"]
          \/ pc' = [pc EXCEPT ![t] = "look"]
      BY <2>7 DEF EndRegistration, FindLockSlot
    <3>3. QED
      BY <3>1, <3>2
  <2>8. CASE ScanLocks(t)
    BY <2>8 DEF ScanLocks
  <2>9. CASE InitLockSlot(t)
    BY <2>9 DEF InitLockSlot
  <2>10. CASE CountLockSlot(t)
    BY <2>10 DEF CountLockSlot
  <2>11. CASE EndLookup(t)
    BY <2>11 DEF EndLookup, MetaUnlock, Return
  <2>12. CASE PublishOwner(t)
    BY <2>12 DEF PublishOwner, Return
  <2>13. CASE ClearOwner(t)
    BY <2>13 DEF ClearOwner, Return
  <2>14. CASE PublishWait(t)
    BY <2>14 DEF PublishWait
  <2>15. CASE ClearWait(t)
    BY <2>15 DEF ClearWait, Return
  <2>16. QED
    BY <1>1, <2>1, <2>2, <2>3, <2>4, <2>5, <2>6, <2>7, <2>8, <2>9, <2>10, <2>11, <2>12,
       <2>13, <2>14, <2>15 DEF Internal
<1>2. ASSUME NEW t \in Threads, NEW i \in Tids, Start(t, i)
      PROVE  MetaLockGivenBack'
  BY <1>2 DEF Start
<1>3. ASSUME NEW t \in Threads, Exit(t)
      PROVE  MetaLockGivenBack'
  BY <1>3 DEF Exit
<1>4. ASSUME NEW t \in Threads, NEW m \in Mutexes, NEW o, Enter(t, m, o)
      PROVE  MetaLockGivenBack'
  BY <1>4 DEF Enter, FindLockSlot
<1>5. ASSUME NEW t \in Threads, NEW m \in Mutexes, AcquireUnseen(t, m) \/ CondWait(t, m)
      PROVE  MetaLockGivenBack'
  BY <1>5 DEF AcquireUnseen, CondWait
<1>6. ASSUME NEW t \in Threads, NEW m \in Mutexes, ReleaseTop(t, m)
      PROVE  MetaLockGivenBack'
  BY <1>6 DEF ReleaseTop
<1>7. ASSUME NEW t \in Threads, CondWake(t)
      PROVE  MetaLockGivenBack'
  BY <1>7 DEF CondWake, Return
<1>8. CASE UNCHANGED vars
  BY <1>8 DEF vars
<1>9. QED
  BY <1>1, <1>2, <1>3, <1>4, <1>5, <1>6, <1>7, <1>8 DEF Next, Call, Acquire, Release, Block

\* A step that leaves both tables alone, and brings no thread to a point where
\* something is pending, leaves what is pending as it is.
LEMMA PendingFrame ==
    ASSUME Pending,
           UNCHANGED <<lockAddr, lockCount, threadTid, threadCount>>,
           lockOwner'[lockCount] = lockOwner[lockCount],
           threadWaiting'[threadCount] = threadWaiting[threadCount],
           \A u \in Threads :
              pc'[u] \in {"init", "count", "unlock", "reg_init", "reg_count"} =>
                  pc'[u] = pc[u] /\ arg'[u] = arg[u] /\ slot'[u] = slot[u] /\ tid'[u] = tid[u]
    PROVE  Pending'
<1>1. \A m : SlotsOfMutex(m)' = SlotsOfMutex(m)
  BY DEF SlotsOfMutex
<1>2. PendingLock'
  BY <1>1 DEF Pending, PendingLock, SlotsOfMutex
<1>3. PendingThread'
  BY DEF Pending, PendingThread, SlotsOfTid
<1>4. QED
  BY <1>2, <1>3 DEF Pending

LEMMA PendingStep ==
    TypeOK /\ Control /\ MetaLockGivenBack /\ SlotsHeld /\ Pending /\ [Next]_vars => Pending'
<1> SUFFICES ASSUME TypeOK, Control, MetaLockGivenBack, SlotsHeld, Pending, [Next]_vars
             PROVE  Pending'
  OBVIOUS
<1> USE RegistryAssumption
<1> USE DEF Goto, lockVars, threadVars, callVars
<1>0. /\ lockCount \in Nat /\ threadCount \in Nat
      /\ pc \in [Threads -> Points]
  BY DEF TypeOK, LockSlots, ThreadSlots
<1>1. ASSUME NEW t \in Threads, Internal(t)
      PROVE  Pending'
  <2>0. \A u \in Threads : pc[t] \in Locked /\ pc[u] \in Locked => u = t
    BY DEF MetaLockGivenBack
  <2>1. CASE MetaLock(t)
    BY <2>1, PendingFrame DEF MetaLock, TypeOK
  <2>2. CASE UnlockFull(t)
    BY <2>2, PendingFrame DEF UnlockFull, TypeOK
  <2>3. CASE Panic(t)
    BY <2>3, PendingFrame DEF Panic, TypeOK
  <2>4. CASE ScanThreads(t)
    <3>1. CASE pc'[t] # "reg_init"
      <4>1. UNCHANGED <<threadTid, threadCount>> /\ pc'[t] \in {"reg_unlock", "reg_full"}
        BY <2>4, <3>1, <1>0 DEF ScanThreads
      <4>2. QED
        BY <2>4, <4>1, PendingFrame DEF ScanThreads, TypeOK
    <3>2. CASE pc'[t] = "reg_init"
      <4>1. /\ SlotsOfTid(t) = {} /\ threadCount < MaxThreadSlots
            /\ threadTid' = [threadTid EXCEPT ![threadCount] = tid[t]]
        BY <2>4, <3>2, <1>0 DEF ScanThreads
      <4>2. threadCount \in ThreadSlots
        BY <4>1, <1>0 DEF ThreadSlots
      <4>3. threadTid'[threadCount] = tid[t] /\ SlotsOfTid(t)' = {}
        BY <2>4, <4>1, <4>2, <1>0 DEF ScanThreads, SlotsOfTid, TypeOK
      <4>4. PendingThread'
        BY <2>0, <2>4, <3>2, <4>1, <4>3, <1>0 DEF ScanThreads, PendingThread, Locked
      <4>5. \A m : SlotsOfMutex(m)' = SlotsOfMutex(m)
        BY <2>4 DEF ScanThreads, SlotsOfMutex
      <4>6. PendingLock'
        BY <2>4, <3>2, <4>5, <1>0 DEF ScanThreads, Pending, PendingLock
      <4>7. QED
        BY <4>4, <4>6 DEF Pending
    <3>3. QED
      BY <3>1, <3>2
  <2>5. CASE InitThreadSlot(t)
    BY <2>0, <2>5 DEF InitThreadSlot, InitWaitWord, TypeOK, Pending, PendingLock,
                      PendingThread, Locked, SlotsOfTid, SlotsOfMutex, ThreadSlots
  <2>6. CASE CountThreadSlot(t)
    BY <2>0, <2>6 DEF CountThreadSlot, TypeOK, Pending, PendingLock, PendingThread, Locked,
                      SlotsOfTid, SlotsOfMutex
  <2>7. CASE EndRegistration(t)
    BY <2>7, PendingFrame DEF EndRegistration, FindLockSlot, TypeOK
  <2>8. CASE ScanLocks(t)
    <3>1. CASE pc'[t] = "full"
      <4>1. UNCHANGED <<lockAddr, lockCount>>
        BY <2>8, <3>1, <1>0 DEF ScanLocks
      <4>2. QED
        BY <2>8, <3>1, <4>1, PendingFrame DEF ScanLocks, TypeOK
    <3>2. CASE pc'[t] = "unlock"
      <4>1. /\ UNCHANGED lockAddr
            /\ slot'[t] = Invalid => SlotsOfMutex(arg[t]) = {}
            /\ \A u \in Threads \ {t} : slot'[u] = slot[u]
        BY <2>8, <3>2, <1>0 DEF ScanLocks, TypeOK, SlotsOfMutex, Invalid
      <4>2. \A m : SlotsOfMutex(m)' = SlotsOfMutex(m)
        BY <2>8, <4>1 DEF ScanLocks, SlotsOfMutex
      <4>3. PendingLock'
        BY <2>8, <3>2, <4>1, <4>2, <1>0 DEF ScanLocks, Pending, PendingLock
      <4>4. PendingThread'
        BY <2>8, <3>2, <1>0 DEF ScanLocks, Pending, PendingThread, SlotsOfTid
      <4>5. QED
        BY <4>3, <4>4 DEF Pending
    <3>3. CASE pc'[t] = "init"
      <4>1. /\ SlotsOfMutex(arg[t]) = {} /\ lockCount < MaxLockSlots
            /\ lockAddr' = [lockAddr EXCEPT ![lockCount] = arg[t]]
            /\ UNCHANGED slot
        BY <2>8, <3>3, <1>0, RegistryAssumption DEF ScanLocks, LockTableFull
      <4>2. lockCount \in LockSlots
        BY <4>1, <1>0 DEF LockSlots
      <4>3. \A m : SlotsOfMutex(m)' = SlotsOfMutex(m)
        BY <2>8, <4>1, <4>2, <1>0 DEF ScanLocks, SlotsOfMutex, TypeOK
      <4>4. lockAddr'[lockCount] = arg[t]
        BY <4>1, <4>2 DEF TypeOK
      <4>5. PendingLock'
        BY <2>0, <2>8, <3>3, <4>1, <4>3, <4>4, <1>0
           DEF ScanLocks, PendingLock, Locked, Pending
      <4>6. PendingThread'
        BY <2>8, <3>3, <1>0 DEF ScanLocks, Pending, PendingThread, SlotsOfTid
      <4>7. QED
        BY <4>5, <4>6 DEF Pending
    <3>4. QED
      BY <2>8, <3>1, <3>2, <3>3, <1>0 DEF ScanLocks
  <2>9. CASE InitLockSlot(t)
    BY <2>0, <2>9 DEF InitLockSlot, InitOwnerWord, TypeOK, Pending, PendingLock,
                      PendingThread, Locked, SlotsOfTid, SlotsOfMutex, LockSlots
  <2>10. CASE CountLockSlot(t)
    BY <2>0, <2>10 DEF CountLockSlot, TypeOK, Pending, PendingLock, PendingThread, Locked,
                       SlotsOfTid, SlotsOfMutex, Invalid
  <2>11. CASE EndLookup(t)
    BY <2>11, PendingFrame DEF EndLookup, Return, TypeOK
  <2>12. CASE PublishOwner(t)
    <3>1. slot[t] \in 0..(lockCount - 1)
      BY <2>12 DEF SlotsHeld, SlotHeld, TlsHeld, PublishOwner, Control, Using
    <3>2. lockOwner'[lockCount] = lockOwner[lockCount]
      BY <2>12, <3>1, <1>0 DEF PublishOwner, TypeOK
    <3>3. pc'[t] = "idle" /\ \A u \in Threads \ {t} :
             pc'[u] = pc[u] /\ arg'[u] = arg[u] /\ slot'[u] = slot[u]
      BY <2>12, <1>0 DEF PublishOwner, Return, TypeOK
    <3>4. QED
      BY <2>12, <3>2, <3>3, PendingFrame DEF PublishOwner
  <2>13. CASE ClearOwner(t)
    <3>1. slot[t] \in 0..(lockCount - 1)
      BY <2>13 DEF SlotsHeld, SlotHeld, TlsHeld, ClearOwner, Control, Using
    <3>2. lockOwner'[lockCount] = lockOwner[lockCount]
      BY <2>13, <3>1, <1>0 DEF ClearOwner, TypeOK
    <3>3. pc'[t] = "idle" /\ \A u \in Threads \ {t} :
             pc'[u] = pc[u] /\ arg'[u] = arg[u] /\ slot'[u] = slot[u]
      BY <2>13, <1>0 DEF ClearOwner, Return, TypeOK
    <3>4. QED
      BY <2>13, <3>2, <3>3, PendingFrame DEF ClearOwner
  <2>14. CASE PublishWait(t)
    <3>1. tlsSlot[t] \in 0..(threadCount - 1)
      BY <2>14 DEF SlotsHeld, SlotHeld, TlsHeld, PublishWait, Control, Using
    <3>2. threadWaiting'[threadCount] = threadWaiting[threadCount]
      BY <2>14, <3>1, <1>0 DEF PublishWait, TypeOK
    <3>3. pc'[t] = "waiting" /\ \A u \in Threads \ {t} :
             pc'[u] = pc[u] /\ arg'[u] = arg[u] /\ slot'[u] = slot[u]
      BY <2>14, <1>0 DEF PublishWait, TypeOK
    <3>4. QED
      BY <2>14, <3>2, <3>3, PendingFrame DEF PublishWait
  <2>15. CASE ClearWait(t)
    <3>1. tlsSlot[t] \in 0..(threadCount - 1)
      BY <2>15 DEF SlotsHeld, SlotHeld, TlsHeld, ClearWait, Control, Using
    <3>2. threadWaiting'[threadCount] = threadWaiting[threadCount]
      BY <2>15, <3>1, <1>0 DEF ClearWait, TypeOK
    <3>3. pc'[t] = "idle" /\ \A u \in Threads \ {t} :
             pc'[u] = pc[u] /\ arg'[u] = arg[u] /\ slot'[u] = slot[u]
      BY <2>15, <1>0 DEF ClearWait, Return, TypeOK
    <3>4. QED
      BY <2>15, <3>2, <3>3, PendingFrame DEF ClearWait
  <2>16. QED
    BY <1>1, <2>1, <2>2, <2>3, <2>4, <2>5, <2>6, <2>7, <2>8, <2>9, <2>10, <2>11, <2>12,
       <2>13, <2>14, <2>15 DEF Internal
<1>2. ASSUME NEW t \in Threads, NEW i \in Tids, Start(t, i)
      PROVE  Pending'
  BY <1>2, PendingFrame DEF Start, Alive, Control, TypeOK
<1>3. ASSUME NEW t \in Threads, Exit(t)
      PROVE  Pending'
  BY <1>3, PendingFrame DEF Exit, TypeOK
<1>4. ASSUME NEW t \in Threads, NEW m \in Mutexes, NEW o, Enter(t, m, o)
      PROVE  Pending'
  BY <1>4, PendingFrame DEF Enter, FindLockSlot, TypeOK
<1>5. ASSUME NEW t \in Threads, NEW m \in Mutexes, AcquireUnseen(t, m) \/ CondWait(t, m)
      PROVE  Pending'
  BY <1>5, PendingFrame DEF AcquireUnseen, CondWait, TypeOK
<1>6. ASSUME NEW t \in Threads, NEW m \in Mutexes, ReleaseTop(t, m)
      PROVE  Pending'
  BY <1>6, PendingFrame DEF ReleaseTop, TypeOK
<1>7. ASSUME NEW t \in Threads, CondWake(t)
      PROVE  Pending'
  BY <1>7, PendingFrame DEF CondWake, Return, TypeOK
<1>8. CASE UNCHANGED vars
  BY <1>8, PendingFrame DEF vars
<1>9. QED
  BY <1>1, <1>2, <1>3, <1>4, <1>5, <1>6, <1>7, <1>8 DEF Next, Call, Acquire, Release, Block

\* Only two actions write a table.
LEMMA LockTableWriters ==
    [Next]_vars =>
        \/ UNCHANGED <<lockAddr, lockCount>>
        \/ \E t \in Threads : ScanLocks(t) \/ CountLockSlot(t)
<1> USE DEF lockVars
<1>1. ASSUME NEW t \in Threads, Internal(t), ~ScanLocks(t), ~CountLockSlot(t)
      PROVE  UNCHANGED <<lockAddr, lockCount>>
  <2>1. CASE MetaLock(t) \/ UnlockFull(t) \/ Panic(t) \/ InitThreadSlot(t) \/ InitLockSlot(t)
    BY <2>1 DEF MetaLock, UnlockFull, Panic, InitThreadSlot, InitLockSlot
  <2>2. CASE EndRegistration(t) \/ EndLookup(t) \/ ScanThreads(t) \/ CountThreadSlot(t)
    BY <2>2 DEF EndRegistration, EndLookup, ScanThreads, CountThreadSlot
  <2>3. CASE PublishOwner(t) \/ ClearOwner(t) \/ PublishWait(t) \/ ClearWait(t)
    BY <2>3 DEF PublishOwner, ClearOwner, PublishWait, ClearWait
  <2>4. QED
    BY <1>1, <2>1, <2>2, <2>3 DEF Internal
<1>2. ASSUME NEW t \in Threads, Call(t)
      PROVE  UNCHANGED <<lockAddr, lockCount>>
  BY <1>2 DEF Call, Start, Exit, Acquire, AcquireUnseen, Release, ReleaseTop, Block, Enter,
              CondWait, CondWake
<1>3. QED
  BY <1>1, <1>2 DEF Next, vars

LEMMA ThreadTableWriters ==
    [Next]_vars =>
        \/ UNCHANGED <<threadTid, threadCount>>
        \/ \E t \in Threads : ScanThreads(t) \/ CountThreadSlot(t)
<1> USE DEF threadVars
<1>1. ASSUME NEW t \in Threads, Internal(t), ~ScanThreads(t), ~CountThreadSlot(t)
      PROVE  UNCHANGED <<threadTid, threadCount>>
  <2>1. CASE MetaLock(t) \/ UnlockFull(t) \/ Panic(t) \/ InitThreadSlot(t) \/ InitLockSlot(t)
    BY <2>1 DEF MetaLock, UnlockFull, Panic, InitThreadSlot, InitLockSlot
  <2>2. CASE EndRegistration(t) \/ EndLookup(t) \/ ScanLocks(t) \/ CountLockSlot(t)
    BY <2>2 DEF EndRegistration, EndLookup, ScanLocks, CountLockSlot
  <2>3. CASE PublishOwner(t) \/ ClearOwner(t) \/ PublishWait(t) \/ ClearWait(t)
    BY <2>3 DEF PublishOwner, ClearOwner, PublishWait, ClearWait
  <2>4. QED
    BY <1>1, <2>1, <2>2, <2>3 DEF Internal
<1>2. ASSUME NEW t \in Threads, Call(t)
      PROVE  UNCHANGED <<threadTid, threadCount>>
  BY <1>2 DEF Call, Start, Exit, Acquire, AcquireUnseen, Release, ReleaseTop, Block, Enter,
              CondWait, CondWake
<1>3. QED
  BY <1>1, <1>2 DEF Next, vars

\* A counted slot keeps its key for ever.
Grown ==
    /\ lockCount' \in Nat /\ lockCount <= lockCount'
    /\ \A s \in 0..(lockCount - 1) : lockAddr'[s] = lockAddr[s]
    /\ threadCount' \in Nat /\ threadCount <= threadCount'
    /\ \A s \in 0..(threadCount - 1) : threadTid'[s] = threadTid[s]

LEMMA TablesGrow == TypeOK /\ [Next]_vars => Grown
<1> SUFFICES ASSUME TypeOK, [Next]_vars
             PROVE  Grown
  OBVIOUS
<1>0. lockCount \in Nat /\ threadCount \in Nat
  BY DEF TypeOK
<1>1. /\ lockCount' \in Nat /\ lockCount <= lockCount'
      /\ \A s \in 0..(lockCount - 1) : lockAddr'[s] = lockAddr[s]
  <2>1. ASSUME NEW t \in Threads, ScanLocks(t)
        PROVE  lockCount' = lockCount /\ \A s \in 0..(lockCount - 1) : lockAddr'[s] = lockAddr[s]
    BY <2>1, <1>0, RegistryAssumption DEF ScanLocks, TypeOK, LockSlots
  <2>2. ASSUME NEW t \in Threads, CountLockSlot(t)
        PROVE  lockCount' = lockCount + 1 /\ UNCHANGED lockAddr
    BY <2>2 DEF CountLockSlot
  <2>3. QED
    BY <1>0, <2>1, <2>2, LockTableWriters
<1>2. /\ threadCount' \in Nat /\ threadCount <= threadCount'
      /\ \A s \in 0..(threadCount - 1) : threadTid'[s] = threadTid[s]
  <2>1. ASSUME NEW t \in Threads, ScanThreads(t)
        PROVE  threadCount' = threadCount
               /\ \A s \in 0..(threadCount - 1) : threadTid'[s] = threadTid[s]
    BY <2>1, <1>0, RegistryAssumption DEF ScanThreads, TypeOK, ThreadSlots
  <2>2. ASSUME NEW t \in Threads, CountThreadSlot(t)
        PROVE  threadCount' = threadCount + 1 /\ UNCHANGED threadTid
    BY <2>2 DEF CountThreadSlot
  <2>3. QED
    BY <1>0, <2>1, <2>2, ThreadTableWriters
<1>3. QED
  BY <1>1, <1>2 DEF Grown

LEMMA RangeGrows ==
    ASSUME NEW a \in Nat, NEW b \in Nat, a <= b, NEW n \in 0..(a - 1)
    PROVE  n \in 0..(b - 1)
OBVIOUS

LEMMA CacheFrame ==
    ASSUME TypeOK, SlotsHeld, Grown, NEW u \in Threads, cache'[u] = cache[u]
    PROVE  CacheHeld(u)'
<1>1. SUFFICES ASSUME NEW i \in CacheSlots, cache[u][i].mutex # NullAddr
               PROVE  /\ cache[u][i].slot \in 0..(lockCount' - 1)
                      /\ lockAddr'[cache[u][i].slot] = cache[u][i].mutex
  BY DEF CacheHeld
<1>2. /\ cache[u][i].slot \in 0..(lockCount - 1)
      /\ lockAddr[cache[u][i].slot] = cache[u][i].mutex
  BY <1>1 DEF SlotsHeld, CacheHeld
<1>3. lockCount \in Nat /\ lockCount' \in Nat /\ lockCount <= lockCount'
      /\ \A s \in 0..(lockCount - 1) : lockAddr'[s] = lockAddr[s]
  BY DEF Grown, TypeOK
<1> DEFINE n == cache[u][i].slot
<1>4. n \in 0..(lockCount - 1) /\ lockAddr[n] = cache[u][i].mutex
  BY <1>2
<1> HIDE DEF n
<1>5. n \in 0..(lockCount' - 1)
  BY <1>3, <1>4, RangeGrows
<1>6. lockAddr'[n] = lockAddr[n]
  BY <1>3, <1>4
<1>7. QED
  BY <1>4, <1>5, <1>6 DEF n

LEMMA ReturnFrame ==
    ASSUME TypeOK, NEW t \in Threads, Return(t), NEW u \in Threads
    PROVE  slot'[u] = Invalid \/ (slot'[u] = slot[u] /\ arg'[u] = arg[u])
<1>1. DOMAIN slot = Threads /\ DOMAIN arg = Threads
  BY DEF TypeOK
<1>2. slot' = [slot EXCEPT ![t] = Invalid] /\ arg' = [arg EXCEPT ![t] = NullAddr]
  BY DEF Return
<1>3. CASE u = t
  BY <1>1, <1>2, <1>3
<1>4. CASE u # t
  BY <1>1, <1>2, <1>4
<1>5. QED
  BY <1>3, <1>4

LEMMA SlotFrame ==
    ASSUME TypeOK, SlotsHeld, Grown, NEW u \in Threads,
           slot'[u] = Invalid \/ (slot'[u] = slot[u] /\ arg'[u] = arg[u])
    PROVE  SlotHeld(u)'
BY DEF TypeOK, SlotsHeld, SlotHeld, Grown

LEMMA TlsFrame ==
    ASSUME TypeOK, SlotsHeld, Grown, NEW u \in Threads,
           tlsSlot'[u] = Invalid \/ (tlsSlot'[u] = tlsSlot[u] /\ tid'[u] = tid[u])
    PROVE  TlsHeld(u)'
BY DEF TypeOK, SlotsHeld, TlsHeld, Grown

LEMMA StackFrame ==
    ASSUME TypeOK, SlotsHeld, Grown, NEW u \in Threads,
           \A s \in held'[u] : s \in held[u] \/ (s = slot[u] /\ slot[u] # Invalid)
    PROVE  StackHeld(u)'
<1>1. lockCount \in Nat /\ lockCount' \in Nat /\ lockCount <= lockCount'
  BY DEF Grown, TypeOK
<1>2. \A s \in held'[u] : s \in 0..(lockCount - 1)
  BY DEF SlotsHeld, SlotHeld, StackHeld
<1>3. QED
  BY <1>1, <1>2, RangeGrows DEF StackHeld

\* A hit of the cache yields the mutex's slot.
LEMMA FindRight ==
    ASSUME TypeOK, SlotsHeld, Grown, NEW t \in Threads, NEW m \in Mutexes, FindLockSlot(t, m),
           arg'[t] = m, slot[t] = Invalid
    PROVE  SlotHeld(t)'
<1>1. CASE Hits(t, m)
  <2>1. /\ Entry(t, m).slot \in 0..(lockCount - 1)
        /\ lockAddr[Entry(t, m).slot] = m
    BY <1>1, EntryType, RegistryAssumption DEF SlotsHeld, CacheHeld, Entry, Hits
  <2>2. slot'[t] = Entry(t, m).slot
    BY <1>1 DEF FindLockSlot, TypeOK
  <2>3. QED
    BY <2>1, <2>2 DEF SlotHeld, Grown, TypeOK
<1>2. CASE ~Hits(t, m)
  BY <1>2 DEF FindLockSlot, SlotHeld
<1>3. QED
  BY <1>1, <1>2

LEMMA SlotsHeldStep ==
    TypeOK /\ Control /\ Pending /\ SlotsHeld /\ [Next]_vars => SlotsHeld'
<1> SUFFICES ASSUME TypeOK, Control, Pending, SlotsHeld, [Next]_vars
             PROVE  SlotsHeld'
  OBVIOUS
<1>0. Grown
  BY TablesGrow
<1> USE DEF lockVars, threadVars, callVars
<1>f. ASSUME \A u \in Threads :
                /\ cache'[u] = cache[u]
                /\ slot'[u] = Invalid \/ (slot'[u] = slot[u] /\ arg'[u] = arg[u])
                /\ tlsSlot'[u] = Invalid \/ (tlsSlot'[u] = tlsSlot[u] /\ tid'[u] = tid[u])
                /\ \A s \in held'[u] : s \in held[u] \/ (s = slot[u] /\ slot[u] # Invalid)
      PROVE  SlotsHeld'
  BY <1>0, <1>f, CacheFrame, SlotFrame, TlsFrame, StackFrame DEF SlotsHeld
<1>s. ASSUME NEW t \in Threads, SlotHeld(t)', UNCHANGED <<cache, tlsSlot, tid, held>>,
             \A u \in Threads \ {t} : slot'[u] = slot[u] /\ arg'[u] = arg[u]
      PROVE  SlotsHeld'
  BY <1>0, <1>s, CacheFrame, SlotFrame, TlsFrame, StackFrame DEF SlotsHeld
<1>1. ASSUME NEW t \in Threads, Internal(t)
      PROVE  SlotsHeld'
  <2>1. CASE MetaLock(t) \/ UnlockFull(t) \/ Panic(t) \/ InitThreadSlot(t) \/ InitLockSlot(t)
    BY <1>f, <2>1 DEF MetaLock, UnlockFull, Panic, InitThreadSlot, InitLockSlot
  <2>2. CASE ScanThreads(t)
    <3>1. \A u \in Threads : CacheHeld(u)' /\ SlotHeld(u)' /\ StackHeld(u)'
      BY <1>0, <2>2, CacheFrame, SlotFrame, StackFrame DEF ScanThreads
    <3>2. \A u \in Threads \ {t} : TlsHeld(u)'
      BY <1>0, <2>2, TlsFrame DEF ScanThreads, TypeOK
    <3>3. TlsHeld(t)'
      <4>1. CASE tlsSlot'[t] = tlsSlot[t]
        BY <1>0, <2>2, <4>1, TlsFrame DEF ScanThreads
      <4>2. CASE tlsSlot'[t] # tlsSlot[t]
        <5>1. PICK s \in SlotsOfTid(t) : tlsSlot' = [tlsSlot EXCEPT ![t] = s]
          BY <2>2, <4>2 DEF ScanThreads
        <5>2. tlsSlot'[t] \in 0..(threadCount - 1) /\ threadTid[tlsSlot'[t]] = tid[t]
          BY <5>1 DEF SlotsOfTid, TypeOK
        <5>3. QED
          BY <1>0, <2>2, <5>2 DEF ScanThreads, TlsHeld, Grown, TypeOK
      <4>3. QED
        BY <4>1, <4>2
    <3>4. QED
      BY <3>1, <3>2, <3>3 DEF SlotsHeld
  <2>3. CASE CountThreadSlot(t)
    <3>1. \A u \in Threads : CacheHeld(u)' /\ SlotHeld(u)' /\ StackHeld(u)'
      BY <1>0, <2>3, CacheFrame, SlotFrame, StackFrame DEF CountThreadSlot
    <3>2. \A u \in Threads \ {t} : TlsHeld(u)'
      BY <1>0, <2>3, TlsFrame DEF CountThreadSlot, TypeOK
    <3>3. threadTid[threadCount] = tid[t] /\ threadCount \in Nat
      BY <2>3 DEF CountThreadSlot, Pending, PendingThread, TypeOK
    <3>4. TlsHeld(t)'
      BY <2>3, <3>3 DEF CountThreadSlot, TlsHeld, TypeOK
    <3>5. QED
      BY <3>1, <3>2, <3>4 DEF SlotsHeld
  <2>4. CASE EndRegistration(t)
    <3>1. arg[t] \in Mutexes /\ slot[t] = Invalid
      BY <2>4 DEF EndRegistration, Control, Using
    <3>2. SlotHeld(t)'
      BY <1>0, <2>4, <3>1, FindRight DEF EndRegistration
    <3>3. \A u \in Threads \ {t} : slot'[u] = slot[u]
      BY <2>4 DEF EndRegistration, FindLockSlot, TypeOK
    <3>4. QED
      BY <1>s, <2>4, <3>2, <3>3 DEF EndRegistration
  <2>5. CASE ScanLocks(t)
    <3>1. \A u \in Threads \ {t} : slot'[u] = slot[u]
      BY <2>5 DEF ScanLocks, TypeOK
    <3>2. SlotHeld(t)'
      <4>1. CASE slot'[t] = slot[t]
        BY <1>0, <2>5, <4>1, SlotFrame DEF ScanLocks
      <4>2. CASE slot'[t] # slot[t]
        <5>1. PICK s \in SlotsOfMutex(arg[t]) : slot' = [slot EXCEPT ![t] = s]
          BY <2>5, <4>2 DEF ScanLocks
        <5>2. slot'[t] \in 0..(lockCount - 1) /\ lockAddr[slot'[t]] = arg[t]
          BY <5>1 DEF SlotsOfMutex, TypeOK
        <5>3. QED
          BY <1>0, <2>5, <5>2 DEF ScanLocks, SlotHeld, Grown, TypeOK
      <4>3. QED
        BY <4>1, <4>2
    <3>3. QED
      BY <1>s, <2>5, <3>1, <3>2 DEF ScanLocks
  <2>6. CASE CountLockSlot(t)
    <3>1. lockAddr[lockCount] = arg[t] /\ lockCount \in Nat
      BY <2>6 DEF CountLockSlot, Pending, PendingLock, TypeOK
    <3>2. SlotHeld(t)'
      BY <2>6, <3>1 DEF CountLockSlot, SlotHeld, TypeOK
    <3>3. \A u \in Threads \ {t} : slot'[u] = slot[u]
      BY <2>6 DEF CountLockSlot, TypeOK
    <3>4. QED
      BY <1>s, <2>6, <3>2, <3>3 DEF CountLockSlot
  <2>7. CASE EndLookup(t)
    <3>1. CASE slot[t] = Invalid
      BY <1>f, <2>7, <3>1, ReturnFrame DEF EndLookup
    <3>2. CASE slot[t] # Invalid
      <4> DEFINE i == CacheIndex[arg[t]]
                 e == [mutex |-> arg[t], slot |-> slot[t]]
      <4>1. /\ cache' = [cache EXCEPT ![t][i] = e]
            /\ UNCHANGED <<lockAddr, lockCount, threadTid, threadCount, op, arg, slot, tid, tlsSlot,
                           held>>
        BY <2>7, <3>2 DEF EndLookup
      <4>2. \A u \in Threads : SlotHeld(u)' /\ TlsHeld(u)' /\ StackHeld(u)'
        BY <1>0, <4>1, SlotFrame, TlsFrame, StackFrame
      <4>3. \A u \in Threads \ {t} : CacheHeld(u)'
        BY <1>0, <4>1, CacheFrame DEF TypeOK
      <4>4. cache'[t] = [cache[t] EXCEPT ![i] = e] /\ cache[t] \in [CacheSlots -> Entries]
        BY <4>1 DEF TypeOK
      <4>5. slot[t] \in 0..(lockCount - 1) /\ lockAddr[slot[t]] = arg[t]
        BY <3>2 DEF SlotsHeld, SlotHeld
      <4>6. \A j \in CacheSlots : cache'[t][j] = cache[t][j] \/ cache'[t][j] = e
        BY <4>4
      <4>7. CacheHeld(t)
        BY DEF SlotsHeld
      <4>8. CacheHeld(t)'
        BY <4>1, <4>5, <4>6, <4>7 DEF CacheHeld
      <4>9. QED
        BY <4>2, <4>3, <4>8 DEF SlotsHeld
    <3>3. QED
      BY <3>1, <3>2
  <2>8. CASE PublishOwner(t)
    <3>1. slot[t] # Invalid
      BY <2>8 DEF PublishOwner, Control, Using
    <3>2. \A u \in Threads : \A s \in held'[u] :
             s \in held[u] \/ (s = slot[u] /\ slot[u] # Invalid)
      BY <2>8, <3>1 DEF PublishOwner, TypeOK
    <3>3. QED
      BY <1>f, <2>8, <3>2, ReturnFrame DEF PublishOwner
  <2>9. CASE ClearOwner(t)
    <3>1. \A u \in Threads : \A s \in held'[u] : s \in held[u]
      BY <2>9 DEF ClearOwner, TypeOK
    <3>2. QED
      BY <1>f, <2>9, <3>1, ReturnFrame DEF ClearOwner
  <2>10. CASE PublishWait(t)
    BY <1>f, <2>10 DEF PublishWait
  <2>11. CASE ClearWait(t)
    BY <1>f, <2>11, ReturnFrame DEF ClearWait
  <2>12. QED
    BY <1>1, <2>1, <2>2, <2>3, <2>4, <2>5, <2>6, <2>7, <2>8, <2>9, <2>10, <2>11 DEF Internal
<1>2. ASSUME NEW t \in Threads, NEW i \in Tids, Start(t, i)
      PROVE  SlotsHeld'
  <2>1. tlsSlot[t] = Invalid
    BY <1>2 DEF Start, Alive, Control
  <2>2. \A u \in Threads \ {t} : tid'[u] = tid[u]
    BY <1>2 DEF Start, TypeOK
  <2>3. \A u \in Threads : tlsSlot'[u] = Invalid \/ (tlsSlot'[u] = tlsSlot[u] /\ tid'[u] = tid[u])
    BY <1>2, <2>1, <2>2 DEF Start
  <2>4. QED
    BY <1>f, <1>2, <2>3 DEF Start
<1>3. ASSUME NEW t \in Threads, Exit(t)
      PROVE  SlotsHeld'
  <2>0. tlsSlot'[t] = Invalid /\ \A u \in Threads \ {t} : tlsSlot'[u] = tlsSlot[u] /\ tid'[u] = tid[u]
    BY <1>3 DEF Exit, TypeOK
  <2>1. \A u \in Threads : SlotHeld(u)' /\ TlsHeld(u)' /\ StackHeld(u)'
    <3>1. \A u \in Threads : tlsSlot'[u] = Invalid \/ (tlsSlot'[u] = tlsSlot[u] /\ tid'[u] = tid[u])
      BY <2>0
    <3>2. slot' = slot /\ arg' = arg
      BY <1>3 DEF Exit
    <3>3. \A u \in Threads : \A s \in held'[u] : s \in held[u]
      BY <1>3 DEF Exit, TypeOK
    <3>4. QED
      BY <1>0, <3>1, <3>2, <3>3, SlotFrame, TlsFrame, StackFrame
  <2>2. \A u \in Threads \ {t} : CacheHeld(u)'
    BY <1>0, <1>3, CacheFrame DEF Exit, TypeOK
  <2>3. CacheHeld(t)'
    BY <1>3 DEF Exit, CacheHeld, NoEntry, TypeOK
  <2>4. QED
    BY <2>1, <2>2, <2>3 DEF SlotsHeld
<1>4. ASSUME NEW t \in Threads, NEW m \in Mutexes, NEW o, Enter(t, m, o)
      PROVE  SlotsHeld'
  <2>1. arg'[t] = m /\ slot[t] = Invalid /\ \A u \in Threads \ {t} : arg'[u] = arg[u]
    BY <1>4 DEF Enter, Control, Using, TypeOK
  <2>2. SlotHeld(t)'
    <3>1. CASE tlsSlot[t] = Invalid
      BY <1>4, <2>1, <3>1 DEF Enter, SlotHeld
    <3>2. CASE tlsSlot[t] # Invalid
      BY <1>0, <1>4, <2>1, <3>2, FindRight DEF Enter
    <3>3. QED
      BY <3>1, <3>2
  <2>3. \A u \in Threads \ {t} : slot'[u] = slot[u]
    BY <1>4 DEF Enter, FindLockSlot, TypeOK
  <2>4. QED
    BY <1>s, <1>4, <2>1, <2>2, <2>3 DEF Enter
<1>5. ASSUME NEW t \in Threads, NEW m \in Mutexes, AcquireUnseen(t, m) \/ CondWait(t, m)
      PROVE  SlotsHeld'
  <2>1. CASE AcquireUnseen(t, m)
    BY <1>f, <2>1 DEF AcquireUnseen
  <2>2. CASE CondWait(t, m)
    <3>1. slot'[t] = Invalid /\ \A u \in Threads \ {t} : arg'[u] = arg[u]
      BY <2>2 DEF CondWait, Control, Using, TypeOK
    <3>2. QED
      BY <1>s, <2>2, <3>1 DEF CondWait, SlotHeld
  <2>3. QED
    BY <1>5, <2>1, <2>2
<1>6. ASSUME NEW t \in Threads, NEW m \in Mutexes, ReleaseTop(t, m)
      PROVE  SlotsHeld'
  <2>1. SlotHeld(t)'
    BY <1>6 DEF ReleaseTop, SlotsHeld, StackHeld, SlotHeld, TypeOK
  <2>2. \A u \in Threads \ {t} : slot'[u] = slot[u] /\ arg'[u] = arg[u]
    BY <1>6 DEF ReleaseTop, TypeOK
  <2>3. QED
    BY <1>s, <1>6, <2>1, <2>2 DEF ReleaseTop
<1>7. ASSUME NEW t \in Threads, CondWake(t)
      PROVE  SlotsHeld'
  BY <1>f, <1>7, ReturnFrame DEF CondWake
<1>8. CASE UNCHANGED vars
  BY <1>f, <1>8 DEF vars
<1>9. QED
  BY <1>1, <1>2, <1>3, <1>4, <1>5, <1>6, <1>7, <1>8 DEF Next, Call, Acquire, Release, Block

LEMMA TidsStep == TypeOK /\ TidsUnique /\ [Next]_vars => TidsUnique'
<1> SUFFICES ASSUME TypeOK, TidsUnique, [Next]_vars
             PROVE  TidsUnique'
  OBVIOUS
<1>1. ASSUME NEW t \in Threads, NEW i \in Tids, Start(t, i)
      PROVE  TidsUnique'
  BY <1>1 DEF Start, TidsUnique, TypeOK
<1>2. ASSUME NEW t \in Threads, Exit(t)
      PROVE  TidsUnique'
  BY <1>2 DEF Exit, TidsUnique, TypeOK
<1>3. ASSUME NEW t \in Threads, Internal(t)
      PROVE  UNCHANGED tid
  <2>1. CASE MetaLock(t) \/ UnlockFull(t) \/ Panic(t) \/ InitThreadSlot(t) \/ InitLockSlot(t)
    BY <2>1 DEF MetaLock, UnlockFull, Panic, InitThreadSlot, InitLockSlot
  <2>2. CASE \/ EndRegistration(t) \/ EndLookup(t) \/ ScanLocks(t) \/ CountLockSlot(t)
            \/ ScanThreads(t) \/ CountThreadSlot(t)
    BY <2>2 DEF EndRegistration, EndLookup, ScanLocks, CountLockSlot, ScanThreads,
                CountThreadSlot
  <2>3. CASE PublishOwner(t) \/ ClearOwner(t) \/ PublishWait(t) \/ ClearWait(t)
    BY <2>3 DEF PublishOwner, ClearOwner, PublishWait, ClearWait
  <2>4. QED
    BY <1>3, <2>1, <2>2, <2>3 DEF Internal
<1>4. ASSUME NEW t \in Threads, NEW m \in Mutexes,
             \/ Acquire(t, m) \/ AcquireUnseen(t, m) \/ Release(t, m)
             \/ ReleaseTop(t, m) \/ Block(t, m) \/ CondWait(t, m)
      PROVE  UNCHANGED tid
  BY <1>4 DEF Acquire, AcquireUnseen, Release, ReleaseTop, Block, Enter, CondWait
<1>5. ASSUME NEW t \in Threads, CondWake(t)
      PROVE  UNCHANGED tid
  BY <1>5 DEF CondWake
<1>6. UNCHANGED tid => TidsUnique'
  BY DEF TidsUnique
<1>7. QED
  BY <1>1, <1>2, <1>3, <1>4, <1>5, <1>6 DEF Next, Call, vars

LEMMA CountedStep == TypeOK /\ Control /\ Pending /\ Counted /\ [Next]_vars => Counted'
<1> SUFFICES ASSUME TypeOK, Control, Pending, Counted, [Next]_vars
             PROVE  Counted'
  OBVIOUS
<1>0. lockCount \in Nat /\ Grown
  BY TablesGrow DEF TypeOK
<1>1. lockCount' = lockCount => Counted'
  BY <1>0 DEF Grown, Counted
<1>2. ASSUME NEW t \in Threads, CountLockSlot(t)
      PROVE  Counted'
  <2>1. /\ lockAddr[lockCount] = arg[t] /\ arg[t] \in Mutexes
        /\ \A s \in 0..(lockCount - 1) : lockAddr[s] # arg[t]
        /\ lockCount' = lockCount + 1 /\ lockAddr' = lockAddr
    BY <1>2 DEF CountLockSlot, Pending, PendingLock, Control, SlotsOfMutex
  <2>2. \A s \in 0..(lockCount' - 1) : s = lockCount \/ s \in 0..(lockCount - 1)
    BY <1>0, <2>1
  <2>3. QED
    BY <2>1, <2>2 DEF Counted
<1>3. ASSUME NEW t \in Threads, ScanLocks(t)
      PROVE  lockCount' = lockCount
  BY <1>3 DEF ScanLocks
<1>4. QED
  BY <1>1, <1>2, <1>3, LockTableWriters

LEMMA HeldSlotsAreRight ==
    TypeOK /\ Control /\ SlotsHeld /\ TidsUnique => SlotsAreRight
<1> SUFFICES ASSUME TypeOK, Control, SlotsHeld, TidsUnique
             PROVE  SlotsAreRight
  OBVIOUS
<1>1. ASSUME NEW t \in Threads
      PROVE  /\ \A i \in CacheSlots : cache[t][i].mutex # NullAddr =>
                   PrintLockSlot(cache[t][i].slot) = cache[t][i].mutex
             /\ slot[t] # Invalid => PrintLockSlot(slot[t]) = arg[t]
             /\ tlsSlot[t] # Invalid => PrintThreadSlot(tlsSlot[t]) = tid[t]
  BY DEF SlotsHeld, CacheHeld, SlotHeld, TlsHeld, PrintLockSlot, PrintThreadSlot
<1>2. ASSUME NEW t \in Threads, NEW u \in Threads, tlsSlot[t] = tlsSlot[u],
             tlsSlot[t] # Invalid
      PROVE  t = u
  <2>1. tid[t] = tid[u]
    BY <1>2 DEF SlotsHeld, TlsHeld
  <2>2. tid[t] # NoTid
    BY <1>2 DEF Control
  <2>3. QED
    BY <2>1, <2>2 DEF TidsUnique
<1>3. QED
  BY <1>1, <1>2 DEF SlotsAreRight

\* The inductive invariant behind everything below.
IInv ==
    /\ TypeOK
    /\ Control
    /\ MetaLockGivenBack
    /\ Pending
    /\ SlotsHeld
    /\ Counted
    /\ TidsUnique

THEOREM InvariantHolds == Spec => []IInv
<1>1. Init => IInv
  <2>1. Init => SlotsHeld /\ TidsUnique /\ Counted
    BY DEF Init, Counted, SlotsHeld, CacheHeld, SlotHeld, TlsHeld, StackHeld, NoEntry,
           TidsUnique
  <2>2. QED
    BY <2>1, StartsRight DEF IInv
<1>2. IInv /\ [Next]_vars => IInv'
  BY TypeStep, ControlStep, MetaLockStep, PendingStep, SlotsHeldStep, CountedStep, TidsStep
     DEF IInv
<1>3. QED
  BY <1>1, <1>2, PTL DEF Spec

\* The types of the registry: no slot lies outside its array.
THEOREM TypeCorrect == Spec => []TypeOK
<1>1. IInv => TypeOK
  BY DEF IInv
<1>2. QED
  BY <1>1, InvariantHolds, PTL

\* Two threads are never in the registry at once, and nobody leaves it locked.
THEOREM MetaLockCorrect == Spec => []MetaLockGivenBack
<1>1. IInv => MetaLockGivenBack
  BY DEF IInv
<1>2. QED
  BY <1>1, InvariantHolds, PTL

\* A thread's slots are the ones of its mutex and of itself.
THEOREM SlotsCorrect == Spec => []SlotsAreRight
<1>1. IInv => SlotsAreRight
  BY HeldSlotsAreRight DEF IInv
<1>2. QED
  BY <1>1, InvariantHolds, PTL

-----------------------------------------------------------------------------
(* The refinement.                                                         *)

\* One more entry in an array is Append.
LEMMA TableAppend ==
    ASSUME NEW S, NEW f, NEW g, NEW n \in Nat, NEW k \in S,
           \A i \in 0..(n - 1) : f[i] \in S /\ g[i] = f[i],
           g[n] = k
    PROVE  /\ [i \in 1..(n + 1) |-> g[i - 1]] = Append([i \in 1..n |-> f[i - 1]], k)
           /\ Len([i \in 1..n |-> f[i - 1]]) = n
<1> DEFINE old == [i \in 1..n |-> f[i - 1]]
           grown == [i \in 1..(n + 1) |-> g[i - 1]]
<1>1. old \in Seq(S) /\ Len(old) = n /\ \A i \in 1..n : old[i] = f[i - 1]
  OBVIOUS
<1> HIDE DEF old
<1>2. /\ Append(old, k) \in Seq(S) /\ Len(Append(old, k)) = n + 1
      /\ \A i \in 1..n : Append(old, k)[i] = old[i]
      /\ Append(old, k)[n + 1] = k
  BY <1>1, AppendProperties
<1>3. \A i \in 1..(n + 1) : Append(old, k)[i] = g[i - 1]
  BY <1>1, <1>2
<1>5. \A i \in 1..(n + 1) : g[i - 1] \in S
  OBVIOUS
<1>6. grown \in Seq(S) /\ Len(grown) = n + 1 /\ \A i \in 1..(n + 1) : grown[i] = g[i - 1]
  BY <1>5
<1> HIDE DEF grown
<1>7. grown = Append(old, k)
  BY <1>2, <1>3, <1>6, SeqEqual
<1>8. QED
  BY <1>1, <1>7 DEF old, grown

LEMMA LockTableStep ==
    IInv /\ [Next]_vars => [LockTable!Next]_([i \in 1..lockCount |-> lockAddr[i - 1]])
<1> DEFINE table == [i \in 1..lockCount |-> lockAddr[i - 1]]
           S == Mutexes \cup {NullAddr}
<1> SUFFICES ASSUME IInv, [Next]_vars
             PROVE  LockTable!Next \/ table' = table
  OBVIOUS
<1>0. /\ TypeOK /\ lockCount \in 0..MaxLockSlots /\ MaxLockSlots \in Nat
      /\ \A i \in 0..(lockCount - 1) : lockAddr[i] \in S
  BY RegistryAssumption DEF IInv, TypeOK, LockSlots
<1>1. Grown
  BY <1>0, TablesGrow
<1>2. lockCount' = lockCount => table' = table
  BY <1>0, <1>1 DEF Grown
<1>3. ASSUME NEW t \in Threads, CountLockSlot(t)
      PROVE  LockTable!Next
  <2>1. /\ lockAddr[lockCount] = arg[t] /\ arg[t] \in Mutexes
        /\ lockCount < MaxLockSlots /\ SlotsOfMutex(arg[t]) = {}
        /\ lockCount' = lockCount + 1 /\ lockAddr' = lockAddr
    BY <1>3 DEF CountLockSlot, IInv, Pending, PendingLock, Control
  <2>2. table' = Append(table, arg[t]) /\ Len(table) = lockCount
    BY <1>0, <2>1, TableAppend
  <2>3. \A i \in 1..lockCount : table[i] # arg[t]
    BY <1>0, <2>1 DEF SlotsOfMutex
  <2>4. QED
    BY <2>1, <2>2, <2>3 DEF LockTable!Next, LockTable!Add
<1>4. ASSUME NEW t \in Threads, ScanLocks(t)
      PROVE  lockCount' = lockCount
  BY <1>4 DEF ScanLocks
<1>5. QED
  BY <1>2, <1>3, <1>4, LockTableWriters

LEMMA ThreadTableStep ==
    IInv /\ [Next]_vars => [ThreadTable!Next]_([i \in 1..threadCount |-> threadTid[i - 1]])
<1> DEFINE table == [i \in 1..threadCount |-> threadTid[i - 1]]
           S == Tids \cup {NoTid}
<1> SUFFICES ASSUME IInv, [Next]_vars
             PROVE  ThreadTable!Next \/ table' = table
  OBVIOUS
<1>0. /\ TypeOK /\ threadCount \in 0..MaxThreadSlots /\ MaxThreadSlots \in Nat
      /\ \A i \in 0..(threadCount - 1) : threadTid[i] \in S
  BY RegistryAssumption DEF IInv, TypeOK, ThreadSlots
<1>1. Grown
  BY <1>0, TablesGrow
<1>2. threadCount' = threadCount => table' = table
  BY <1>0, <1>1 DEF Grown
<1>3. ASSUME NEW t \in Threads, CountThreadSlot(t)
      PROVE  ThreadTable!Next
  <2>1. tid[t] \in Tids
    BY <1>0, <1>3 DEF CountThreadSlot, IInv, Control, TypeOK
  <2>2. /\ threadTid[threadCount] = tid[t]
        /\ threadCount < MaxThreadSlots /\ SlotsOfTid(t) = {}
        /\ threadCount' = threadCount + 1 /\ threadTid' = threadTid
    BY <1>3 DEF CountThreadSlot, IInv, Pending, PendingThread
  <2>3. table' = Append(table, tid[t]) /\ Len(table) = threadCount
    BY <1>0, <2>1, <2>2, TableAppend
  <2>4. \A i \in 1..threadCount : table[i] # tid[t]
    BY <1>0, <2>2 DEF SlotsOfTid
  <2>5. QED
    BY <2>1, <2>2, <2>3, <2>4 DEF ThreadTable!Next, ThreadTable!Add
<1>4. ASSUME NEW t \in Threads, ScanThreads(t)
      PROVE  threadCount' = threadCount
  BY <1>4 DEF ScanThreads, threadVars
<1>5. QED
  BY <1>2, <1>3, <1>4, ThreadTableWriters

\* The lock slots are an append-only table of mutexes without duplicates.
THEOREM LockTableImplemented == Spec => LockSlotsAreATable
<1>1. Init => LockTable!Init
  BY DEF Init, LockTable!Init
<1>2. QED
  BY <1>1, LockTableStep, InvariantHolds, PTL DEF Spec, LockSlotsAreATable, LockTable!Spec

\* The thread slots are an append-only table of ids without duplicates.
THEOREM ThreadTableImplemented == Spec => ThreadSlotsAreATable
<1>1. Init => ThreadTable!Init
  BY DEF Init, ThreadTable!Init
<1>2. QED
  BY <1>1, ThreadTableStep, InvariantHolds, PTL DEF Spec, ThreadSlotsAreATable, ThreadTable!Spec

-----------------------------------------------------------------------------
(* The names in a report.                                                  *)

\* An unlock, or a wait on a condition variable, has given the mutex back and has
\* not cleared, or will not clear, its owner word.
GivingBack == {"release", "cond_wait"}

\* An acquire in progress has the mutex.
Holding == \A t \in Threads : op[t] = "acquire" => holder[arg[t]] = t

Named(s) ==
    \/ lockOwner[s] = Invalid
    \/ holder[lockAddr[s]] = Gone
    \/ \E t \in Threads :
          /\ tlsSlot[t] = lockOwner[s]
          /\ \/ holder[lockAddr[s]] = t
             \/ op[t] \in GivingBack /\ arg[t] = lockAddr[s]

OwnersNamed == \A s \in 0..(lockCount - 1) : Named(s)

WaitsNamed ==
    \A s \in 0..(threadCount - 1) : threadWaiting[s] # Invalid =>
        \E t \in Threads : tlsSlot[t] = s /\ pc[t] = "waiting" /\ threadWaiting[s] = slot[t]

LEMMA HoldingStep == IInv /\ Holding /\ [Next]_vars => Holding'
<1> SUFFICES ASSUME IInv, Holding, [Next]_vars
             PROVE  Holding'
  OBVIOUS
<1> USE DEF callVars
<1>0. TypeOK /\ Control
  BY DEF IInv
<1>1. UNCHANGED <<op, arg, holder>> => Holding'
  BY DEF Holding
<1>2. ASSUME NEW t \in Threads, Return(t), UNCHANGED holder
      PROVE  Holding'
  BY <1>0, <1>2 DEF Return, Holding, TypeOK
<1>3. ASSUME NEW t \in Threads, Internal(t)
      PROVE  Holding'
  <2>1. CASE MetaLock(t) \/ UnlockFull(t) \/ Panic(t) \/ InitThreadSlot(t) \/ InitLockSlot(t)
    BY <1>1, <2>1 DEF MetaLock, UnlockFull, Panic, InitThreadSlot, InitLockSlot
  <2>2. CASE \/ EndRegistration(t) \/ ScanLocks(t) \/ CountLockSlot(t)
            \/ ScanThreads(t) \/ CountThreadSlot(t) \/ PublishWait(t)
    BY <1>1, <2>2 DEF EndRegistration, ScanLocks, CountLockSlot, ScanThreads, CountThreadSlot,
                      PublishWait
  <2>3. CASE EndLookup(t)
    BY <1>1, <1>2, <2>3 DEF EndLookup
  <2>4. CASE PublishOwner(t) \/ ClearOwner(t) \/ ClearWait(t)
    BY <1>2, <2>4 DEF PublishOwner, ClearOwner, ClearWait
  <2>5. QED
    BY <1>3, <2>1, <2>2, <2>3, <2>4 DEF Internal
<1>4. ASSUME NEW t \in Threads, NEW i \in Tids, Start(t, i)
      PROVE  Holding'
  BY <1>1, <1>4 DEF Start
<1>5. ASSUME NEW t \in Threads, Exit(t)
      PROVE  Holding'
  <2>1. op[t] = "none" /\ op' = op /\ arg' = arg
    BY <1>0, <1>5 DEF Exit, Control
  <2>2. ASSUME NEW u \in Threads, op[u] = "acquire"
        PROVE  holder'[arg[u]] = u
    <3>1. u # t /\ holder[arg[u]] = u /\ arg[u] \in Mutexes
      BY <1>0, <2>1, <2>2 DEF Holding, Control
    <3>2. QED
      BY <1>5, <3>1 DEF Exit
  <2>3. QED
    BY <2>1, <2>2 DEF Holding
<1>6. ASSUME NEW t \in Threads, NEW m \in Mutexes, holder[m] \in {NoThread, t},
             holder' = [holder EXCEPT ![m] = t], op[t] # "acquire",
             \/ op' = [op EXCEPT ![t] = "acquire"] /\ arg' = [arg EXCEPT ![t] = m]
             \/ UNCHANGED <<op, arg>>
      PROVE  Holding'
  BY <1>0, <1>6, RegistryAssumption DEF Holding, Control, TypeOK
<1>7. ASSUME NEW t \in Threads, NEW m \in Mutexes, holder[m] = t, op[t] # "acquire",
             holder' = [holder EXCEPT ![m] = NoThread] \/ holder' = holder,
             \/ op' = [op EXCEPT ![t] = "release"]
             \/ op' = [op EXCEPT ![t] = "cond_wait"],
             arg' = [arg EXCEPT ![t] = m]
      PROVE  Holding'
  BY <1>0, <1>7, RegistryAssumption DEF Holding, Control, TypeOK
<1>8. ASSUME NEW t \in Threads, NEW m \in Mutexes, op[t] # "acquire", UNCHANGED holder,
             op' = [op EXCEPT ![t] = "block"], arg' = [arg EXCEPT ![t] = m]
      PROVE  Holding'
  BY <1>0, <1>8 DEF Holding, Control, TypeOK
<1>9. ASSUME NEW t \in Threads, NEW m \in Mutexes,
             \/ Acquire(t, m) \/ AcquireUnseen(t, m) \/ Release(t, m)
             \/ ReleaseTop(t, m) \/ Block(t, m) \/ CondWait(t, m)
      PROVE  Holding'
  <2>1. op[t] # "acquire"
    BY <1>0, <1>9 DEF Acquire, AcquireUnseen, Release, ReleaseTop, Block, Enter, CondWait,
                      Control
  <2>2. CASE Acquire(t, m) \/ AcquireUnseen(t, m)
    BY <1>6, <2>1, <2>2 DEF Acquire, AcquireUnseen, Enter
  <2>3. CASE Release(t, m) \/ ReleaseTop(t, m) \/ CondWait(t, m)
    BY <1>7, <2>1, <2>3 DEF Release, ReleaseTop, CondWait, Enter
  <2>4. CASE Block(t, m)
    BY <1>8, <2>1, <2>4 DEF Block, Enter
  <2>5. QED
    BY <1>9, <2>2, <2>3, <2>4
<1>10. ASSUME NEW t \in Threads, CondWake(t)
       PROVE  Holding'
  <2>1. holder[arg[t]] = NoThread /\ holder' = [holder EXCEPT ![arg[t]] = t]
        /\ op'[t] = "none" /\ \A u \in Threads \ {t} : op'[u] = op[u] /\ arg'[u] = arg[u]
    BY <1>0, <1>10 DEF CondWake, Return, TypeOK
  <2>2. ASSUME NEW u \in Threads, op'[u] = "acquire"
        PROVE  holder'[arg'[u]] = u
    <3>1. u # t /\ holder[arg[u]] = u /\ arg'[u] = arg[u] /\ arg[u] \in Mutexes
      BY <1>0, <2>1, <2>2 DEF Holding, Control
    <3>2. arg[u] # arg[t]
      BY <2>1, <3>1, RegistryAssumption
    <3>3. QED
      BY <1>0, <2>1, <3>1, <3>2 DEF TypeOK
  <2>3. QED
    BY <2>2 DEF Holding
<1>11. QED
  BY <1>1, <1>3, <1>4, <1>5, <1>9, <1>10 DEF Next, Call, vars

\* A step that writes no owner word that counts, moves no mutex, and neither
\* ends a release or wait nor takes a slot from a thread keeps the names.
LEMMA OwnersFrame ==
    ASSUME IInv, OwnersNamed, Grown, lockCount' = lockCount, UNCHANGED holder,
           \A s \in 0..(lockCount - 1) : lockOwner'[s] = lockOwner[s],
           \A u \in Threads : tlsSlot[u] # Invalid => tlsSlot'[u] = tlsSlot[u],
           \A u \in Threads : op[u] \in GivingBack => op'[u] = op[u] /\ arg'[u] = arg[u]
    PROVE  OwnersNamed'
<1>1. SUFFICES ASSUME NEW s \in 0..(lockCount - 1)
               PROVE  Named(s)'
  BY DEF OwnersNamed
<1>2. lockAddr'[s] = lockAddr[s] /\ lockOwner'[s] = lockOwner[s] /\ Named(s)
  BY <1>1 DEF Grown, OwnersNamed
<1>3. CASE lockOwner[s] = Invalid \/ holder[lockAddr[s]] = Gone
  BY <1>2, <1>3 DEF Named
<1>4. CASE lockOwner[s] # Invalid /\ holder[lockAddr[s]] # Gone
  <2>1. PICK t \in Threads :
           /\ tlsSlot[t] = lockOwner[s]
           /\ \/ holder[lockAddr[s]] = t
              \/ op[t] \in GivingBack /\ arg[t] = lockAddr[s]
    BY <1>2, <1>4 DEF Named
  <2>2. tlsSlot'[t] = lockOwner[s]
    BY <1>4, <2>1
  <2>3. QED
    BY <1>2, <2>1, <2>2 DEF Named
<1>5. QED
  BY <1>3, <1>4

LEMMA OwnersStep == IInv /\ Holding /\ OwnersNamed /\ [Next]_vars => OwnersNamed'
<1> SUFFICES ASSUME IInv, Holding, OwnersNamed, [Next]_vars
             PROVE  OwnersNamed'
  OBVIOUS
<1> USE DEF lockVars, callVars
<1>0. /\ TypeOK /\ Control /\ Pending /\ SlotsHeld /\ Counted
      /\ lockCount \in Nat
      /\ Grown
  BY TablesGrow DEF IInv, TypeOK
\* The hook of an acquire, a block or an unknown mutex is over.
<1>r. ASSUME NEW t \in Threads, Return(t)
      PROVE  \A u \in Threads : u # t => op'[u] = op[u] /\ arg'[u] = arg[u]
  BY <1>0, <1>r DEF Return, TypeOK
<1>1. ASSUME NEW t \in Threads, Internal(t)
      PROVE  OwnersNamed'
  <2>1. CASE MetaLock(t) \/ UnlockFull(t) \/ Panic(t) \/ InitThreadSlot(t)
    BY <1>0, <2>1, OwnersFrame DEF MetaLock, UnlockFull, Panic, InitThreadSlot
  <2>2. CASE EndRegistration(t) \/ ScanLocks(t) \/ PublishWait(t)
    BY <1>0, <2>2, OwnersFrame DEF EndRegistration, ScanLocks, PublishWait
  <2>3. CASE ScanThreads(t) \/ CountThreadSlot(t)
    <3>1. tlsSlot[t] = Invalid
      BY <1>0, <2>3 DEF ScanThreads, CountThreadSlot, Control, Registering
    <3>2. \A u \in Threads : tlsSlot[u] # Invalid => tlsSlot'[u] = tlsSlot[u]
      BY <1>0, <2>3, <3>1 DEF ScanThreads, CountThreadSlot, TypeOK
    <3>3. QED
      BY <1>0, <2>3, <3>2, OwnersFrame DEF ScanThreads, CountThreadSlot
  <2>4. CASE InitLockSlot(t)
    <3>1. \A s \in 0..(lockCount - 1) : lockOwner'[s] = lockOwner[s]
      BY <1>0, <2>4, RegistryAssumption DEF InitLockSlot, InitOwnerWord, TypeOK, LockSlots
    <3>2. QED
      BY <1>0, <2>4, <3>1, OwnersFrame DEF InitLockSlot
  <2>5. CASE CountLockSlot(t)
    <3>1. lockOwner[lockCount] = Invalid
      BY <1>0, <2>5 DEF CountLockSlot, Pending, PendingLock
    <3>2. UNCHANGED <<lockAddr, lockOwner, holder, tlsSlot, op, arg>> /\ lockCount' = lockCount + 1
      BY <2>5 DEF CountLockSlot
    <3>3. \A s \in 0..(lockCount' - 1) : s = lockCount \/ s \in 0..(lockCount - 1)
      BY <1>0, <3>2
    <3>4. QED
      BY <3>1, <3>2, <3>3 DEF OwnersNamed, Named
  <2>6. CASE EndLookup(t)
    <3>1. CASE slot[t] # Invalid
      BY <1>0, <2>6, <3>1, OwnersFrame DEF EndLookup
    <3>2. CASE slot[t] = Invalid
      <4>1. SlotsOfMutex(arg[t]) = {} /\ Return(t)
            /\ UNCHANGED <<lockAddr, lockOwner, lockCount, holder, tlsSlot>>
        BY <1>0, <2>6, <3>2 DEF EndLookup, Pending, PendingLock
      <4>2. \A s \in 0..(lockCount - 1) : lockAddr[s] # arg[t]
        BY <4>1 DEF SlotsOfMutex
      <4>3. \A s \in 0..(lockCount - 1) : Named(s) => Named(s)'
        BY <1>r, <4>1, <4>2 DEF Named
      <4>4. QED
        BY <4>1, <4>3 DEF OwnersNamed
    <3>3. QED
      BY <3>1, <3>2
  <2>7. CASE PublishOwner(t)
    <3>1. /\ slot[t] \in 0..(lockCount - 1) /\ lockAddr[slot[t]] = arg[t]
          /\ tlsSlot[t] # Invalid /\ op[t] = "acquire" /\ holder[arg[t]] = t
      BY <1>0, <2>7 DEF PublishOwner, Control, Using, SlotsHeld, SlotHeld, Holding
    <3>2. UNCHANGED <<lockAddr, lockCount, holder, tlsSlot>> /\ Return(t)
      BY <2>7 DEF PublishOwner
    <3>3. lockOwner'[slot[t]] = tlsSlot[t] \/ slot[t] \notin LockSlots
      BY <1>0, <2>7 DEF PublishOwner, TypeOK
    <3>4. slot[t] \in LockSlots
      BY <1>0, <3>1 DEF TypeOK, Invalid
    <3>5. PICK n : n = slot[t]
      OBVIOUS
    <3>6. Named(n)'
      BY <3>1, <3>2, <3>3, <3>4, <3>5 DEF Named
    <3>7. ASSUME NEW s \in 0..(lockCount - 1), s # n
          PROVE  Named(s)'
      <4>1. lockOwner'[s] = lockOwner[s] /\ Named(s)
        BY <1>0, <2>7, <3>5, <3>7 DEF PublishOwner, TypeOK, OwnersNamed
      <4>2. \A u \in Threads : op[u] \in GivingBack => op'[u] = op[u] /\ arg'[u] = arg[u]
        BY <1>r, <3>1, <3>2 DEF GivingBack
      <4>3. QED
        BY <3>2, <4>1, <4>2 DEF Named
    <3>8. QED
      BY <3>2, <3>6, <3>7 DEF OwnersNamed
  <2>8. CASE ClearOwner(t)
    <3>1. /\ slot[t] \in 0..(lockCount - 1) /\ lockAddr[slot[t]] = arg[t]
          /\ tlsSlot[t] # Invalid /\ op[t] = "release"
      BY <1>0, <2>8 DEF ClearOwner, Control, Using, SlotsHeld, SlotHeld
    <3>2. UNCHANGED <<lockAddr, lockCount, holder, tlsSlot>> /\ Return(t)
      BY <2>8 DEF ClearOwner
    <3>3. slot[t] \in LockSlots
      BY <1>0, <3>1 DEF TypeOK, Invalid
    <3>4. lockOwner'[slot[t]] = IF lockOwner[slot[t]] = tlsSlot[t] THEN Invalid ELSE lockOwner[slot[t]]
      BY <1>0, <2>8, <3>3 DEF ClearOwner, TypeOK
    <3>5. ASSUME NEW s \in 0..(lockCount - 1)
          PROVE  Named(s)'
      <4>0. Named(s)
        BY DEF OwnersNamed
      <4>1. CASE s = slot[t] /\ lockOwner[s] = tlsSlot[t]
        BY <3>4, <4>1 DEF Named
      <4>2. CASE s = slot[t] /\ lockOwner[s] # tlsSlot[t]
        BY <1>r, <3>2, <3>4, <4>0, <4>2 DEF Named
      <4>3. CASE s # slot[t]
        <5>1. lockOwner'[s] = lockOwner[s]
          BY <1>0, <2>8, <4>3 DEF ClearOwner, TypeOK
        <5>2. lockAddr[s] # arg[t]
          BY <1>0, <3>1, <4>3 DEF Counted
        <5>3. QED
          BY <1>r, <3>2, <4>0, <5>1, <5>2 DEF Named
      <4>4. QED
        BY <4>1, <4>2, <4>3
    <3>6. QED
      BY <3>2, <3>5 DEF OwnersNamed
  <2>9. CASE ClearWait(t)
    <3>1. op[t] = "block" /\ Return(t)
      BY <1>0, <2>9 DEF ClearWait, Control
    <3>2. \A u \in Threads : op[u] \in GivingBack => op'[u] = op[u] /\ arg'[u] = arg[u]
      BY <1>r, <3>1 DEF GivingBack
    <3>3. QED
      BY <1>0, <2>9, <3>2, OwnersFrame DEF ClearWait
  <2>10. QED
    BY <1>1, <2>1, <2>2, <2>3, <2>4, <2>5, <2>6, <2>7, <2>8, <2>9 DEF Internal
<1>2. ASSUME NEW t \in Threads, NEW i \in Tids, Start(t, i)
      PROVE  OwnersNamed'
  BY <1>0, <1>2, OwnersFrame DEF Start
<1>3. ASSUME NEW t \in Threads, Exit(t)
      PROVE  OwnersNamed'
  <2>1. op[t] = "none" /\ UNCHANGED <<lockAddr, lockOwner, lockCount, op, arg>>
    BY <1>0, <1>3 DEF Exit, Control
  <2>2. \A u \in Threads : u # t => tlsSlot'[u] = tlsSlot[u]
    BY <1>0, <1>3 DEF Exit, TypeOK
  <2>3. ASSUME NEW s \in 0..(lockCount - 1)
        PROVE  Named(s)'
    <3>1. Named(s)
      BY DEF OwnersNamed
    <3>2. CASE holder[lockAddr[s]] \in {t, Gone}
      <4>1. holder'[lockAddr[s]] = Gone
        BY <1>0, <1>3, <3>2, <2>3 DEF Exit, Counted
      <4>2. QED
        BY <2>1, <4>1 DEF Named
    <3>3. CASE holder[lockAddr[s]] \notin {t, Gone}
      <4>1. holder'[lockAddr[s]] = holder[lockAddr[s]]
        BY <1>0, <1>3, <2>3, <3>3 DEF Exit, Counted
      <4>2. QED
        BY <2>1, <2>2, <3>1, <3>3, <4>1 DEF Named, GivingBack
    <3>4. QED
      BY <3>2, <3>3
  <2>4. QED
    BY <2>1, <2>3 DEF OwnersNamed
\* A mutex changes hands: nothing else that the names depend on does.
<1>4. ASSUME NEW t \in Threads, NEW m \in Mutexes, op[t] = "none",
             UNCHANGED <<lockAddr, lockOwner, lockCount, tlsSlot>>,
             \A u \in Threads \ {t} : op'[u] = op[u] /\ arg'[u] = arg[u],
             \/ holder' = holder
             \/ holder[m] = NoThread /\ holder' = [holder EXCEPT ![m] = t]
             \/ /\ holder[m] = t /\ holder' = [holder EXCEPT ![m] = NoThread]
                /\ op'[t] \in GivingBack /\ arg'[t] = m
      PROVE  OwnersNamed'
  <2>1. SUFFICES ASSUME NEW s \in 0..(lockCount - 1)
                 PROVE  Named(s)'
    BY <1>4 DEF OwnersNamed
  <2>2. Named(s) /\ lockAddr[s] \in Mutexes
    BY <1>0, <2>1 DEF OwnersNamed, Counted
  <2>3. CASE lockAddr[s] # m \/ holder' = holder
    <3>1. holder'[lockAddr[s]] = holder[lockAddr[s]]
      BY <1>0, <1>4, <2>2, <2>3 DEF TypeOK
    <3>2. QED
      BY <1>4, <2>2, <3>1 DEF Named, GivingBack
  <2>4. CASE lockAddr[s] = m /\ holder' # holder
    BY <1>0, <1>4, <2>2, <2>4, RegistryAssumption DEF Named, TypeOK
  <2>5. QED
    BY <2>3, <2>4
<1>5. ASSUME NEW t \in Threads, NEW m \in Mutexes,
             \/ Acquire(t, m) \/ AcquireUnseen(t, m) \/ Release(t, m)
             \/ ReleaseTop(t, m) \/ Block(t, m) \/ CondWait(t, m)
      PROVE  OwnersNamed'
  <2>1. op[t] = "none" /\ UNCHANGED <<lockAddr, lockOwner, lockCount, tlsSlot>>
    BY <1>0, <1>5 DEF Acquire, AcquireUnseen, Release, ReleaseTop, Block, Enter, CondWait,
                      Control
  <2>2. /\ \A u \in Threads \ {t} : op'[u] = op[u] /\ arg'[u] = arg[u]
        /\ \/ holder' = holder
           \/ holder[m] = NoThread /\ holder' = [holder EXCEPT ![m] = t]
           \/ /\ holder[m] = t /\ holder' = [holder EXCEPT ![m] = NoThread]
              /\ op'[t] \in GivingBack /\ arg'[t] = m
    BY <1>0, <1>5 DEF Acquire, AcquireUnseen, Release, ReleaseTop, Block, Enter, CondWait,
                      GivingBack, TypeOK
  <2>3. QED
    BY <1>4, <2>1, <2>2
\* The mutex is the thread's again, whatever its owner word says by now.
<1>6. ASSUME NEW t \in Threads, CondWake(t)
      PROVE  OwnersNamed'
  <2>1. /\ arg[t] \in Mutexes /\ holder[arg[t]] = NoThread
        /\ holder' = [holder EXCEPT ![arg[t]] = t]
        /\ UNCHANGED <<lockAddr, lockOwner, lockCount, tlsSlot>> /\ Return(t)
    BY <1>0, <1>6 DEF CondWake, Control
  <2>2. ASSUME NEW s \in 0..(lockCount - 1)
        PROVE  Named(s)'
    <3>1. Named(s) /\ lockAddr[s] \in Mutexes
      BY <1>0 DEF OwnersNamed, Counted
    <3>2. CASE lockAddr[s] # arg[t]
      <4>1. holder'[lockAddr[s]] = holder[lockAddr[s]]
        BY <1>0, <2>1, <3>1, <3>2 DEF TypeOK
      <4>2. QED
        BY <1>r, <2>1, <3>1, <3>2, <4>1 DEF Named
    <3>3. CASE lockAddr[s] = arg[t]
      <4>1. holder'[lockAddr[s]] = t
        BY <1>0, <2>1, <3>3 DEF TypeOK
      <4>2. QED
        BY <1>r, <2>1, <3>1, <3>3, <4>1, RegistryAssumption DEF Named
    <3>4. QED
      BY <3>2, <3>3
  <2>3. QED
    BY <2>1, <2>2 DEF OwnersNamed
<1>7. CASE UNCHANGED vars
  BY <1>7 DEF vars, OwnersNamed, Named
<1>8. QED
  BY <1>1, <1>2, <1>3, <1>5, <1>6, <1>7 DEF Next, Call

LEMMA WaitsFrame ==
    ASSUME WaitsNamed, threadCount' = threadCount,
           \A s \in 0..(threadCount - 1) : threadWaiting'[s] = threadWaiting[s],
           \A u \in Threads : pc[u] = "waiting" =>
               tlsSlot'[u] = tlsSlot[u] /\ pc'[u] = "waiting" /\ slot'[u] = slot[u]
    PROVE  WaitsNamed'
BY DEF WaitsNamed

LEMMA WaitsStep == IInv /\ WaitsNamed /\ [Next]_vars => WaitsNamed'
<1> SUFFICES ASSUME IInv, WaitsNamed, [Next]_vars
             PROVE  WaitsNamed'
  OBVIOUS
<1> USE DEF threadVars, callVars, Goto
<1>0. TypeOK /\ Control /\ Pending /\ SlotsHeld /\ threadCount \in Nat
  BY DEF IInv, TypeOK
\* The thread that steps was not waiting, and the others stay as they are.
<1>f. ASSUME NEW t \in Threads, pc[t] # "waiting", threadCount' = threadCount,
             \A s \in 0..(threadCount - 1) : threadWaiting'[s] = threadWaiting[s],
             \A u \in Threads \ {t} : tlsSlot'[u] = tlsSlot[u] /\ pc'[u] = pc[u] /\ slot'[u] = slot[u]
      PROVE  WaitsNamed'
  BY <1>f, WaitsFrame
<1>1. ASSUME NEW t \in Threads, Internal(t)
      PROVE  WaitsNamed'
  <2>1. CASE MetaLock(t) \/ UnlockFull(t) \/ Panic(t) \/ InitLockSlot(t)
    BY <1>0, <1>f, <2>1 DEF MetaLock, UnlockFull, Panic, InitLockSlot, TypeOK
  <2>2. CASE EndRegistration(t)
    BY <1>0, <1>f, <2>2 DEF EndRegistration, FindLockSlot, TypeOK
  <2>3. CASE EndLookup(t)
    BY <1>0, <1>f, <2>3 DEF EndLookup, Return, TypeOK
  <2>4. CASE ScanLocks(t) \/ CountLockSlot(t)
    BY <1>0, <1>f, <2>4 DEF ScanLocks, CountLockSlot, TypeOK
  <2>5. CASE PublishOwner(t) \/ ClearOwner(t)
    BY <1>0, <1>f, <2>5 DEF PublishOwner, ClearOwner, Return, TypeOK
  <2>6. CASE ScanThreads(t)
    BY <1>0, <1>f, <2>6 DEF ScanThreads, TypeOK
  <2>7. CASE InitThreadSlot(t)
    <3>1. \A s \in 0..(threadCount - 1) : threadWaiting'[s] = threadWaiting[s]
      BY <1>0, <2>7, RegistryAssumption DEF InitThreadSlot, InitWaitWord, TypeOK, ThreadSlots
    <3>2. pc[t] # "waiting" /\ \A u \in Threads \ {t} : pc'[u] = pc[u]
      BY <1>0, <2>7 DEF InitThreadSlot, TypeOK
    <3>3. QED
      BY <1>f, <2>7, <3>1, <3>2 DEF InitThreadSlot
  <2>8. CASE CountThreadSlot(t)
    <3>1. threadWaiting[threadCount] = Invalid
      BY <1>0, <2>8 DEF CountThreadSlot, Pending, PendingThread
    <3>2. /\ pc[t] # "waiting" /\ threadCount' = threadCount + 1
          /\ UNCHANGED <<threadWaiting, slot>>
          /\ \A u \in Threads \ {t} : tlsSlot'[u] = tlsSlot[u] /\ pc'[u] = pc[u]
      BY <1>0, <2>8 DEF CountThreadSlot, TypeOK
    <3>3. \A s \in 0..(threadCount' - 1) : s = threadCount \/ s \in 0..(threadCount - 1)
      BY <1>0, <3>2
    <3>4. QED
      BY <3>1, <3>2, <3>3 DEF WaitsNamed
  <2>9. CASE PublishWait(t)
    <3>1. tlsSlot[t] \in 0..(threadCount - 1) /\ tlsSlot[t] \in ThreadSlots
      BY <1>0, <2>9 DEF PublishWait, Control, Using, SlotsHeld, TlsHeld, TypeOK
    <3>2. /\ threadWaiting'[tlsSlot[t]] = slot[t]
          /\ \A s \in 0..(threadCount - 1) : s # tlsSlot[t] => threadWaiting'[s] = threadWaiting[s]
          /\ pc[t] # "waiting" /\ pc'[t] = "waiting"
          /\ \A u \in Threads \ {t} : pc'[u] = pc[u]
          /\ UNCHANGED <<threadCount, tlsSlot, slot>>
      BY <1>0, <2>9, <3>1 DEF PublishWait, TypeOK
    <3>3. QED
      BY <3>1, <3>2 DEF WaitsNamed
  <2>10. CASE ClearWait(t)
    <3>1. tlsSlot[t] \in 0..(threadCount - 1) /\ tlsSlot[t] \in ThreadSlots
      BY <1>0, <2>10 DEF ClearWait, Control, Using, SlotsHeld, TlsHeld, TypeOK
    <3>2. /\ threadWaiting'[tlsSlot[t]] = Invalid
          /\ \A s \in 0..(threadCount - 1) : s # tlsSlot[t] => threadWaiting'[s] = threadWaiting[s]
          /\ \A u \in Threads \ {t} : pc'[u] = pc[u] /\ slot'[u] = slot[u]
          /\ UNCHANGED <<threadCount, tlsSlot>>
      BY <1>0, <2>10, <3>1 DEF ClearWait, Return, TypeOK
    <3>3. QED
      BY <3>1, <3>2 DEF WaitsNamed
  <2>11. QED
    BY <1>1, <2>1, <2>2, <2>3, <2>4, <2>5, <2>6, <2>7, <2>8, <2>9, <2>10 DEF Internal
<1>2. ASSUME NEW t \in Threads, NEW i \in Tids, Start(t, i)
      PROVE  WaitsNamed'
  BY <1>2, WaitsFrame DEF Start
<1>3. ASSUME NEW t \in Threads, Exit(t)
      PROVE  WaitsNamed'
  BY <1>0, <1>f, <1>3 DEF Exit, TypeOK
<1>4. ASSUME NEW t \in Threads, NEW m \in Mutexes,
             \/ Acquire(t, m) \/ AcquireUnseen(t, m) \/ Release(t, m)
             \/ ReleaseTop(t, m) \/ Block(t, m) \/ CondWait(t, m)
      PROVE  WaitsNamed'
  <2>1. ASSUME NEW o, Enter(t, m, o)
        PROVE  WaitsNamed'
    BY <1>0, <1>f, <2>1 DEF Enter, FindLockSlot, TypeOK
  <2>2. CASE AcquireUnseen(t, m)
    BY <2>2, WaitsFrame DEF AcquireUnseen
  <2>3. CASE ReleaseTop(t, m)
    BY <1>0, <1>f, <2>3 DEF ReleaseTop, TypeOK
  <2>4. CASE CondWait(t, m)
    BY <1>0, <1>f, <2>4 DEF CondWait, TypeOK
  <2>5. QED
    BY <1>4, <2>1, <2>2, <2>3, <2>4 DEF Acquire, Release, Block
<1>5. ASSUME NEW t \in Threads, CondWake(t)
      PROVE  WaitsNamed'
  BY <1>0, <1>f, <1>5 DEF CondWake, Return, TypeOK
<1>6. CASE UNCHANGED vars
  BY <1>6, WaitsFrame DEF vars
<1>7. QED
  BY <1>1, <1>2, <1>3, <1>4, <1>5, <1>6 DEF Next, Call

\* An owner word names a thread that has the mutex, is giving it back, or has given
\* it to pthread_cond_wait; a wait word names a living thread and what it waits for.
THEOREM NamesCorrect == Spec => []ReportNamesAreRight
<1>1. Init => Holding /\ OwnersNamed /\ WaitsNamed
  BY DEF Init, Holding, OwnersNamed, WaitsNamed
<1>2. IInv /\ Holding /\ OwnersNamed /\ WaitsNamed /\ [Next]_vars =>
          Holding' /\ OwnersNamed' /\ WaitsNamed'
  BY HoldingStep, OwnersStep, WaitsStep
<1>3. IInv /\ OwnersNamed /\ WaitsNamed => ReportNamesAreRight
  <2>1. SUFFICES ASSUME IInv, OwnersNamed, WaitsNamed
                 PROVE  ReportNamesAreRight
    OBVIOUS
  <2>2. \A t \in Threads :
           /\ slot[t] # Invalid => PrintLockSlot(slot[t]) = arg[t]
           /\ tlsSlot[t] # Invalid => PrintThreadSlot(tlsSlot[t]) = tid[t]
    BY <2>1, HeldSlotsAreRight DEF IInv, SlotsAreRight
  <2>3. ASSUME NEW s \in 0..(lockCount - 1), lockOwner[s] # Invalid, holder[lockAddr[s]] # Gone
        PROVE  \E t \in Threads :
                 /\ PrintThreadSlot(lockOwner[s]) = tid[t]
                 /\ \/ holder[lockAddr[s]] = t
                    \/ op[t] \in GivingBack /\ arg[t] = lockAddr[s]
    BY <2>1, <2>2, <2>3 DEF OwnersNamed, Named
  <2>4. ASSUME NEW s \in 0..(threadCount - 1), threadWaiting[s] # Invalid
        PROVE  \E t \in Threads :
                 /\ tlsSlot[t] = s /\ pc[t] = "waiting"
                 /\ PrintThreadSlot(s) = tid[t]
                 /\ PrintLockSlot(threadWaiting[s]) = arg[t]
    <3>1. PICK t \in Threads :
             tlsSlot[t] = s /\ pc[t] = "waiting" /\ threadWaiting[s] = slot[t]
      BY <2>1, <2>4 DEF WaitsNamed
    <3>2. tlsSlot[t] # Invalid
      BY <2>1, <3>1 DEF IInv, Control, Using
    <3>3. QED
      BY <2>2, <2>4, <3>1, <3>2
  <2>5. QED
    BY <2>3, <2>4 DEF ReportNamesAreRight, GivingBack
<1>4. QED
  BY <1>1, <1>2, <1>3, InvariantHolds, PTL DEF Spec

=============================================================================
