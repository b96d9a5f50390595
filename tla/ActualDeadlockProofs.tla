------------------------- MODULE ActualDeadlockProofs -------------------------
(***************************************************************************)
(* The actual-deadlock detector, for every number of threads and mutexes.  *)
(* First, in every configuration (either memory model, every kind of       *)
(* mutex): the types, and the agreement of the held stacks with the real   *)
(* mutexes.  Then, for mutexes that are neither recursive nor handed to    *)
(* pthread_cond_wait on sequentially consistent memory, its completeness:  *)
(* ownership records follow the real mutexes, published waits belong to    *)
(* waiters, and threads never block in a circular wait.  The last part is  *)
(* about soundness: a report whose owners stayed put during the walk is    *)
(* real.                                                                   *)
(***************************************************************************)
EXTENDS ActualDeadlock, HeldStackProofs, TLAPS, FiniteSetTheorems,
        FunctionTheorems, WellFoundedInduction

\* No mutex's depth counter runs apart from its holder.
DepthOK == \A m \in Locks : depth[m] = 0 <=> holder[m] = NoThread

TypeInv == TypeOK /\ DepthOK

-----------------------------------------------------------------------------
(* Lemmas about the operators of the model. *)

\* A store leaves a well-typed store buffer, in either memory model.
LEMMA StoreWaitingType ==
    ASSUME TypeOK, NEW t \in Threads, NEW m \in Locks \cup {NoLock},
           StoreWaiting(t, m)
    PROVE  /\ waiting' \in [Threads -> Locks \cup {NoLock}]
           /\ sb' \in [Threads -> Seq(Store)]
           /\ \A u \in Threads : \A i \in 1..Len(sb'[u]) :
                  sb'[u][i].loc = "owner" => sb'[u][i].lock \in Locks
<1>1. CASE StoreBuffers
  <2> DEFINE e == [loc |-> "waiting", lock |-> m]
  <2>1. e \in Store
    BY DEF Store
  <2>2. sb' = [sb EXCEPT ![t] = Append(@, e)] /\ UNCHANGED waiting
    BY <1>1 DEF StoreWaiting
  <2> QED  BY <2>1, <2>2 DEF TypeOK
<1>2. CASE ~StoreBuffers
  BY <1>2 DEF StoreWaiting, TypeOK
<1> QED  BY <1>1, <1>2

LEMMA StoreOwnerType ==
    ASSUME TypeOK, NEW t \in Threads, NEW m \in Locks, StoreOwner(t, m)
    PROVE  /\ owner' \in [Locks -> Threads \cup {NoThread}]
           /\ sb' \in [Threads -> Seq(Store)]
           /\ \A u \in Threads : \A i \in 1..Len(sb'[u]) :
                  sb'[u][i].loc = "owner" => sb'[u][i].lock \in Locks
<1>1. CASE StoreBuffers
  <2> DEFINE e == [loc |-> "owner", lock |-> m]
  <2>1. e \in Store
    BY DEF Store
  <2>2. sb' = [sb EXCEPT ![t] = Append(@, e)] /\ UNCHANGED owner
    BY <1>1 DEF StoreOwner
  <2> QED  BY <2>1, <2>2 DEF TypeOK
<1>2. CASE ~StoreBuffers
  BY <1>2 DEF StoreOwner, TypeOK
<1> QED  BY <1>1, <1>2

LEMMA EndWalkType ==
    ASSUME TypeInv, NEW t \in Threads, pc[t] \in WalkPoints, EndWalk(t),
           UNCHANGED <<holder, depth, owner, waiting, held, arg, sb, status>>
    PROVE  TypeInv'
<1>1. << >> \in Seq(Hop)
  OBVIOUS
<1>2. /\ cur' \in [Threads -> Locks \cup {NoLock}]
      /\ chain' \in [Threads -> Seq(Hop)]
      /\ disturbed' \in [Threads -> SUBSET Threads]
      /\ pc' \in [Threads -> Points]
  BY <1>1 DEF EndWalk, Goto, TypeInv, TypeOK, Points, WaitPoints
<1>3. pc[t] # "idle"
  BY DEF WalkPoints
<1>4. /\ \A u \in Threads : pc'[u] # "idle" => arg'[u] \in Locks
      /\ \A u \in Threads : pc'[u] \in WalkPoints => cur'[u] \in Locks
      /\ \A u \in Threads : pc'[u] = "load_waiting" => chain'[u] # << >>
  BY <1>3 DEF EndWalk, Goto, TypeInv, TypeOK, WalkPoints
<1> QED
  BY <1>2, <1>4 DEF TypeInv, TypeOK, DepthOK

-----------------------------------------------------------------------------
(* Every action keeps the types. *)

LEMMA TypeInvInit == Init => TypeInv
  BY LocksAssumption, ThreadsAssumption DEF Init, TypeInv, TypeOK, DepthOK,
     Points, WaitPoints, WalkPoints, AcquirePoints

LEMMA TypeInvStep == TypeInv /\ [Next]_vars => TypeInv'
<1> SUFFICES ASSUME TypeInv, [Next]_vars PROVE TypeInv'
  OBVIOUS
<1> USE LocksAssumption, ThreadsAssumption DEF TypeInv
<1>1. CASE UNCHANGED vars
  BY <1>1 DEF vars, mutexVars, walkVars, TypeOK, DepthOK
<1>2. CASE Exited
  BY <1>2 DEF Exited, vars, mutexVars, walkVars, TypeOK, DepthOK
<1>3. ASSUME NEW t \in Threads, Internal(t) PROVE TypeInv'
  <2>1. CASE RealLockTop(t)
    BY <2>1 DEF RealLockTop, RealAcquire, Goto, mutexVars, walkVars, TypeOK,
       DepthOK, Points, WaitPoints, WalkPoints, AcquirePoints
  <2>2. CASE RealLockTopFails(t)
    BY <2>2 DEF RealLockTopFails, Return, Goto, mutexVars, walkVars, TypeOK,
       DepthOK, Points, WaitPoints, WalkPoints, AcquirePoints
  <2>3. CASE AcquireTopLevelMutexFast(t)
    <3>1. arg[t] \in Locks
      BY <2>3 DEF AcquireTopLevelMutexFast, TypeOK
    <3>2. /\ owner' \in [Locks -> Threads \cup {NoThread}]
          /\ sb' \in [Threads -> Seq(Store)]
          /\ \A u \in Threads : \A i \in 1..Len(sb'[u]) :
                  sb'[u][i].loc = "owner" => sb'[u][i].lock \in Locks
      BY <2>3, <3>1, StoreOwnerType DEF AcquireTopLevelMutexFast
    <3>3. held' \in [Threads -> Seq(Locks)]
      <4>1. <<arg[t]>> \in Seq(Locks)
        BY <3>1
      <4> QED
        BY <2>3, <4>1 DEF AcquireTopLevelMutexFast, TypeOK
    <3> QED
      BY <2>3, <3>1, <3>2, <3>3 DEF AcquireTopLevelMutexFast, Return, Goto,
         mutexVars, walkVars, TypeOK, DepthOK, Points, WalkPoints
  <2>4. CASE BeforeBlockingMutexLock(t)
    <3>1. arg[t] \in Locks
      BY <2>4 DEF BeforeBlockingMutexLock, TypeOK
    <3>2. /\ waiting' \in [Threads -> Locks \cup {NoLock}]
          /\ sb' \in [Threads -> Seq(Store)]
          /\ \A u \in Threads : \A i \in 1..Len(sb'[u]) :
                  sb'[u][i].loc = "owner" => sb'[u][i].lock \in Locks
      BY <2>4, <3>1, StoreWaitingType DEF BeforeBlockingMutexLock
    <3> QED
      BY <2>4, <3>1, <3>2 DEF BeforeBlockingMutexLock, Goto, mutexVars,
         TypeOK, DepthOK, Points, WaitPoints, WalkPoints
  <2>5. CASE LoadOwner(t)
    <3>1. cur[t] \in Locks
      BY <2>5 DEF LoadOwner, TypeOK, WalkPoints
    <3>2. CASE owner[cur[t]] = NoThread
      BY <2>5, <3>2, EndWalkType DEF LoadOwner, mutexVars, WalkPoints
    <3>3. CASE owner[cur[t]] # NoThread
      <4> DEFINE hop == [lock |-> cur[t], owner |-> owner[cur[t]]]
      <4>1. hop \in Hop
        BY <3>1, <3>3 DEF Hop, TypeOK
      <4>2. chain' = [chain EXCEPT ![t] = Append(@, hop)]
        BY <2>5, <3>3 DEF LoadOwner
      <4>3. /\ chain' \in [Threads -> Seq(Hop)]
            /\ chain'[t] # << >>
            /\ \A u \in Threads \ {t} : chain'[u] = chain[u]
        BY <4>1, <4>2 DEF TypeOK
      <4> QED
        BY <2>5, <3>1, <3>3, <4>3 DEF LoadOwner, Goto, mutexVars, TypeOK,
           DepthOK, Points, WaitPoints, WalkPoints
    <3> QED  BY <3>2, <3>3
  <2>6. CASE LoadWaiting(t)
    <3> DEFINE l == waiting[chain[t][Len(chain[t])].owner]
    <3>1. l \in Locks \cup {NoLock}
      <4>1. chain[t] \in Seq(Hop) /\ chain[t] # << >>
        BY <2>6 DEF LoadWaiting, TypeOK
      <4>2. chain[t][Len(chain[t])] \in Hop
        BY <4>1
      <4> QED  BY <4>2 DEF Hop, TypeOK
    <3>2. CASE ~WalkContinues(l, Len(chain[t]))
      BY <2>6, <3>2, EndWalkType DEF LoadWaiting, mutexVars, WalkPoints
    <3>3. CASE WalkContinues(l, Len(chain[t]))
      <4>1. l \in Locks
        BY <3>1, <3>3 DEF WalkContinues
      <4>2. /\ cur' = [cur EXCEPT ![t] = l]
            /\ pc' = [pc EXCEPT ![t] = "load_owner"]
            /\ UNCHANGED <<holder, depth, owner, waiting, held, arg, sb,
                           status, chain, disturbed>>
        BY <2>6, <3>3 DEF LoadWaiting, Goto, mutexVars
      <4>3. arg[t] \in Locks
        BY <2>6 DEF LoadWaiting, TypeOK
      <4> HIDE DEF l
      <4> QED
        BY <4>1, <4>2, <4>3 DEF TypeOK, DepthOK, Points, WaitPoints,
           WalkPoints
    <3> QED  BY <3>2, <3>3
  <2>7. CASE ExitDeadlock(t)
    BY <2>7 DEF ExitDeadlock, mutexVars, walkVars, TypeOK, DepthOK
  <2>8. CASE RealLock(t)
    BY <2>8 DEF RealLock, RealAcquire, Goto, mutexVars, walkVars, TypeOK,
       DepthOK, Points, WaitPoints, WalkPoints, AcquirePoints
  <2>9. CASE CancelWait(t)
    <3>1. /\ waiting' \in [Threads -> Locks \cup {NoLock}]
          /\ sb' \in [Threads -> Seq(Store)]
          /\ \A u \in Threads : \A i \in 1..Len(sb'[u]) :
                  sb'[u][i].loc = "owner" => sb'[u][i].lock \in Locks
      BY <2>9, StoreWaitingType DEF CancelWait
    <3> QED
      BY <2>9, <3>1 DEF CancelWait, Return, Goto, Disturb, mutexVars,
         walkVars, TypeOK, DepthOK, Points, WalkPoints
  <2>10. CASE PushHeldLockSlot(t)
    <3>1. /\ waiting' \in [Threads -> Locks \cup {NoLock}]
          /\ sb' \in [Threads -> Seq(Store)]
          /\ \A u \in Threads : \A i \in 1..Len(sb'[u]) :
                  sb'[u][i].loc = "owner" => sb'[u][i].lock \in Locks
      <4>1. CASE pc[t] = "acquire_wait"
        BY <2>10, <4>1, StoreWaitingType DEF PushHeldLockSlot, ClearWait
      <4>2. CASE pc[t] # "acquire_wait"
        BY <2>10, <4>2 DEF PushHeldLockSlot, ClearWait, TypeOK
      <4> QED  BY <4>1, <4>2
    <3>2. arg[t] \in Locks
      BY <2>10 DEF PushHeldLockSlot, TypeOK
    <3>3. held' \in [Threads -> Seq(Locks)]
      <4>1. Append(held[t], arg[t]) \in Seq(Locks)
        BY <3>2 DEF TypeOK
      <4> QED
        BY <2>10, <4>1 DEF PushHeldLockSlot, TypeOK
    <3> QED
      BY <2>10, <3>1, <3>2, <3>3 DEF PushHeldLockSlot, Goto, mutexVars, walkVars,
         TypeOK, DepthOK, Points, AcquirePoints, WalkPoints
  <2>11. CASE HeldStackOverflow(t)
    BY <2>11 DEF HeldStackOverflow, mutexVars, walkVars, TypeOK, DepthOK
  <2>12. CASE PublishOwner(t)
    <3>1. arg[t] \in Locks
      BY <2>12 DEF PublishOwner, TypeOK
    <3>2. /\ owner' \in [Locks -> Threads \cup {NoThread}]
          /\ sb' \in [Threads -> Seq(Store)]
          /\ \A u \in Threads : \A i \in 1..Len(sb'[u]) :
                  sb'[u][i].loc = "owner" => sb'[u][i].lock \in Locks
      BY <2>12, <3>1, StoreOwnerType DEF PublishOwner
    <3> QED
      BY <2>12, <3>2 DEF PublishOwner, Return, Goto, mutexVars, walkVars,
         TypeOK, DepthOK, Points, WalkPoints
  <2>13. CASE ReleaseMutex(t)
    <3>1. RemoveHeld(held[t], arg[t]) \in Seq(Locks)
      BY <2>13, RemoveHeldType DEF ReleaseMutex, TypeOK
    <3> QED
      BY <2>13, <3>1 DEF ReleaseMutex, ClearOwner, Return, Goto, Disturb,
         mutexVars, walkVars, TypeOK, DepthOK, Points, WalkPoints
  <2>14. CASE Drain(t)
    <3> DEFINE w == Head(sb[t])
    <3>1. sb[t] \in Seq(Store) /\ sb[t] # << >>
      BY <2>14 DEF Drain, TypeOK
    <3>2. /\ w \in Store
          /\ Tail(sb[t]) \in Seq(Store)
          /\ \A i \in 1..Len(Tail(sb[t])) :
                 Tail(sb[t])[i] = sb[t][i + 1] /\ i + 1 \in 1..Len(sb[t])
      BY <3>1
    <3>3. w.lock \in Locks \cup {NoLock}
      BY <3>2 DEF Store
    <3>4. /\ waiting' \in [Threads -> Locks \cup {NoLock}]
          /\ owner' \in [Locks -> Threads \cup {NoThread}]
      BY <2>14, <3>3 DEF Drain, TypeOK
    <3>5. /\ sb' = [sb EXCEPT ![t] = Tail(sb[t])]
          /\ UNCHANGED <<holder, depth, held, pc, arg, cur, chain, status,
                         disturbed>>
      BY <2>14 DEF Drain, mutexVars, walkVars
    <3>6. /\ sb' \in [Threads -> Seq(Store)]
          /\ \A u \in Threads : \A i \in 1..Len(sb'[u]) :
                  sb'[u][i].loc = "owner" => sb'[u][i].lock \in Locks
      BY <3>2, <3>5 DEF TypeOK
    <3> QED
      BY <3>4, <3>5, <3>6 DEF TypeOK, DepthOK
  <2> QED
    BY <1>3, <2>1, <2>2, <2>3, <2>4, <2>5, <2>6, <2>7, <2>8, <2>9, <2>10,
       <2>11, <2>12, <2>13, <2>14 DEF Internal
<1>4. ASSUME NEW t \in Threads, Call(t) PROVE TypeInv'
  <2>1. ASSUME NEW m \in Locks, LockTop(t, m) PROVE TypeInv'
    BY <2>1 DEF LockTop, Goto, mutexVars, walkVars, TypeOK, DepthOK, Points,
       WalkPoints
  <2>2. ASSUME NEW m \in Locks, Trylock(t, m) PROVE TypeInv'
    BY <2>2 DEF Trylock, RealAcquire, Goto, mutexVars, walkVars, TypeOK,
       DepthOK, Points, AcquirePoints, WalkPoints
  <2>3. ASSUME NEW m \in Locks, LockBusy(t, m) PROVE TypeInv'
    BY <2>3 DEF LockBusy, Goto, mutexVars, walkVars, TypeOK, DepthOK, Points,
       WalkPoints
  <2>4. ASSUME NEW m \in Locks, RealUnlock(t, m) PROVE TypeInv'
    <3>1. depth[m] \in Nat /\ depth[m] # 0
      BY <2>4 DEF RealUnlock, TypeOK, DepthOK
    <3> QED
      BY <2>4, <3>1 DEF RealUnlock, RealRelease, Goto, Disturb, mutexVars,
         walkVars, TypeOK, DepthOK, Points, WalkPoints
  <2>5. ASSUME NEW m \in Locks, CondWait(t, m) PROVE TypeInv'
    BY <2>5 DEF CondWait, RealRelease, Goto, mutexVars, walkVars, TypeOK,
       DepthOK, Points, WalkPoints
  <2>6. CASE CondWake(t)
    BY <2>6 DEF CondWake, RealAcquire, Return, Goto, mutexVars, walkVars,
       TypeOK, DepthOK, Points, WalkPoints
  <2> QED
    BY <1>4, <2>1, <2>2, <2>3, <2>4, <2>5, <2>6 DEF Call
<1> QED
  BY <1>1, <1>2, <1>3, <1>4 DEF Next

\* The variables keep their types, in every configuration of the hooks.
THEOREM TypeCorrect == Spec => []TypeOK
<1>1. Init => TypeInv
  BY TypeInvInit
<1>2. TypeInv /\ [Next]_vars => TypeInv'
  BY TypeInvStep
<1>3. TypeInv => TypeOK
  BY DEF TypeInv
<1> QED
  BY <1>1, <1>2, <1>3, PTL DEF Spec

-----------------------------------------------------------------------------
(* How often a stack lists an entry.                                       *)

Positions(s, m) == {i \in 1..Len(s) : s[i] = m}

LEMMA PositionsFinite ==
    ASSUME NEW A, NEW s \in Seq(A), NEW m
    PROVE  /\ IsFiniteSet(Positions(s, m))
           /\ Cardinality(Positions(s, m)) \in Nat
<1>1. IsFiniteSet(1..Len(s))
  BY FS_Interval
<1>2. Positions(s, m) \subseteq 1..Len(s)
  BY DEF Positions
<1> QED  BY <1>1, <1>2, FS_Subset, FS_CardinalityType

LEMMA CountAppend ==
    ASSUME NEW A, NEW s \in Seq(A), NEW x \in A, NEW m
    PROVE  Cardinality(Positions(Append(s, x), m)) =
               Cardinality(Positions(s, m)) + (IF x = m THEN 1 ELSE 0)
<1> DEFINE n == Len(s) + 1
<1>1. n \in Nat /\ n \notin Positions(s, m)
  BY DEF Positions
<1>2. IsFiniteSet(Positions(s, m)) /\ Cardinality(Positions(s, m)) \in Nat
  BY PositionsFinite
<1>3. CASE x = m
  <2>1. Positions(Append(s, x), m) = Positions(s, m) \cup {n}
    BY <1>3 DEF Positions
  <2> QED  BY <1>1, <1>2, <1>3, <2>1, FS_AddElement
<1>4. CASE x # m
  <2>1. Positions(Append(s, x), m) = Positions(s, m)
    BY <1>4 DEF Positions
  <2> QED  BY <1>2, <1>4, <2>1
<1> QED  BY <1>3, <1>4

\* A set of natural numbers has a least element, a bounded one a greatest.
LEMMA LeastNatural ==
    ASSUME NEW S \in SUBSET Nat, S # {}
    PROVE  \E n \in S : \A k \in S : n <= k
<1> DEFINE R == {ss \in Nat \X Nat : ss[1] < ss[2]}
<1>1. R = OpToRel(<, Nat)
  BY DEF OpToRel
<1>2. IsWellFoundedOn(R, Nat)
  BY <1>1, NatLessThanWellFounded
<1>3. \E x \in S : \A y \in S : ~(<<y, x>> \in R)
  <2> HIDE DEF R
  <2> QED  BY <1>2, WFMin
<1>4. PICK x \in S : \A y \in S : ~(<<y, x>> \in R)
  BY <1>3
<1>5. ASSUME NEW y \in S PROVE x <= y
  <2>1. x \in Nat /\ y \in Nat /\ <<y, x>> \in Nat \X Nat
    OBVIOUS
  <2>2. ~(y < x)
    BY <1>4, <2>1
  <2> QED  BY <2>1, <2>2
<1> QED  BY <1>5

LEMMA TopPosition ==
    ASSUME NEW A, NEW s \in Seq(A), NEW m, Lists(s, m)
    PROVE  \E k \in 1..Len(s) : s[k] = m /\ \A i \in (k + 1)..Len(s) : s[i] # m
<1> DEFINE Depths == {d \in Nat : d < Len(s) /\ s[Len(s) - d] = m}
<1>1. Depths \in SUBSET Nat
  OBVIOUS
<1>2. Depths # {}
  <2>1. PICK i \in 1..Len(s) : s[i] = m
    BY DEF Lists
  <2>2. Len(s) - i \in Nat /\ Len(s) - i < Len(s) /\ Len(s) - (Len(s) - i) = i
    OBVIOUS
  <2>3. Len(s) - i \in Depths
    BY <2>1, <2>2
  <2> QED  BY <2>3
<1>3. PICK d \in Depths : \A e \in Depths : d <= e
  <2> HIDE DEF Depths
  <2> QED  BY <1>1, <1>2, LeastNatural
<1>4. Len(s) - d \in 1..Len(s) /\ s[Len(s) - d] = m
  OBVIOUS
<1>5. ASSUME NEW i \in (Len(s) - d + 1)..Len(s) PROVE s[i] # m
  <2>1. Len(s) - i \in Nat /\ Len(s) - i < d /\ Len(s) - (Len(s) - i) = i
    OBVIOUS
  <2>2. Len(s) - i \notin Depths
    BY <1>3, <2>1
  <2> QED  BY <2>1, <2>2
<1> QED  BY <1>4, <1>5

\* Removing a listed entry takes away one occurrence of it and none of others.
LEMMA CountRemoveHeld ==
    ASSUME NEW A, NEW s \in Seq(A), NEW x, Lists(s, x), NEW m
    PROVE  Cardinality(Positions(RemoveHeld(s, x), m)) =
               Cardinality(Positions(s, m)) - (IF x = m THEN 1 ELSE 0)
<1>1. PICK k \in 1..Len(s) : s[k] = x /\ \A i \in (k + 1)..Len(s) : s[i] # x
  BY TopPosition
<1> DEFINE r == RemoveHeld(s, x)
           S == Positions(r, m)
           T == Positions(s, m) \ {k}
           f == [j \in S |-> IF j < k THEN j ELSE j + 1]
<1>2. /\ Len(r) = Len(s) - 1
      /\ \A j \in 1..Len(r) : r[j] = IF j < k THEN s[j] ELSE s[j + 1]
  <2>1. Len(s) - 1 \in Nat
    OBVIOUS
  <2>2. Len(r) = Len(s) - 1
    BY <2>1, RemoveHeldType DEF RemoveHeld
  <2>3. ASSUME NEW j \in 1..(Len(s) - 1)
        PROVE  (\E i \in (j + 1)..Len(s) : s[i] = x) <=> j < k
    BY <1>1
  <2> QED  BY <2>2, <2>3 DEF RemoveHeld
<1>3. \A j \in S : f[j] \in T
  BY <1>2 DEF Positions
<1>4. f \in Injection(S, T)
  <2>1. f \in [S -> T]
    BY <1>3
  <2>2. \A i, j \in S : f[i] = f[j] => i = j
    BY <1>2 DEF Positions
  <2> QED  BY <2>1, <2>2, Fun_IsInj
<1>5. ASSUME NEW i \in T PROVE \E j \in S : f[j] = i
  <2>1. i \in 1..Len(s) /\ s[i] = m /\ i # k
    BY DEF Positions
  <2>2. CASE i < k
    <3>1. i \in S /\ f[i] = i
      BY <1>2, <2>1, <2>2 DEF Positions
    <3> QED  BY <3>1
  <2>3. CASE i > k
    <3>1. i - 1 \in S /\ f[i - 1] = i
      BY <1>2, <2>1, <2>3 DEF Positions
    <3> QED  BY <3>1
  <2> QED  BY <2>1, <2>2, <2>3
<1>6. ExistsBijection(S, T)
  <2>1. f \in Surjection(S, T)
    <3>1. f \in [S -> T]
      BY <1>3
    <3> HIDE DEF f, S, T
    <3> QED  BY <1>5, <3>1, Fun_IsSurj
  <2> HIDE DEF f, S, T
  <2> QED  BY <1>4, <2>1 DEF Bijection, ExistsBijection
<1>7. r \in Seq(A)
  BY RemoveHeldType
<1>8. /\ IsFiniteSet(S) /\ IsFiniteSet(Positions(s, m))
      /\ Cardinality(Positions(s, m)) \in Nat
  <2> HIDE DEF r
  <2> QED  BY <1>7, PositionsFinite
<1>9. Cardinality(T) = Cardinality(S)
  <2> HIDE DEF S, T
  <2> QED  BY <1>6, <1>8, FS_Bijection
<1>10. Cardinality(T) = Cardinality(Positions(s, m)) - (IF x = m THEN 1 ELSE 0)
  <2>1. k \in Positions(s, m) <=> x = m
    BY <1>1 DEF Positions
  <2>2. Cardinality(T) = IF k \in Positions(s, m) THEN Cardinality(Positions(s, m)) - 1
                         ELSE Cardinality(Positions(s, m))
    BY <1>8, FS_RemoveElement
  <2> QED  BY <1>8, <2>1, <2>2
<1> QED  BY <1>9, <1>10

-----------------------------------------------------------------------------
(* The held stack against the real mutexes.                                *)

\* How often t's stack is to list m.
Expected(t, m) ==
    IF arg[t] = m /\ pc[t] \in AcquirePoints \ {"store_owner"} THEN RealDepth(t, m) - 1
    ELSE IF arg[t] = m /\ pc[t] = "release" THEN RealDepth(t, m) + 1
    ELSE IF arg[t] = m /\ pc[t] = "cond_wait" THEN 1
    ELSE RealDepth(t, m)

\* The fast path for threads with nothing held is taken with nothing held.
TopEmpty(t) == pc[t] \in {"top_lock", "top_acquire"} => held[t] = << >>

Mirrors(t) ==
    /\ \A m \in Locks : Cardinality(Positions(held[t], m)) = Expected(t, m)
    /\ TopEmpty(t)

MirrorInv == \A t \in Threads : Mirrors(t)

LEMMA MirrorGivesProperty == MirrorInv => HeldMirrorsMutexes
<1> SUFFICES ASSUME MirrorInv, NEW t \in Threads, NEW m \in Locks
             PROVE  TrackedDepth(t, m) =
                        LET mine == arg[t] = m IN
                        CASE mine /\ pc[t] \in AcquirePoints \ {"store_owner"}
                                -> RealDepth(t, m) - 1
                          [] mine /\ pc[t] = "release"   -> RealDepth(t, m) + 1
                          [] mine /\ pc[t] = "cond_wait" -> 1
                          [] OTHER -> RealDepth(t, m)
  BY DEF HeldMirrorsMutexes
<1>1. TrackedDepth(t, m) = Expected(t, m)
  BY DEF MirrorInv, Mirrors, TrackedDepth, Positions
<1> QED  BY <1>1 DEF Expected, AcquirePoints

\* Only the thread that takes the step has to be looked at: others keep their
\* place and their stack, and the mutex changes hands between this thread and
\* nobody.
LEMMA OthersMirror ==
    ASSUME MirrorInv, NEW t \in Threads,
           \A u \in Threads \ {t} :
               /\ pc'[u] = pc[u] /\ arg'[u] = arg[u] /\ held'[u] = held[u]
               /\ \A m \in Locks : RealDepth(u, m)' = RealDepth(u, m),
           Mirrors(t)'
    PROVE  MirrorInv'
<1>1. ASSUME NEW u \in Threads \ {t} PROVE Mirrors(u)'
  BY <1>1 DEF MirrorInv, Mirrors, Expected, TopEmpty
<1> QED  BY <1>1 DEF MirrorInv

\* A step within the hooks that touches neither mutexes nor stacks.
LEMMA MirrorFrame ==
    ASSUME TypeInv, MirrorInv, NEW t \in Threads,
           UNCHANGED <<holder, depth, held>>,
           \A u \in Threads \ {t} : pc'[u] = pc[u] /\ arg'[u] = arg[u],
           pc[t] \notin {"release", "cond_wait"} \cup (AcquirePoints \ {"store_owner"}),
           pc'[t] \notin {"release", "cond_wait", "top_acquire", "acquire", "acquire_wait"},
           pc'[t] = "top_lock" => held[t] = << >>
    PROVE  MirrorInv'
<1>1. \A u \in Threads, m \in Locks : RealDepth(u, m)' = RealDepth(u, m)
  BY DEF RealDepth
<1>2. \A m \in Locks : Expected(t, m) = RealDepth(t, m) /\ Expected(t, m)' = RealDepth(t, m)
  BY <1>1 DEF Expected, AcquirePoints
<1>3. Mirrors(t)'
  BY <1>2 DEF MirrorInv, Mirrors, TopEmpty
<1> QED  BY <1>1, <1>3, OthersMirror

\* Getting a mutex: the stack follows later.
LEMMA MirrorAcquired ==
    ASSUME TypeInv, MirrorInv, NEW t \in Threads, NEW m \in Locks,
           holder[m] \in {NoThread, t}, RealAcquire(t, m),
           UNCHANGED held, arg'[t] = m,
           \A u \in Threads \ {t} : pc'[u] = pc[u] /\ arg'[u] = arg[u],
           pc[t] \notin {"release", "cond_wait"} \cup (AcquirePoints \ {"store_owner"}),
           pc'[t] \in {"top_acquire", "acquire", "acquire_wait"},
           pc'[t] = "top_acquire" => held[t] = << >>
    PROVE  MirrorInv'
<1> USE ThreadsAssumption
<1>1. /\ holder' = [holder EXCEPT ![m] = t]
      /\ depth' = [depth EXCEPT ![m] = depth[m] + 1]
  BY DEF RealAcquire
<1>2. \A u \in Threads \ {t} : \A l \in Locks : RealDepth(u, l)' = RealDepth(u, l)
  BY <1>1 DEF RealDepth, TypeInv, TypeOK
<1>3. \A l \in Locks \ {m} : RealDepth(t, l)' = RealDepth(t, l)
  BY <1>1 DEF RealDepth, TypeInv, TypeOK
<1>4. RealDepth(t, m)' = RealDepth(t, m) + 1 /\ RealDepth(t, m) \in Nat
  BY <1>1 DEF RealDepth, TypeInv, TypeOK, DepthOK
<1>5. \A l \in Locks : Expected(t, l) = RealDepth(t, l)
  BY DEF Expected, AcquirePoints
<1>6. \A l \in Locks : Expected(t, l)' = IF l = m THEN RealDepth(t, l)' - 1 ELSE RealDepth(t, l)'
  BY DEF Expected, AcquirePoints
<1>7. \A l \in Locks : Expected(t, l)' = RealDepth(t, l)
  BY <1>3, <1>4, <1>6
<1>8. Mirrors(t)'
  BY <1>5, <1>7 DEF MirrorInv, Mirrors, TopEmpty
<1> QED  BY <1>2, <1>8, OthersMirror

\* The push: the stack has caught up.
LEMMA MirrorPushed ==
    ASSUME TypeInv, MirrorInv, NEW t \in Threads,
           pc[t] \in {"top_acquire", "acquire", "acquire_wait"},
           held' = [held EXCEPT ![t] = Append(@, arg[t])],
           UNCHANGED <<holder, depth>>,
           \A u \in Threads \ {t} : pc'[u] = pc[u] /\ arg'[u] = arg[u],
           pc'[t] \in {"store_owner", "idle"}
    PROVE  MirrorInv'
<1>1. \A u \in Threads, m \in Locks : RealDepth(u, m)' = RealDepth(u, m)
  BY DEF RealDepth
<1>2. held[t] \in Seq(Locks) /\ arg[t] \in Locks /\ held'[t] = Append(held[t], arg[t])
  BY DEF TypeInv, TypeOK
<1>3. \A m \in Locks : RealDepth(t, m) \in Nat
  BY DEF RealDepth, TypeInv, TypeOK
<1>4. ASSUME NEW m \in Locks
      PROVE  Cardinality(Positions(held[t], m))' = Expected(t, m)'
  <2>1. Cardinality(Positions(held[t], m)) =
            IF arg[t] = m THEN RealDepth(t, m) - 1 ELSE RealDepth(t, m)
    BY DEF MirrorInv, Mirrors, Expected, AcquirePoints
  <2>2. Expected(t, m)' = RealDepth(t, m)
    BY <1>1 DEF Expected, AcquirePoints
  <2>3. Cardinality(Positions(held[t], m))' =
            Cardinality(Positions(held[t], m)) + (IF arg[t] = m THEN 1 ELSE 0)
    BY <1>2, CountAppend
  <2> QED  BY <1>3, <2>1, <2>2, <2>3
<1>5. Mirrors(t)'
  BY <1>4 DEF Mirrors, TopEmpty
<1> QED  BY <1>1, <1>5, OthersMirror DEF TypeInv, TypeOK

\* Giving a mutex back: the stack is ahead by one, or the thread waits for its
\* condition.
LEMMA MirrorReleased ==
    ASSUME TypeInv, MirrorInv, NEW t \in Threads, NEW m \in Locks,
           pc[t] = "idle", holder[m] = t, RealRelease(m),
           UNCHANGED held, arg'[t] = m,
           \A u \in Threads \ {t} : pc'[u] = pc[u] /\ arg'[u] = arg[u],
           pc'[t] = "release" \/ (pc'[t] = "cond_wait" /\ depth[m] = 1)
    PROVE  MirrorInv'
<1> USE ThreadsAssumption
<1>1. /\ depth' = [depth EXCEPT ![m] = depth[m] - 1]
      /\ holder' = [holder EXCEPT ![m] = IF depth[m] = 1 THEN NoThread ELSE t]
      /\ depth[m] \in Nat \ {0}
  BY DEF RealRelease, TypeInv, TypeOK, DepthOK
<1>2. \A u \in Threads \ {t} : \A l \in Locks : RealDepth(u, l)' = RealDepth(u, l)
  BY <1>1 DEF RealDepth, TypeInv, TypeOK
<1>3. \A l \in Locks \ {m} : RealDepth(t, l)' = RealDepth(t, l)
  BY <1>1 DEF RealDepth, TypeInv, TypeOK
<1>4. RealDepth(t, m) = depth[m] /\ RealDepth(t, m)' = depth[m] - 1
  BY <1>1 DEF RealDepth, TypeInv, TypeOK
<1>5. \A l \in Locks : Expected(t, l) = RealDepth(t, l)
  BY DEF Expected, AcquirePoints
<1>6. \A l \in Locks \ {m} : Expected(t, l)' = RealDepth(t, l)
  BY <1>3 DEF Expected, AcquirePoints
<1>7. Expected(t, m)' = RealDepth(t, m)
  BY <1>1, <1>4 DEF Expected, AcquirePoints
<1>8. Mirrors(t)'
  BY <1>5, <1>6, <1>7 DEF MirrorInv, Mirrors, TopEmpty
<1> QED  BY <1>2, <1>8, OthersMirror

\* The removal: what was just unlocked is listed, and one entry of it goes.
LEMMA MirrorRemoved ==
    ASSUME TypeInv, MirrorInv, NEW t \in Threads, ReleaseMutex(t)
    PROVE  MirrorInv'
<1>1. /\ pc[t] = "release" /\ arg[t] \in Locks /\ held[t] \in Seq(Locks)
      /\ held' = [held EXCEPT ![t] = RemoveHeld(held[t], arg[t])]
      /\ UNCHANGED <<holder, depth>>
      /\ pc'[t] = "idle"
      /\ \A u \in Threads \ {t} : pc'[u] = pc[u] /\ arg'[u] = arg[u]
  BY DEF ReleaseMutex, Return, Goto, mutexVars, TypeInv, TypeOK
<1>2. \A u \in Threads, m \in Locks : RealDepth(u, m)' = RealDepth(u, m)
  BY <1>1 DEF RealDepth
<1>3. \A m \in Locks : RealDepth(t, m) \in Nat
  BY DEF RealDepth, TypeInv, TypeOK
<1>4. \A m \in Locks : Cardinality(Positions(held[t], m)) =
          IF arg[t] = m THEN RealDepth(t, m) + 1 ELSE RealDepth(t, m)
  BY <1>1 DEF MirrorInv, Mirrors, Expected, AcquirePoints
<1>5. Lists(held[t], arg[t])
  <2>1. Cardinality(Positions(held[t], arg[t])) # 0
    BY <1>1, <1>3, <1>4
  <2>2. Positions(held[t], arg[t]) # {}
    BY <2>1, FS_EmptySet
  <2> QED  BY <2>2 DEF Positions, Lists
<1>6. held'[t] = RemoveHeld(held[t], arg[t])
  BY <1>1 DEF TypeInv, TypeOK
<1>7. ASSUME NEW m \in Locks
      PROVE  Cardinality(Positions(held[t], m))' = Expected(t, m)'
  <2>1. Expected(t, m)' = RealDepth(t, m)
    BY <1>1, <1>2 DEF Expected, AcquirePoints
  <2>2. Cardinality(Positions(held[t], m))' =
            Cardinality(Positions(held[t], m)) - (IF arg[t] = m THEN 1 ELSE 0)
    BY <1>1, <1>5, <1>6, CountRemoveHeld
  <2> QED  BY <1>3, <1>4, <2>1, <2>2
<1>8. Mirrors(t)'
  BY <1>1, <1>7 DEF Mirrors, TopEmpty
<1> QED  BY <1>1, <1>2, <1>8, OthersMirror DEF TypeInv, TypeOK

\* The wake-up takes back what pthread_cond_wait gave away.
LEMMA MirrorWoken ==
    ASSUME TypeInv, MirrorInv, NEW t \in Threads, CondWake(t)
    PROVE  MirrorInv'
<1> USE ThreadsAssumption
<1>1. /\ pc[t] = "cond_wait" /\ arg[t] \in Locks /\ holder[arg[t]] = NoThread
      /\ holder' = [holder EXCEPT ![arg[t]] = t]
      /\ depth' = [depth EXCEPT ![arg[t]] = depth[arg[t]] + 1]
      /\ UNCHANGED held /\ pc'[t] = "idle"
      /\ \A u \in Threads \ {t} : pc'[u] = pc[u] /\ arg'[u] = arg[u]
  BY DEF CondWake, RealAcquire, Return, Goto, TypeInv, TypeOK
<1>2. \A u \in Threads \ {t} : \A l \in Locks : RealDepth(u, l)' = RealDepth(u, l)
  BY <1>1 DEF RealDepth, TypeInv, TypeOK
<1>3. \A l \in Locks : RealDepth(t, l)' = IF l = arg[t] THEN 1 ELSE RealDepth(t, l)
  BY <1>1 DEF RealDepth, TypeInv, TypeOK, DepthOK
<1>4. \A l \in Locks : Expected(t, l) = IF l = arg[t] THEN 1 ELSE RealDepth(t, l)
  BY <1>1 DEF Expected, AcquirePoints
<1>5. \A l \in Locks : Expected(t, l)' = RealDepth(t, l)'
  BY <1>1 DEF Expected, AcquirePoints
<1>6. Mirrors(t)'
  BY <1>1, <1>3, <1>4, <1>5 DEF MirrorInv, Mirrors, TopEmpty
<1> QED  BY <1>1, <1>2, <1>6, OthersMirror

LEMMA MirrorInit == Init => MirrorInv
<1> SUFFICES ASSUME Init, NEW t \in Threads PROVE Mirrors(t)
  BY DEF MirrorInv
<1>1. \A m \in Locks : Positions(held[t], m) = {} /\ Expected(t, m) = 0
  BY ThreadsAssumption DEF Init, Positions, Expected, RealDepth, AcquirePoints
<1> QED  BY <1>1, FS_EmptySet DEF Init, Mirrors, TopEmpty

LEMMA MirrorStep == TypeInv /\ MirrorInv /\ [Next]_vars => MirrorInv'
<1> SUFFICES ASSUME TypeInv, MirrorInv, [Next]_vars PROVE MirrorInv'
  OBVIOUS
<1> USE ThreadsAssumption DEF mutexVars, walkVars
<1>1. CASE UNCHANGED vars \/ Exited
  BY <1>1 DEF vars, Exited, MirrorInv, Mirrors, Expected, RealDepth, TopEmpty
<1>2. ASSUME NEW t \in Threads, Internal(t) PROVE MirrorInv'
  <2>1. CASE RealLockTop(t) \/ RealLock(t)
    <3>1. /\ arg[t] \in Locks /\ holder[arg[t]] \in {NoThread, t} /\ RealAcquire(t, arg[t])
          /\ UNCHANGED <<held, arg>>
          /\ \A u \in Threads \ {t} : pc'[u] = pc[u]
          /\ \/ pc[t] = "top_lock" /\ pc'[t] = "top_acquire"
             \/ pc[t] = "real_lock" /\ pc'[t] = "acquire_wait"
      BY <2>1 DEF RealLockTop, RealLock, TrylockSucceeds, Goto, TypeInv, TypeOK
    <3>2. pc[t] = "top_lock" => held[t] = << >>
      BY DEF MirrorInv, Mirrors, TopEmpty
    <3> QED  BY <3>1, <3>2, MirrorAcquired DEF AcquirePoints
  <2>2. CASE RealLockTopFails(t) \/ CancelWait(t) \/ PublishOwner(t)
    <3>1. /\ UNCHANGED <<holder, depth, held>>
          /\ \A u \in Threads \ {t} : pc'[u] = pc[u] /\ arg'[u] = arg[u]
          /\ pc[t] \in {"top_lock", "real_lock", "store_owner"} /\ pc'[t] = "idle"
      BY <2>2 DEF RealLockTopFails, CancelWait, PublishOwner, Return, Goto, TypeInv, TypeOK
    <3> QED  BY <3>1, MirrorFrame DEF AcquirePoints
  <2>3. CASE BeforeBlockingMutexLock(t) \/ LoadOwner(t) \/ LoadWaiting(t)
    <3>1. /\ UNCHANGED <<holder, depth, held, arg>>
          /\ \A u \in Threads \ {t} : pc'[u] = pc[u]
          /\ pc[t] \in {"before_block", "load_owner", "load_waiting"}
          /\ pc'[t] \in {"load_owner", "load_waiting", "exit66", "real_lock"}
      BY <2>3 DEF BeforeBlockingMutexLock, LoadOwner, LoadWaiting, EndWalk, Goto, TypeInv,
         TypeOK
    <3> QED  BY <3>1, MirrorFrame DEF AcquirePoints
  <2>4. CASE ExitDeadlock(t) \/ HeldStackOverflow(t) \/ Drain(t)
    BY <2>4 DEF ExitDeadlock, HeldStackOverflow, Drain, MirrorInv, Mirrors, Expected,
       RealDepth, TopEmpty
  <2>5. CASE AcquireTopLevelMutexFast(t)
    <3>1. /\ pc[t] = "top_acquire" /\ pc'[t] = "idle"
          /\ \A u \in Threads \ {t} : pc'[u] = pc[u] /\ arg'[u] = arg[u]
          /\ held' = [held EXCEPT ![t] = <<arg[t]>>]
          /\ UNCHANGED <<holder, depth>>
      BY <2>5 DEF AcquireTopLevelMutexFast, Return, Goto, TypeInv, TypeOK
    <3>2. held[t] = << >>
      BY <3>1 DEF MirrorInv, Mirrors, TopEmpty
    <3>3. held' = [held EXCEPT ![t] = Append(@, arg[t])]
      BY <3>1, <3>2
    <3> QED  BY <3>1, <3>3, MirrorPushed
  <2>6. CASE PushHeldLockSlot(t)
    <3>1. /\ pc[t] \in {"acquire", "acquire_wait"} /\ pc'[t] = "store_owner"
          /\ \A u \in Threads \ {t} : pc'[u] = pc[u]
          /\ held' = [held EXCEPT ![t] = Append(@, arg[t])]
          /\ UNCHANGED <<holder, depth, arg>>
      BY <2>6 DEF PushHeldLockSlot, Goto, TypeInv, TypeOK
    <3> QED  BY <3>1, MirrorPushed
  <2> QED
    BY <1>2, <2>1, <2>2, <2>3, <2>4, <2>5, <2>6, MirrorRemoved DEF Internal
<1>3. ASSUME NEW t \in Threads, Call(t) PROVE MirrorInv'
  <2>1. ASSUME NEW m \in Locks, LockTop(t, m) \/ LockBusy(t, m) PROVE MirrorInv'
    <3>1. /\ UNCHANGED <<holder, depth, held>>
          /\ \A u \in Threads \ {t} : pc'[u] = pc[u] /\ arg'[u] = arg[u]
          /\ pc[t] = "idle" /\ pc'[t] \in {"top_lock", "before_block"}
          /\ pc'[t] = "top_lock" => held[t] = << >>
      BY <2>1 DEF LockTop, LockBusy, Goto, TypeInv, TypeOK
    <3> QED  BY <3>1, MirrorFrame DEF AcquirePoints
  <2>2. ASSUME NEW m \in Locks, Trylock(t, m) PROVE MirrorInv'
    <3>1. /\ holder[m] \in {NoThread, t} /\ RealAcquire(t, m)
          /\ UNCHANGED held /\ arg'[t] = m
          /\ \A u \in Threads \ {t} : pc'[u] = pc[u] /\ arg'[u] = arg[u]
          /\ pc[t] = "idle" /\ pc'[t] \in {"top_acquire", "acquire"}
          /\ pc'[t] = "top_acquire" => held[t] = << >>
      BY <2>2 DEF Trylock, TrylockSucceeds, Goto, TypeInv, TypeOK
    <3> QED  BY <3>1, MirrorAcquired DEF AcquirePoints
  <2>3. ASSUME NEW m \in Locks, RealUnlock(t, m) \/ CondWait(t, m) PROVE MirrorInv'
    <3>1. /\ pc[t] = "idle" /\ holder[m] = t /\ RealRelease(m)
          /\ UNCHANGED held /\ arg'[t] = m
          /\ \A u \in Threads \ {t} : pc'[u] = pc[u] /\ arg'[u] = arg[u]
          /\ pc'[t] = "release" \/ (pc'[t] = "cond_wait" /\ depth[m] = 1)
      BY <2>3 DEF RealUnlock, CondWait, Goto, TypeInv, TypeOK
    <3> QED  BY <3>1, MirrorReleased
  <2> QED
    BY <1>3, <2>1, <2>2, <2>3, MirrorWoken DEF Call
<1> QED
  BY <1>1, <1>2, <1>3 DEF Next

\* The held-lock stack lists each mutex as often as its thread has really locked
\* it, through recursion, out-of-order releases, failing locks and condition
\* variables, up to the operation in progress (state.c, lockdep.h).
THEOREM HeldStackCorrect == Spec => []HeldMirrorsMutexes
<1>1. Init => TypeInv /\ MirrorInv
  BY TypeInvInit, MirrorInit
<1>2. TypeInv /\ MirrorInv /\ [Next]_vars => (TypeInv /\ MirrorInv)'
  BY TypeInvStep, MirrorStep
<1>3. MirrorInv => HeldMirrorsMutexes
  BY MirrorGivesProperty
<1> QED
  BY <1>1, <1>2, <1>3, PTL DEF Spec

-----------------------------------------------------------------------------
(* Published waits, in every configuration.  A wait that is still in the   *)
(* store buffer is in memory before its thread has the mutex or the error, *)
(* because the real lock waits until the buffer is empty.                  *)

Clear == [loc |-> "waiting", lock |-> NoLock]

\* What is in memory and what is in the buffer.
WaitRight(t) ==
    /\ waiting[t] # NoLock =>
          \/ waiting[t] = arg[t] /\ pc[t] \in WaitPoints \cup {"acquire_wait"}
          \/ \E i \in 1..Len(sb[t]) : sb[t][i] = Clear
    /\ \A i \in 1..Len(sb[t]) :
          sb[t][i].loc = "waiting" /\ sb[t][i].lock # NoLock =>
              pc[t] \in WaitPoints /\ sb[t][i].lock = arg[t]

WaitInv == \A t \in Threads : WaitRight(t)

\* e is added to t's store buffer.
Buffered(t, e) ==
    /\ \E i \in 1..Len(sb'[t]) : sb'[t][i] = e
    /\ \A i \in 1..Len(sb'[t]) :
          sb'[t][i] = e \/ (i \in 1..Len(sb[t]) /\ sb'[t][i] = sb[t][i])
    /\ \A i \in 1..Len(sb[t]) : i \in 1..Len(sb'[t]) /\ sb'[t][i] = sb[t][i]

LEMMA AppendBuffers ==
    ASSUME TypeOK, NEW t \in Threads, NEW e, sb' = [sb EXCEPT ![t] = Append(@, e)]
    PROVE  Buffered(t, e) /\ \A u \in Threads \ {t} : sb'[u] = sb[u]
<1>1. sb[t] \in Seq(Store) /\ Len(sb[t]) \in Nat /\ sb'[t] = Append(sb[t], e)
  BY DEF TypeOK
<1>2. /\ Len(sb'[t]) = Len(sb[t]) + 1 /\ sb'[t][Len(sb[t]) + 1] = e
      /\ \A i \in 1..Len(sb[t]) : sb'[t][i] = sb[t][i]
  BY <1>1
<1>3. \A u \in Threads \ {t} : sb'[u] = sb[u]
  BY DEF TypeOK
<1> QED  BY <1>1, <1>2, <1>3 DEF Buffered

\* A store goes to memory or to the end of the buffer.
LEMMA StoreWaitingEffect ==
    ASSUME TypeOK, NEW t \in Threads, NEW m, StoreWaiting(t, m)
    PROVE  /\ \A u \in Threads \ {t} : sb'[u] = sb[u] /\ waiting'[u] = waiting[u]
           /\ \/ waiting'[t] = m /\ sb'[t] = sb[t]
              \/ waiting'[t] = waiting[t] /\ Buffered(t, [loc |-> "waiting", lock |-> m])
<1>1. CASE StoreBuffers
  BY <1>1, AppendBuffers DEF StoreWaiting
<1>2. CASE ~StoreBuffers
  BY <1>2 DEF StoreWaiting, TypeOK
<1> QED  BY <1>1, <1>2

LEMMA StoreOwnerEffect ==
    ASSUME TypeOK, NEW t \in Threads, NEW m, StoreOwner(t, m)
    PROVE  /\ \A u \in Threads \ {t} : sb'[u] = sb[u]
           /\ \/ owner' = [owner EXCEPT ![m] = t] /\ sb'[t] = sb[t]
              \/ owner' = owner /\ Buffered(t, [loc |-> "owner", lock |-> m])
<1>1. CASE StoreBuffers
  BY <1>1, AppendBuffers DEF StoreOwner
<1>2. CASE ~StoreBuffers
  BY <1>2 DEF StoreOwner, TypeOK
<1> QED  BY <1>1, <1>2

\* The buffer is a queue.
LEMMA DrainEffect ==
    ASSUME TypeOK, NEW t \in Threads, Drain(t)
    PROVE  /\ sb[t][1] \in Store /\ Len(sb[t]) \in Nat /\ Len(sb[t]) > 0
           /\ \A u \in Threads \ {t} : sb'[u] = sb[u] /\ waiting'[u] = waiting[u]
           /\ Len(sb'[t]) = Len(sb[t]) - 1
           /\ \A i \in 1..Len(sb'[t]) : sb'[t][i] = sb[t][i + 1]
           /\ IF sb[t][1].loc = "waiting"
              THEN waiting'[t] = sb[t][1].lock /\ owner' = owner
              ELSE owner' = [owner EXCEPT ![sb[t][1].lock] = t] /\ waiting' = waiting
           /\ UNCHANGED <<pc, arg, holder, depth>>
<1>1. sb[t] \in Seq(Store) /\ sb[t] # << >>
  BY DEF Drain, TypeOK
<1>2. Head(sb[t]) = sb[t][1] /\ Len(sb[t]) \in Nat /\ Len(sb[t]) > 0 /\ sb[t][1] \in Store
  BY <1>1
<1>3. sb' = [sb EXCEPT ![t] = Tail(sb[t])]
  BY DEF Drain
<1>4. /\ Len(Tail(sb[t])) = Len(sb[t]) - 1
      /\ \A i \in 1..Len(Tail(sb[t])) : Tail(sb[t])[i] = sb[t][i + 1]
  BY <1>1
<1> QED
  BY <1>2, <1>3, <1>4 DEF Drain, mutexVars, TypeOK

LEMMA WaitFrame ==
    ASSUME NEW t \in Threads, WaitRight(t), waiting'[t] = waiting[t], sb'[t] = sb[t],
           arg'[t] = arg[t], pc'[t] = pc[t]
    PROVE  WaitRight(t)'
  BY DEF WaitRight

\* Steps of a thread outside the blocking hook.
LEMMA WaitIdle ==
    ASSUME NEW t \in Threads, WaitRight(t), waiting'[t] = waiting[t], sb'[t] = sb[t],
           pc[t] \notin WaitPoints \cup {"acquire_wait"}
    PROVE  WaitRight(t)'
  BY DEF WaitRight

LEMMA WaitOthers ==
    ASSUME WaitInv, NEW t \in Threads, WaitRight(t)',
           \A u \in Threads \ {t} : /\ waiting'[u] = waiting[u] /\ sb'[u] = sb[u]
                                   /\ arg'[u] = arg[u] /\ pc'[u] = pc[u]
    PROVE  WaitInv'
<1> SUFFICES ASSUME NEW u \in Threads, u # t PROVE WaitRight(u)'
  BY DEF WaitInv
<1> QED  BY WaitFrame DEF WaitInv

\* The wait is published, walked from, and kept until the real lock returns.
LEMMA WaitBlocking ==
    ASSUME TypeInv, WaitInv, NEW t \in Threads,
           \/ BeforeBlockingMutexLock(t) \/ LoadOwner(t) \/ LoadWaiting(t) \/ RealLock(t)
    PROVE  WaitInv'
<1> USE DEF TypeInv
<1>1. WaitRight(t) /\ Len(sb[t]) \in Nat
  BY DEF WaitInv, TypeOK
<1>2. CASE BeforeBlockingMutexLock(t)
  <2>1. /\ pc[t] = "before_block" /\ pc'[t] = "load_owner" /\ arg' = arg
        /\ StoreWaiting(t, arg[t])
        /\ \A u \in Threads \ {t} : pc'[u] = pc[u]
    BY <1>2 DEF BeforeBlockingMutexLock, Goto, TypeOK
  <2>2. /\ waiting[t] = NoLock \/ \E i \in 1..Len(sb[t]) : sb[t][i] = Clear
        /\ \A i \in 1..Len(sb[t]) : sb[t][i].loc = "waiting" => sb[t][i].lock = NoLock
    BY <1>1, <2>1 DEF WaitRight, WaitPoints, WalkPoints
  <2>3. pc'[t] \in WaitPoints
    BY <2>1 DEF WaitPoints, WalkPoints
  <2>4. ASSUME waiting'[t] = arg[t], sb'[t] = sb[t]
        PROVE  WaitRight(t)'
    BY <2>1, <2>2, <2>3, <2>4 DEF WaitRight
  <2>5. ASSUME waiting'[t] = waiting[t], Buffered(t, [loc |-> "waiting", lock |-> arg[t]])
        PROVE  WaitRight(t)'
    <3>1. waiting'[t] # NoLock => \E i \in 1..Len(sb'[t]) : sb'[t][i] = Clear
      BY <2>2, <2>5 DEF Buffered
    <3>2. \A i \in 1..Len(sb'[t]) :
              sb'[t][i].loc = "waiting" /\ sb'[t][i].lock # NoLock => sb'[t][i].lock = arg[t]
      BY <2>2, <2>5 DEF Buffered
    <3> QED  BY <2>1, <2>3, <3>1, <3>2 DEF WaitRight, Clear
  <2>6. WaitRight(t)'
    BY <2>1, <2>4, <2>5, StoreWaitingEffect
  <2> QED  BY <2>1, <2>6, StoreWaitingEffect, WaitOthers
<1>3. CASE LoadOwner(t) \/ LoadWaiting(t)
  <2>1. /\ pc[t] \in WaitPoints /\ pc'[t] \in WaitPoints /\ UNCHANGED <<arg, waiting, sb>>
        /\ \A u \in Threads \ {t} : pc'[u] = pc[u]
    BY <1>3 DEF LoadOwner, LoadWaiting, EndWalk, Goto, TypeOK, WaitPoints, WalkPoints
  <2>2. WaitRight(t)'
    BY <1>1, <2>1 DEF WaitRight
  <2> QED  BY <2>1, <2>2, WaitOthers
<1>4. CASE RealLock(t)
  <2>1. /\ pc[t] = "real_lock" /\ pc'[t] = "acquire_wait" /\ UNCHANGED <<arg, waiting, sb>>
        /\ sb[t] = << >>
        /\ \A u \in Threads \ {t} : pc'[u] = pc[u]
    BY <1>4 DEF RealLock, Fenced, Goto, TypeOK
  <2>2. WaitRight(t)'
    BY <1>1, <2>1 DEF WaitRight, WaitPoints
  <2> QED  BY <2>1, <2>2, WaitOthers
<1> QED  BY <1>2, <1>3, <1>4

\* Every way out of the blocking hook stores the clearing of the wait.
LEMMA WaitLeaving ==
    ASSUME TypeInv, WaitInv, NEW t \in Threads, CancelWait(t) \/ PushHeldLockSlot(t)
    PROVE  WaitInv'
<1> USE DEF TypeInv
<1>1. WaitRight(t) /\ Len(sb[t]) \in Nat
  BY DEF WaitInv, TypeOK
<1>2. \A u \in Threads \ {t} : pc'[u] = pc[u] /\ arg'[u] = arg[u]
  BY DEF CancelWait, PushHeldLockSlot, Return, Goto, TypeOK
<1>3. CASE PushHeldLockSlot(t) /\ pc[t] = "acquire"
  <2>1. UNCHANGED <<waiting, sb>>
    BY <1>3 DEF PushHeldLockSlot, ClearWait
  <2>2. WaitRight(t)'
    BY <1>1, <1>3, <2>1, WaitIdle DEF WaitPoints, WalkPoints
  <2> QED  BY <1>2, <2>1, <2>2, WaitOthers
<1>4. CASE CancelWait(t) \/ (PushHeldLockSlot(t) /\ pc[t] = "acquire_wait")
  <2>1. /\ StoreWaiting(t, NoLock)
        /\ \A i \in 1..Len(sb[t]) : sb[t][i].loc = "waiting" => sb[t][i].lock = NoLock
    <3>1. CASE CancelWait(t)
      BY <3>1 DEF CancelWait, Fenced
    <3>2. CASE PushHeldLockSlot(t) /\ pc[t] = "acquire_wait"
      BY <1>1, <3>2 DEF PushHeldLockSlot, ClearWait, WaitRight, WaitPoints, WalkPoints
    <3> QED  BY <1>4, <3>1, <3>2
  <2>2. \/ waiting'[t] = NoLock /\ sb'[t] = sb[t]
        \/ Buffered(t, Clear)
    BY <2>1, StoreWaitingEffect DEF Clear
  <2>3. waiting'[t] = NoLock \/ \E i \in 1..Len(sb'[t]) : sb'[t][i] = Clear
    BY <2>2 DEF Buffered
  <2>4. \A i \in 1..Len(sb'[t]) : sb'[t][i].loc = "waiting" => sb'[t][i].lock = NoLock
    BY <2>1, <2>2 DEF Buffered, Clear
  <2>5. WaitRight(t)'
    BY <2>3, <2>4 DEF WaitRight, Clear
  <2> QED  BY <1>2, <2>1, <2>5, StoreWaitingEffect, WaitOthers
<1> QED  BY <1>3, <1>4 DEF PushHeldLockSlot

\* Ownership is stored outside the blocking hook.
LEMMA WaitOwning ==
    ASSUME TypeInv, WaitInv, NEW t \in Threads,
           AcquireTopLevelMutexFast(t) \/ PublishOwner(t)
    PROVE  WaitInv'
<1> USE DEF TypeInv
<1>1. WaitRight(t) /\ Len(sb[t]) \in Nat
  BY DEF WaitInv, TypeOK
<1>2. /\ pc[t] \notin WaitPoints \cup {"acquire_wait"} /\ waiting' = waiting
      /\ StoreOwner(t, arg[t])
      /\ \A u \in Threads \ {t} : pc'[u] = pc[u] /\ arg'[u] = arg[u]
  BY DEF AcquireTopLevelMutexFast, PublishOwner, Return, Goto, TypeOK, WaitPoints, WalkPoints
<1>3. /\ waiting[t] # NoLock => \E i \in 1..Len(sb[t]) : sb[t][i] = Clear
      /\ \A i \in 1..Len(sb[t]) : sb[t][i].loc = "waiting" => sb[t][i].lock = NoLock
  BY <1>1, <1>2 DEF WaitRight
<1>4. sb'[t] = sb[t] \/ Buffered(t, [loc |-> "owner", lock |-> arg[t]])
  BY <1>2, StoreOwnerEffect
<1>5. WaitRight(t)'
  BY <1>2, <1>3, <1>4 DEF WaitRight, Buffered
<1> QED  BY <1>2, <1>5, StoreOwnerEffect, WaitOthers

LEMMA WaitDraining ==
    ASSUME TypeInv, WaitInv, NEW t \in Threads, Drain(t)
    PROVE  WaitInv'
<1> USE DEF TypeInv
<1>1. WaitRight(t)
  BY DEF WaitInv
<1>2. \A i \in 1..Len(sb'[t]) :
          sb'[t][i].loc = "waiting" /\ sb'[t][i].lock # NoLock =>
              pc'[t] \in WaitPoints /\ sb'[t][i].lock = arg'[t]
  <2>1. SUFFICES ASSUME NEW i \in 1..Len(sb'[t]),
                        sb'[t][i].loc = "waiting", sb'[t][i].lock # NoLock
                 PROVE  pc'[t] \in WaitPoints /\ sb'[t][i].lock = arg'[t]
    OBVIOUS
  <2>2. i + 1 \in 1..Len(sb[t]) /\ sb'[t][i] = sb[t][i + 1] /\ UNCHANGED <<pc, arg>>
    BY DrainEffect
  <2>3. pc[t] \in WaitPoints /\ sb[t][i + 1].lock = arg[t]
    BY <1>1, <2>1, <2>2 DEF WaitRight
  <2> QED  BY <2>2, <2>3
<1>3. CASE sb[t][1].loc = "waiting"
  <2>1. waiting'[t] = sb[t][1].lock
    BY <1>3, DrainEffect
  <2>2. waiting'[t] # NoLock => waiting'[t] = arg'[t] /\ pc'[t] \in WaitPoints
    BY <1>1, <1>3, <2>1, DrainEffect DEF WaitRight
  <2>3. WaitRight(t)'
    BY <1>2, <2>2 DEF WaitRight
  <2> QED  BY <2>3, DrainEffect, WaitOthers
<1>4. CASE sb[t][1].loc # "waiting"
  <2>1. waiting' = waiting
    BY <1>4, DrainEffect
  <2>2. ASSUME NEW i \in 1..Len(sb[t]), sb[t][i] = Clear
        PROVE  \E j \in 1..Len(sb'[t]) : sb'[t][j] = Clear
    <3>1. i # 1
      BY <1>4, <2>2 DEF Clear
    <3>2. i - 1 \in 1..Len(sb'[t]) /\ sb'[t][i - 1] = Clear
      BY <2>2, <3>1, DrainEffect
    <3> QED  BY <3>2
  <2>3. waiting'[t] # NoLock =>
          \/ waiting'[t] = arg'[t] /\ pc'[t] \in WaitPoints \cup {"acquire_wait"}
          \/ \E j \in 1..Len(sb'[t]) : sb'[t][j] = Clear
    BY <1>1, <2>1, <2>2, DrainEffect DEF WaitRight
  <2>4. WaitRight(t)'
    BY <1>2, <2>3 DEF WaitRight, Clear
  <2> QED  BY <2>4, DrainEffect, WaitOthers
<1> QED  BY <1>3, <1>4

LEMMA WaitStep == TypeInv /\ WaitInv /\ [Next]_vars => WaitInv'
<1> SUFFICES ASSUME TypeInv, WaitInv, [Next]_vars PROVE WaitInv'
  OBVIOUS
<1>1. CASE UNCHANGED vars
  BY <1>1, WaitFrame DEF vars, WaitInv
<1>2. ASSUME NEW t \in Threads, Internal(t)
      PROVE  WaitInv'
  <2>1. CASE \/ RealLockTop(t) \/ RealLockTopFails(t) \/ ReleaseMutex(t)
    <3>1. /\ pc[t] \notin WaitPoints \cup {"acquire_wait"} /\ UNCHANGED <<waiting, sb>>
          /\ \A u \in Threads \ {t} : pc'[u] = pc[u] /\ arg'[u] = arg[u]
      BY <2>1 DEF RealLockTop, RealLockTopFails, ReleaseMutex, Return, Goto, TypeInv, TypeOK,
                  WaitPoints, WalkPoints
    <3> QED  BY <3>1, WaitIdle, WaitOthers DEF WaitInv
  <2>2. CASE ExitDeadlock(t) \/ HeldStackOverflow(t)
    BY <2>2, WaitFrame DEF ExitDeadlock, HeldStackOverflow, WaitInv
  <2> QED
    BY <1>2, <2>1, <2>2, WaitBlocking, WaitLeaving, WaitOwning, WaitDraining DEF Internal
<1>3. ASSUME NEW t \in Threads, Call(t)
      PROVE  WaitInv'
  <2>1. /\ pc[t] \in {"idle", "cond_wait"} /\ UNCHANGED <<waiting, sb>>
        /\ \A u \in Threads \ {t} : pc'[u] = pc[u] /\ arg'[u] = arg[u]
    BY <1>3 DEF Call, LockTop, Trylock, LockBusy, RealUnlock, CondWait, CondWake, Return, Goto,
                TypeInv, TypeOK
  <2> QED  BY <2>1, WaitIdle, WaitOthers DEF WaitInv, WaitPoints, WalkPoints
<1> QED  BY <1>1, <1>2, <1>3 DEF Next, Exited

\* In every configuration no wait stays published once its thread is out of the
\* blocking hook, but for the time its clearing is in the store buffer.
THEOREM WaitsCorrect == Spec => []WaitingOnlyWhileBlocking
<1>1. Init => TypeInv /\ WaitInv
  BY TypeInvInit DEF Init, WaitInv, WaitRight
<1>2. TypeInv /\ WaitInv /\ [Next]_vars => TypeInv' /\ WaitInv'
  BY TypeInvStep, WaitStep
<1>3. WaitInv => WaitingOnlyWhileBlocking
  BY DEF WaitInv, WaitRight, WaitingOnlyWhileBlocking, Clear
<1> QED
  BY <1>1, <1>2, <1>3, PTL DEF Spec

-----------------------------------------------------------------------------
(* Ownership records of mutexes that are neither recursive nor handed to   *)
(* pthread_cond_wait, in either memory model.                              *)

PlainMutexes == Recursive = {} /\ CondMutexes = {}

OwnerStore(m) == [loc |-> "owner", lock |-> m]

\* The mutexes: a thread that is acquiring one has it, and so has one whose
\* ownership is in its store buffer; one that is releasing has it no more.
HolderRight ==
    /\ \A m \in Locks : depth[m] <= 1
    /\ \A t \in Threads :
          /\ pc[t] # "cond_wait"
          /\ pc[t] \in AcquirePoints => holder[arg[t]] = t
          /\ pc[t] = "release" => holder[arg[t]] # t
          /\ \A i \in 1..Len(sb[t]) :
                sb[t][i].loc = "owner" => holder[sb[t][i].lock] = t

\* OwnerTracksHolder
OwnerRight(t, m) ==
    /\ owner[m] = t => holder[m] = t \/ (pc[t] = "release" /\ arg[t] = m)
    /\ holder[m] = t =>
          \/ owner[m] = t
          \/ pc[t] \in AcquirePoints /\ arg[t] = m
          \/ \E i \in 1..Len(sb[t]) : sb[t][i] = OwnerStore(m)

OwnerInv == HolderRight /\ \A t \in Threads, m \in Locks : OwnerRight(t, m)

\* The mutexes.  Real lock operations wait until the buffer is empty, so a mutex
\* is not given back before its ownership is in memory.
LEMMA HolderStep ==
    ASSUME PlainMutexes, TypeInv, HolderRight, [Next]_vars
    PROVE  HolderRight'
<1> USE ThreadsAssumption DEF TypeInv
<1>1. CASE UNCHANGED vars
  BY <1>1 DEF vars, mutexVars, HolderRight
<1>2. ASSUME NEW t \in Threads, Internal(t)
      PROVE  HolderRight'
  <2>1. CASE RealLockTop(t) \/ RealLock(t)
    <3>1. /\ holder[arg[t]] = NoThread /\ depth[arg[t]] = 0 /\ arg[t] \in Locks
          /\ holder' = [holder EXCEPT ![arg[t]] = t]
          /\ depth' = [depth EXCEPT ![arg[t]] = depth[arg[t]] + 1]
          /\ UNCHANGED <<arg, sb>> /\ pc'[t] \in AcquirePoints
          /\ \A u \in Threads \ {t} : pc'[u] = pc[u]
      BY <2>1 DEF RealLockTop, RealLock, RealAcquire, TrylockSucceeds, PlainMutexes, Goto,
                  TypeOK, DepthOK, AcquirePoints
    <3>2. \A m \in Locks : depth'[m] <= 1
      BY <3>1 DEF HolderRight, TypeOK
    <3>3. \A u \in Threads, m \in Locks : holder[m] = u => holder'[m] = u
      BY <3>1 DEF TypeOK
    <3>4. \A u \in Threads :
            /\ pc'[u] # "cond_wait"
            /\ pc'[u] \in AcquirePoints => holder'[arg'[u]] = u
            /\ pc'[u] = "release" => holder'[arg'[u]] # u
      <4>1. \A u \in Threads \ {t} : pc[u] = "release" => holder'[arg[u]] # u
        BY <3>1 DEF HolderRight, TypeOK
      <4>2. \A u \in Threads \ {t} : pc[u] \in AcquirePoints => holder'[arg[u]] = u
        BY <3>1, <3>3 DEF HolderRight, TypeOK, AcquirePoints
      <4>3. \A u \in Threads \ {t} : pc[u] # "cond_wait"
        BY DEF HolderRight
      <4>4. /\ pc'[t] # "cond_wait"
            /\ pc'[t] \in AcquirePoints => holder'[arg'[t]] = t
            /\ pc'[t] = "release" => holder'[arg'[t]] # t
        BY <3>1 DEF TypeOK, AcquirePoints
      <4> QED  BY <3>1, <4>1, <4>2, <4>3, <4>4
    <3>5. \A u \in Threads : \A i \in 1..Len(sb'[u]) :
              sb'[u][i].loc = "owner" => holder'[sb'[u][i].lock] = u
      BY <3>1, <3>3 DEF HolderRight, TypeOK
    <3> QED  BY <3>2, <3>4, <3>5 DEF HolderRight
  <2>2. CASE AcquireTopLevelMutexFast(t) \/ PublishOwner(t)
    <3>1. /\ UNCHANGED <<holder, depth>> /\ pc'[t] = "idle" /\ StoreOwner(t, arg[t])
          /\ holder[arg[t]] = t
          /\ \A u \in Threads \ {t} : pc'[u] = pc[u] /\ arg'[u] = arg[u]
      BY <2>2 DEF AcquireTopLevelMutexFast, PublishOwner, Return, Goto, mutexVars, TypeOK,
                  HolderRight, AcquirePoints
    <3>2. \A i \in 1..Len(sb'[t]) : sb'[t][i].loc = "owner" => holder[sb'[t][i].lock] = t
      <4>1. sb'[t] = sb[t] \/ Buffered(t, OwnerStore(arg[t]))
        BY <3>1, StoreOwnerEffect DEF OwnerStore
      <4>2. \A i \in 1..Len(sb[t]) : sb[t][i].loc = "owner" => holder[sb[t][i].lock] = t
        BY DEF HolderRight
      <4> QED  BY <3>1, <4>1, <4>2 DEF Buffered, OwnerStore
    <3>3. \A u \in Threads \ {t} : sb'[u] = sb[u]
      BY <3>1, StoreOwnerEffect
    <3> QED  BY <3>1, <3>2, <3>3 DEF HolderRight, AcquirePoints
  <2>3. CASE BeforeBlockingMutexLock(t) \/ CancelWait(t) \/ (PushHeldLockSlot(t) /\ pc[t] = "acquire_wait")
    <3>1. \E m \in Locks \cup {NoLock} : StoreWaiting(t, m)
      BY <2>3 DEF BeforeBlockingMutexLock, CancelWait, PushHeldLockSlot, ClearWait, TypeOK
    <3>2. /\ \A u \in Threads \ {t} : sb'[u] = sb[u]
          /\ \A i \in 1..Len(sb'[t]) : sb'[t][i].loc = "owner" => holder[sb'[t][i].lock] = t
      <4>1. PICK m \in Locks \cup {NoLock} : StoreWaiting(t, m)
        BY <3>1
      <4>2. sb'[t] = sb[t] \/ Buffered(t, [loc |-> "waiting", lock |-> m])
        BY <4>1, StoreWaitingEffect
      <4>3. \A i \in 1..Len(sb[t]) : sb[t][i].loc = "owner" => holder[sb[t][i].lock] = t
        BY DEF HolderRight
      <4>4. \A i \in 1..Len(sb'[t]) : sb'[t][i].loc = "owner" => holder[sb'[t][i].lock] = t
        BY <4>2, <4>3 DEF Buffered
      <4> QED  BY <4>1, <4>4, StoreWaitingEffect
    <3>3. /\ UNCHANGED <<holder, depth>>
          /\ \/ pc'[t] \in {"load_owner", "idle"}
             \/ pc'[t] = "store_owner" /\ pc[t] = "acquire_wait" /\ arg' = arg
          /\ \A u \in Threads \ {t} : pc'[u] = pc[u] /\ arg'[u] = arg[u]
      BY <2>3 DEF BeforeBlockingMutexLock, CancelWait, PushHeldLockSlot, Return, Goto, mutexVars,
                  TypeOK
    <3> QED  BY <3>2, <3>3 DEF HolderRight, AcquirePoints
  <2>4. CASE PushHeldLockSlot(t) /\ pc[t] # "acquire_wait"
    BY <2>4 DEF PushHeldLockSlot, ClearWait, Goto, mutexVars, TypeOK, HolderRight, AcquirePoints
  <2>5. CASE LoadOwner(t) \/ LoadWaiting(t)
    <3>1. /\ UNCHANGED <<holder, depth, arg, sb>> /\ pc'[t] \in WaitPoints
          /\ \A u \in Threads \ {t} : pc'[u] = pc[u]
      BY <2>5 DEF LoadOwner, LoadWaiting, EndWalk, Goto, mutexVars, TypeOK, WaitPoints, WalkPoints
    <3> QED  BY <3>1 DEF HolderRight, WaitPoints, WalkPoints, AcquirePoints
  <2>6. CASE RealLockTopFails(t) \/ ReleaseMutex(t)
    <3>1. /\ UNCHANGED <<holder, depth, sb>> /\ pc'[t] = "idle"
          /\ \A u \in Threads \ {t} : pc'[u] = pc[u] /\ arg'[u] = arg[u]
      BY <2>6 DEF RealLockTopFails, ReleaseMutex, Return, Goto, mutexVars, TypeOK
    <3> QED  BY <3>1 DEF HolderRight, AcquirePoints
  <2>7. CASE ExitDeadlock(t) \/ HeldStackOverflow(t)
    BY <2>7 DEF ExitDeadlock, HeldStackOverflow, mutexVars, HolderRight
  <2>8. CASE Drain(t)
    BY <2>8, DrainEffect DEF HolderRight
  <2> QED
    BY <1>2, <2>1, <2>2, <2>3, <2>4, <2>5, <2>6, <2>7, <2>8 DEF Internal
<1>3. ASSUME NEW t \in Threads, Call(t)
      PROVE  HolderRight'
  <2>1. ASSUME NEW m \in Locks, LockTop(t, m) \/ LockBusy(t, m) PROVE HolderRight'
    <3>1. /\ UNCHANGED <<holder, depth, sb>> /\ pc'[t] \in {"top_lock", "before_block"}
          /\ \A u \in Threads \ {t} : pc'[u] = pc[u] /\ arg'[u] = arg[u]
      BY <2>1 DEF LockTop, LockBusy, Goto, mutexVars, TypeOK
    <3> QED  BY <3>1 DEF HolderRight, AcquirePoints
  <2>2. ASSUME NEW m \in Locks, Trylock(t, m) PROVE HolderRight'
    <3>1. /\ pc[t] = "idle" /\ holder[m] = NoThread /\ depth[m] = 0
          /\ holder' = [holder EXCEPT ![m] = t]
          /\ depth' = [depth EXCEPT ![m] = depth[m] + 1]
          /\ sb' = sb /\ pc'[t] \in AcquirePoints /\ arg'[t] = m
          /\ \A u \in Threads \ {t} : pc'[u] = pc[u] /\ arg'[u] = arg[u]
      BY <2>2 DEF Trylock, RealAcquire, TrylockSucceeds, PlainMutexes, Goto, TypeOK, DepthOK,
                  AcquirePoints
    <3>2. \A l \in Locks : depth'[l] <= 1
      BY <3>1 DEF HolderRight, TypeOK
    <3>3. \A u \in Threads, l \in Locks : holder[l] = u => holder'[l] = u
      BY <3>1 DEF TypeOK
    <3>4. \A u \in Threads :
            /\ pc'[u] # "cond_wait"
            /\ pc'[u] \in AcquirePoints => holder'[arg'[u]] = u
            /\ pc'[u] = "release" => holder'[arg'[u]] # u
      <4>1. \A u \in Threads \ {t} : pc[u] = "release" => holder'[arg[u]] # u
        BY <3>1 DEF HolderRight, TypeOK
      <4>2. \A u \in Threads \ {t} : pc[u] \in AcquirePoints => holder'[arg[u]] = u
        BY <3>1, <3>3 DEF HolderRight, TypeOK, AcquirePoints
      <4>3. \A u \in Threads \ {t} : pc[u] # "cond_wait"
        BY DEF HolderRight
      <4>4. /\ pc'[t] # "cond_wait"
            /\ pc'[t] \in AcquirePoints => holder'[arg'[t]] = t
            /\ pc'[t] = "release" => holder'[arg'[t]] # t
        BY <3>1 DEF TypeOK, AcquirePoints
      <4> QED  BY <3>1, <4>1, <4>2, <4>3, <4>4
    <3>5. \A u \in Threads : \A i \in 1..Len(sb'[u]) :
              sb'[u][i].loc = "owner" => holder'[sb'[u][i].lock] = u
      BY <3>1, <3>3 DEF HolderRight, TypeOK
    <3> QED  BY <3>2, <3>4, <3>5 DEF HolderRight
  <2>3. ASSUME NEW m \in Locks, RealUnlock(t, m) PROVE HolderRight'
    <3>1. /\ pc[t] = "idle" /\ sb[t] = << >> /\ holder[m] = t /\ depth[m] = 1
          /\ holder' = [holder EXCEPT ![m] = NoThread]
          /\ depth' = [depth EXCEPT ![m] = depth[m] - 1]
          /\ sb' = sb /\ pc'[t] = "release" /\ arg'[t] = m
          /\ \A u \in Threads \ {t} : pc'[u] = pc[u] /\ arg'[u] = arg[u]
      <4>1. holder[m] = t /\ depth[m] = 1
        BY <2>3 DEF RealUnlock, HolderRight, TypeOK, DepthOK
      <4> QED  BY <2>3, <4>1 DEF RealUnlock, RealRelease, Fenced, Goto, TypeOK
    <3>2. \A l \in Locks : depth'[l] <= 1
      BY <3>1 DEF HolderRight, TypeOK
    <3>3. \A u \in Threads \ {t}, l \in Locks : holder[l] = u => holder'[l] = u
      BY <3>1 DEF TypeOK
    <3>4. \A u \in Threads :
            /\ pc'[u] # "cond_wait"
            /\ pc'[u] \in AcquirePoints => holder'[arg'[u]] = u
            /\ pc'[u] = "release" => holder'[arg'[u]] # u
      <4>1. \A u \in Threads \ {t} : pc[u] = "release" => holder'[arg[u]] # u
        BY <3>1 DEF HolderRight, TypeOK
      <4>2. \A u \in Threads \ {t} : pc[u] \in AcquirePoints => holder'[arg[u]] = u
        BY <3>1, <3>3 DEF HolderRight, TypeOK, AcquirePoints
      <4>3. \A u \in Threads \ {t} : pc[u] # "cond_wait"
        BY DEF HolderRight
      <4>4. /\ pc'[t] # "cond_wait"
            /\ pc'[t] \in AcquirePoints => holder'[arg'[t]] = t
            /\ pc'[t] = "release" => holder'[arg'[t]] # t
        BY <3>1 DEF TypeOK, AcquirePoints
      <4> QED  BY <3>1, <4>1, <4>2, <4>3, <4>4
    <3>5. \A u \in Threads : \A i \in 1..Len(sb'[u]) :
              sb'[u][i].loc = "owner" => holder'[sb'[u][i].lock] = u
      BY <3>1, <3>3 DEF HolderRight, TypeOK
    <3> QED  BY <3>2, <3>4, <3>5 DEF HolderRight
  <2>4. ASSUME NEW m \in Locks, CondWait(t, m) PROVE HolderRight'
    BY <2>4 DEF CondWait, PlainMutexes
  <2>5. CASE CondWake(t)
    BY <2>5 DEF CondWake, HolderRight
  <2> QED  BY <1>3, <2>1, <2>2, <2>3, <2>4, <2>5 DEF Call
<1> QED  BY <1>1, <1>2, <1>3 DEF Next, Exited

\* A record that nobody touches stays right if the thread's place does.
LEMMA OwnerStep ==
    ASSUME PlainMutexes, TypeInv, OwnerInv, [Next]_vars,
           NEW u \in Threads, NEW l \in Locks
    PROVE  OwnerRight(u, l)'
<1> USE ThreadsAssumption DEF TypeInv
<1>1. OwnerRight(u, l) /\ HolderRight
  BY DEF OwnerInv
<1>2. CASE UNCHANGED vars
  BY <1>1, <1>2 DEF vars, mutexVars, OwnerRight
<1>3. ASSUME NEW t \in Threads, Internal(t)
      PROVE  OwnerRight(u, l)'
  <2>1. CASE RealLockTop(t) \/ RealLock(t)
    <3>1. /\ holder[arg[t]] = NoThread
          /\ holder' = [holder EXCEPT ![arg[t]] = t]
          /\ UNCHANGED <<arg, sb, owner>> /\ pc'[t] \in AcquirePoints /\ arg[t] \in Locks
          /\ pc[t] \notin AcquirePoints \cup {"release"}
          /\ \A w \in Threads \ {t} : pc'[w] = pc[w]
      BY <2>1 DEF RealLockTop, RealLock, RealAcquire, TrylockSucceeds, PlainMutexes, Goto,
                  TypeOK, AcquirePoints
    <3> QED  BY <1>1, <3>1 DEF OwnerRight, TypeOK
  <2>2. CASE AcquireTopLevelMutexFast(t) \/ PublishOwner(t)
    <3>1. /\ holder' = holder /\ pc'[t] = "idle" /\ StoreOwner(t, arg[t])
          /\ pc[t] \in AcquirePoints /\ holder[arg[t]] = t /\ arg[t] \in Locks
          /\ \A w \in Threads \ {t} : pc'[w] = pc[w] /\ arg'[w] = arg[w]
      BY <1>1, <2>2 DEF AcquireTopLevelMutexFast, PublishOwner, Return, Goto, mutexVars, TypeOK,
                  HolderRight, AcquirePoints
    <3>2. pc[t] # "release" /\ pc'[t] # "release" /\ pc'[t] \notin AcquirePoints
      BY <3>1 DEF AcquirePoints
    <3>3. \A w \in Threads \ {t} : sb'[w] = sb[w]
      BY <3>1, StoreOwnerEffect
    <3>4. CASE owner' = [owner EXCEPT ![arg[t]] = t] /\ sb'[t] = sb[t]
      <4>1. owner'[l] = IF l = arg[t] THEN t ELSE owner[l]
        BY <3>4 DEF TypeOK
      <4> QED  BY <1>1, <3>1, <3>2, <3>3, <3>4, <4>1 DEF OwnerRight
    <3>5. CASE owner' = owner /\ Buffered(t, OwnerStore(arg[t]))
      <4>1. \A m : (\E i \in 1..Len(sb[t]) : sb[t][i] = OwnerStore(m))
                 => \E i \in 1..Len(sb'[t]) : sb'[t][i] = OwnerStore(m)
        BY <3>5 DEF Buffered
      <4>2. \E i \in 1..Len(sb'[t]) : sb'[t][i] = OwnerStore(arg[t])
        BY <3>5 DEF Buffered
      <4> QED  BY <1>1, <3>1, <3>2, <3>3, <3>5, <4>1, <4>2 DEF OwnerRight
    <3> QED  BY <3>1, <3>4, <3>5, StoreOwnerEffect DEF OwnerStore
  <2>3. CASE BeforeBlockingMutexLock(t) \/ CancelWait(t) \/ PushHeldLockSlot(t)
    <3>1. \/ \E m \in Locks \cup {NoLock} : StoreWaiting(t, m)
          \/ sb' = sb
      BY <2>3 DEF BeforeBlockingMutexLock, CancelWait, PushHeldLockSlot, ClearWait, TypeOK
    <3>2. \A w \in Threads \ {t} : sb'[w] = sb[w]
      BY <3>1, StoreWaitingEffect
    <3>3. \A w \in Threads : \A i \in 1..Len(sb[w]) :
              i \in 1..Len(sb'[w]) /\ sb'[w][i] = sb[w][i]
      <4>1. \A i \in 1..Len(sb[t]) : i \in 1..Len(sb'[t]) /\ sb'[t][i] = sb[t][i]
        BY <3>1, StoreWaitingEffect DEF Buffered
      <4> QED  BY <3>2, <4>1
    <3>4. /\ UNCHANGED <<holder, owner>>
          /\ \/ pc'[t] \in {"load_owner", "idle"} /\ pc[t] \in {"before_block", "real_lock"}
             \/ pc'[t] = "store_owner" /\ pc[t] \in {"acquire", "acquire_wait"} /\ arg' = arg
          /\ \A w \in Threads \ {t} : pc'[w] = pc[w] /\ arg'[w] = arg[w]
      BY <2>3 DEF BeforeBlockingMutexLock, CancelWait, PushHeldLockSlot, Return, Goto, mutexVars,
                  TypeOK
    <3> QED  BY <1>1, <3>3, <3>4 DEF OwnerRight, AcquirePoints
  <2>4. CASE LoadOwner(t) \/ LoadWaiting(t)
    <3>1. /\ UNCHANGED <<holder, owner, arg, sb>> /\ pc'[t] \in WaitPoints /\ pc[t] \in WaitPoints
          /\ \A w \in Threads \ {t} : pc'[w] = pc[w]
      BY <2>4 DEF LoadOwner, LoadWaiting, EndWalk, Goto, mutexVars, TypeOK, WaitPoints, WalkPoints
    <3> QED  BY <1>1, <3>1 DEF OwnerRight, WaitPoints, WalkPoints, AcquirePoints
  <2>5. CASE RealLockTopFails(t)
    <3>1. /\ UNCHANGED <<holder, owner, sb>> /\ pc'[t] = "idle" /\ pc[t] = "top_lock"
          /\ \A w \in Threads \ {t} : pc'[w] = pc[w] /\ arg'[w] = arg[w]
      BY <2>5 DEF RealLockTopFails, Return, Goto, mutexVars, TypeOK
    <3> QED  BY <1>1, <3>1 DEF OwnerRight, AcquirePoints
  <2>6. CASE ReleaseMutex(t)
    <3>1. /\ UNCHANGED <<holder, sb>> /\ pc'[t] = "idle" /\ pc[t] = "release"
          /\ holder[arg[t]] # t /\ arg[t] \in Locks
          /\ owner' = [owner EXCEPT ![arg[t]] = IF owner[arg[t]] = t THEN NoThread ELSE owner[arg[t]]]
          /\ \A w \in Threads \ {t} : pc'[w] = pc[w] /\ arg'[w] = arg[w]
      BY <1>1, <2>6 DEF ReleaseMutex, ClearOwner, Return, Goto, mutexVars, TypeOK, HolderRight
    <3>2. /\ owner'[l] = owner[l] \/ (l = arg[t] /\ owner[l] = t /\ owner'[l] = NoThread)
          /\ owner'[arg[t]] # t
      BY <3>1 DEF TypeOK
    <3> QED  BY <1>1, <3>1, <3>2 DEF OwnerRight, AcquirePoints
  <2>7. CASE ExitDeadlock(t) \/ HeldStackOverflow(t)
    BY <1>1, <2>7 DEF ExitDeadlock, HeldStackOverflow, mutexVars, OwnerRight
  <2>8. CASE Drain(t)
    <3>1. CASE sb[t][1].loc = "waiting"
      <4>1. ASSUME NEW i \in 1..Len(sb[t]), sb[t][i] = OwnerStore(l)
            PROVE  \E j \in 1..Len(sb'[t]) : sb'[t][j] = OwnerStore(l)
        <5>1. i # 1
          BY <3>1, <4>1 DEF OwnerStore
        <5>2. i - 1 \in 1..Len(sb'[t]) /\ sb'[t][i - 1] = OwnerStore(l)
          BY <2>8, <4>1, <5>1, DrainEffect
        <5> QED  BY <5>2
      <4>2. owner' = owner /\ UNCHANGED <<pc, arg, holder>> /\ \A w \in Threads \ {t} : sb'[w] = sb[w]
        BY <2>8, <3>1, DrainEffect
      <4> QED  BY <1>1, <4>1, <4>2 DEF OwnerRight
    <3>2. CASE sb[t][1].loc # "waiting"
      <4> DEFINE d == sb[t][1].lock
      <4>1. /\ sb[t][1].loc = "owner" /\ Len(sb[t]) \in Nat /\ Len(sb[t]) > 0
            /\ sb[t][1] = OwnerStore(d)
        BY <2>8, <3>2, DrainEffect DEF Store, OwnerStore
      <4>2. holder[d] = t /\ d \in Locks
        BY <1>1, <4>1 DEF HolderRight, TypeOK
      <4>3. /\ owner' = [owner EXCEPT ![d] = t] /\ UNCHANGED <<pc, arg, holder>>
            /\ \A w \in Threads \ {t} : sb'[w] = sb[w]
        BY <2>8, <3>2, DrainEffect
      <4>4. CASE l = d
        BY <1>1, <4>2, <4>3, <4>4 DEF OwnerRight, TypeOK
      <4>5. CASE l # d
        <5>1. owner'[l] = owner[l]
          BY <4>3, <4>5 DEF TypeOK
        <5>2. ASSUME NEW i \in 1..Len(sb[t]), sb[t][i] = OwnerStore(l)
              PROVE  \E j \in 1..Len(sb'[t]) : sb'[t][j] = OwnerStore(l)
          <6>1. i # 1
            BY <4>5, <5>2 DEF OwnerStore
          <6>2. i - 1 \in 1..Len(sb'[t]) /\ sb'[t][i - 1] = OwnerStore(l)
            BY <2>8, <5>2, <6>1, DrainEffect
          <6> QED  BY <6>2
        <5> QED  BY <1>1, <4>3, <5>1, <5>2 DEF OwnerRight
      <4> QED  BY <4>4, <4>5
    <3> QED  BY <3>1, <3>2
  <2> QED
    BY <1>3, <2>1, <2>2, <2>3, <2>4, <2>5, <2>6, <2>7, <2>8 DEF Internal
<1>4. ASSUME NEW t \in Threads, Call(t)
      PROVE  OwnerRight(u, l)'
  <2>1. ASSUME NEW m \in Locks, LockTop(t, m) \/ LockBusy(t, m) PROVE OwnerRight(u, l)'
    BY <1>1, <2>1 DEF LockTop, LockBusy, Goto, mutexVars, TypeOK, OwnerRight, AcquirePoints
  <2>2. ASSUME NEW m \in Locks, Trylock(t, m) PROVE OwnerRight(u, l)'
    <3>1. /\ pc[t] = "idle" /\ holder[m] = NoThread
          /\ holder' = [holder EXCEPT ![m] = t]
          /\ UNCHANGED <<sb, owner>> /\ pc'[t] \in AcquirePoints /\ arg'[t] = m
          /\ \A w \in Threads \ {t} : pc'[w] = pc[w] /\ arg'[w] = arg[w]
      BY <2>2 DEF Trylock, RealAcquire, TrylockSucceeds, PlainMutexes, Goto, TypeOK, AcquirePoints
    <3> QED  BY <1>1, <3>1 DEF OwnerRight, TypeOK, AcquirePoints
  <2>3. ASSUME NEW m \in Locks, RealUnlock(t, m) PROVE OwnerRight(u, l)'
    <3>1. /\ pc[t] = "idle" /\ holder[m] = t
          /\ holder' = [holder EXCEPT ![m] = NoThread]
          /\ UNCHANGED <<sb, owner>> /\ pc'[t] = "release" /\ arg'[t] = m
          /\ \A w \in Threads \ {t} : pc'[w] = pc[w] /\ arg'[w] = arg[w]
      <4>1. holder[m] = t /\ depth[m] = 1
        BY <1>1, <2>3 DEF RealUnlock, HolderRight, TypeOK, DepthOK
      <4> QED  BY <2>3, <4>1 DEF RealUnlock, RealRelease, Goto, TypeOK
    <3>2. \A w \in Threads : w # NoThread
      OBVIOUS
    <3> QED  BY <1>1, <3>1, <3>2 DEF OwnerRight, TypeOK, AcquirePoints
  <2>4. ASSUME NEW m \in Locks, CondWait(t, m) PROVE OwnerRight(u, l)'
    BY <2>4 DEF CondWait, PlainMutexes
  <2>5. CASE CondWake(t)
    BY <1>1, <2>5 DEF CondWake, HolderRight
  <2> QED  BY <1>4, <2>1, <2>2, <2>3, <2>4, <2>5 DEF Call
<1> QED  BY <1>2, <1>3, <1>4 DEF Next, Exited

\* The ownership records follow the real mutexes, store buffers or not.
THEOREM OwnershipCorrect ==
    ASSUME PlainMutexes PROVE Spec => []OwnerTracksHolder
<1>1. Init => TypeInv /\ OwnerInv
  BY TypeInvInit, ThreadsAssumption DEF Init, OwnerInv, HolderRight, OwnerRight, AcquirePoints
<1>2. TypeInv /\ OwnerInv /\ [Next]_vars => TypeInv' /\ OwnerInv'
  BY TypeInvStep, HolderStep, OwnerStep DEF OwnerInv
<1>3. OwnerInv => OwnerTracksHolder
  BY DEF OwnerInv, OwnerRight, OwnerTracksHolder, OwnerStore
<1> QED
  BY <1>1, <1>2, <1>3, PTL DEF Spec

-----------------------------------------------------------------------------
(* Ordinary mutexes on sequentially consistent memory. *)


OrdinaryMutexes ==
    StoreBuffers = FALSE /\ Recursive = {} /\ CondMutexes = {}

\* What a thread's place in the hooks says about the mutexes.
HoldBook ==
    /\ \A m \in Locks : depth[m] <= 1
    /\ \A t \in Threads :
          /\ sb[t] = << >>
          /\ pc[t] # "cond_wait"
          /\ pc[t] \in AcquirePoints => holder[arg[t]] = t
          /\ pc[t] = "release" => holder[arg[t]] # t /\ Lists(held[t], arg[t])
          /\ pc[t] \in {"top_lock", "top_acquire"} => held[t] = << >>
    /\ \A t \in Threads, m \in Locks : holder[m] = t =>
          \/ Lists(held[t], m)
          \/ pc[t] \in AcquirePoints \ {"store_owner"} /\ arg[t] = m

\* A wait is published exactly from the walk to the acquire, and only a walk
\* has a chain.
WaitBook ==
    \A t \in Threads :
        /\ pc[t] \in WaitPoints \cup {"acquire_wait"} => waiting[t] = arg[t]
        /\ pc[t] \notin WaitPoints \cup {"acquire_wait"} => waiting[t] = NoLock
        /\ pc[t] \notin WalkPoints \cup {"exit66"} => chain[t] = << >>

\* OwnerTracksHolder without store buffers.
OwnerBook ==
    \A t \in Threads, m \in Locks :
        /\ owner[m] = t =>
              holder[m] = t \/ (pc[t] = "release" /\ arg[t] = m)
        /\ holder[m] = t =>
              owner[m] = t \/ (pc[t] \in AcquirePoints /\ arg[t] = m)

Books == TypeInv /\ HoldBook /\ WaitBook /\ OwnerBook

-----------------------------------------------------------------------------
(* Lemmas about held stacks. *)

LEMMA ListsAppend ==
    ASSUME NEW s \in Seq(Locks), NEW x \in Locks, NEW m
    PROVE  Lists(Append(s, x), m) <=> (Lists(s, m) \/ x = m)
<1>1. /\ Len(Append(s, x)) = Len(s) + 1
      /\ Append(s, x)[Len(s) + 1] = x
      /\ \A i \in 1..Len(s) : Append(s, x)[i] = s[i]
  OBVIOUS
<1> QED  BY <1>1 DEF Lists

\* Removing one entry of a mutex leaves the other mutexes in the stack.
LEMMA ListsRemoveHeld ==
    ASSUME NEW s \in Seq(Locks), NEW x, NEW m, Lists(s, x), Lists(s, m), m # x
    PROVE  Lists(RemoveHeld(s, x), m)
<1> DEFINE r == RemoveHeld(s, x)
<1>1. PICK i \in 1..Len(s) : s[i] = m
  BY DEF Lists
<1>2. Len(s) \in Nat /\ Len(s) - 1 \in Nat
  BY <1>1
<1>3. r \in Seq(Locks) /\ DOMAIN r = 1..(Len(s) - 1)
  BY RemoveHeldType DEF RemoveHeld
<1>4. Len(r) = Len(s) - 1
  BY <1>2, <1>3
<1>5. \A j \in 1..(Len(s) - 1) :
         r[j] = IF \E k \in (j + 1)..Len(s) : s[k] = x THEN s[j] ELSE s[j + 1]
  BY DEF RemoveHeld
<1>6. CASE \E k \in (i + 1)..Len(s) : s[k] = x
  <2>1. i \in 1..(Len(s) - 1)
    BY <1>2, <1>6
  <2>2. r[i] = m
    BY <1>1, <1>5, <1>6, <2>1
  <2> QED  BY <1>4, <2>1, <2>2 DEF Lists
<1>7. CASE ~\E k \in (i + 1)..Len(s) : s[k] = x
  <2>1. PICK k \in 1..Len(s) : s[k] = x
    BY DEF Lists
  <2>2. k < i
    BY <1>1, <1>2, <1>7, <2>1
  <2>3. i - 1 \in 1..(Len(s) - 1)
    BY <1>2, <2>1, <2>2
  <2>4. ~\E n \in ((i - 1) + 1)..Len(s) : s[n] = x
    BY <1>1, <1>2, <1>7
  <2>5. r[i - 1] = s[(i - 1) + 1]
    BY <1>5, <2>3, <2>4
  <2>6. r[i - 1] = m
    BY <1>1, <1>2, <2>5
  <2> QED  BY <1>4, <2>3, <2>6 DEF Lists
<1> QED  BY <1>6, <1>7

-----------------------------------------------------------------------------
(* The books are inductive. *)

LEMMA BooksInit == Init => HoldBook /\ WaitBook /\ OwnerBook
  BY ThreadsAssumption DEF Init, HoldBook, WaitBook, OwnerBook, AcquirePoints,
     WaitPoints, WalkPoints

\* A step of the walk only moves the walking thread, within the hook.
LEMMA WalkStep ==
    ASSUME TypeOK, NEW t \in Threads, LoadOwner(t) \/ LoadWaiting(t)
    PROVE  /\ pc[t] \in WalkPoints
           /\ pc'[t] \in WaitPoints
           /\ \A u \in Threads \ {t} : pc'[u] = pc[u] /\ chain'[u] = chain[u]
                                        /\ cur'[u] = cur[u]
           /\ pc'[t] \notin WalkPoints \cup {"exit66"} => chain'[t] = << >>
           /\ UNCHANGED <<holder, depth, owner, waiting, held, arg, sb, status>>
<1>1. CASE EndWalk(t)
  BY <1>1 DEF LoadOwner, LoadWaiting, EndWalk, Goto, mutexVars, TypeOK,
     WalkPoints, WaitPoints
<1>2. CASE LoadOwner(t) /\ ~EndWalk(t)
  BY <1>2 DEF LoadOwner, Goto, mutexVars, TypeOK, WalkPoints, WaitPoints
<1>3. CASE LoadWaiting(t) /\ ~EndWalk(t)
  BY <1>3 DEF LoadWaiting, Goto, mutexVars, TypeOK, WalkPoints, WaitPoints
<1> QED  BY <1>1, <1>2, <1>3

LEMMA HoldBookStep ==
    ASSUME OrdinaryMutexes, Books, [Next]_vars
    PROVE  HoldBook'
<1> USE LocksAssumption, ThreadsAssumption DEF Books, TypeInv
<1>1. CASE UNCHANGED vars \/ Exited
  BY <1>1 DEF Exited, vars, mutexVars, walkVars, HoldBook
<1>2. ASSUME NEW t \in Threads, Internal(t) PROVE HoldBook'
  <2>1. CASE RealLockTop(t)
    BY <2>1 DEF RealLockTop, RealAcquire, Goto, walkVars, TypeOK, DepthOK,
       HoldBook, AcquirePoints
  <2>2. CASE RealLockTopFails(t)
    BY <2>2 DEF RealLockTopFails, Return, Goto, mutexVars, walkVars, TypeOK,
       HoldBook, AcquirePoints
  <2>3. CASE AcquireTopLevelMutexFast(t)
    <3>1. Lists(<<arg[t]>>, arg[t])
      BY DEF Lists
    <3>2. \A m \in Locks : ~Lists(<< >>, m)
      BY DEF Lists
    <3> QED
      BY <2>3, <3>1, <3>2 DEF AcquireTopLevelMutexFast, StoreOwner, Return,
         Goto, OrdinaryMutexes, mutexVars, walkVars, TypeOK, HoldBook,
         AcquirePoints
  <2>4. CASE BeforeBlockingMutexLock(t)
    BY <2>4 DEF BeforeBlockingMutexLock, StoreWaiting, Goto, OrdinaryMutexes,
       mutexVars, TypeOK, HoldBook, AcquirePoints
  <2>5. CASE LoadOwner(t)
    BY <2>5, WalkStep DEF HoldBook, AcquirePoints, WalkPoints, WaitPoints
  <2>6. CASE LoadWaiting(t)
    BY <2>6, WalkStep DEF HoldBook, AcquirePoints, WalkPoints, WaitPoints
  <2>7. CASE ExitDeadlock(t) \/ HeldStackOverflow(t)
    BY <2>7 DEF ExitDeadlock, HeldStackOverflow, mutexVars, walkVars, HoldBook
  <2>8. CASE RealLock(t)
    BY <2>8 DEF RealLock, TrylockSucceeds, RealAcquire, Goto, OrdinaryMutexes,
       walkVars, TypeOK, DepthOK, HoldBook, AcquirePoints
  <2>9. CASE CancelWait(t)
    BY <2>9 DEF CancelWait, StoreWaiting, Return, Goto, OrdinaryMutexes,
       mutexVars, walkVars, TypeOK, HoldBook, AcquirePoints
  <2>10. CASE PushHeldLockSlot(t)
    <3>1. arg[t] \in Locks /\ held[t] \in Seq(Locks)
      BY <2>10 DEF PushHeldLockSlot, TypeOK
    <3>2. \A m \in Locks :
             Lists(held'[t], m) <=> (Lists(held[t], m) \/ arg[t] = m)
      BY <2>10, <3>1, ListsAppend DEF PushHeldLockSlot, TypeOK
    <3> QED
      BY <2>10, <3>1, <3>2 DEF PushHeldLockSlot, ClearWait, StoreWaiting,
         Goto, OrdinaryMutexes, mutexVars, walkVars, TypeOK, HoldBook,
         AcquirePoints
  <2>11. CASE PublishOwner(t)
    BY <2>11 DEF PublishOwner, StoreOwner, Return, Goto, OrdinaryMutexes,
       mutexVars, walkVars, TypeOK, HoldBook, AcquirePoints
  <2>12. CASE ReleaseMutex(t)
    <3>1. \A m \in Locks \ {arg[t]} :
             Lists(held[t], m) => Lists(held'[t], m)
      BY <2>12, ListsRemoveHeld DEF ReleaseMutex, TypeOK, HoldBook
    <3> QED
      BY <2>12, <3>1 DEF ReleaseMutex, Return, Goto, mutexVars, walkVars,
         TypeOK, HoldBook, AcquirePoints
  <2>13. CASE Drain(t)
    BY <2>13 DEF Drain, HoldBook
  <2> QED
    BY <1>2, <2>1, <2>2, <2>3, <2>4, <2>5, <2>6, <2>7, <2>8, <2>9, <2>10,
       <2>11, <2>12, <2>13 DEF Internal
<1>3. ASSUME NEW t \in Threads, Call(t) PROVE HoldBook'
  <2>1. ASSUME NEW m \in Locks, LockTop(t, m) PROVE HoldBook'
    BY <2>1 DEF LockTop, Goto, mutexVars, walkVars, TypeOK, HoldBook,
       AcquirePoints
  <2>2. ASSUME NEW m \in Locks, Trylock(t, m) PROVE HoldBook'
    BY <2>2 DEF Trylock, TrylockSucceeds, RealAcquire, Goto, OrdinaryMutexes,
       walkVars, TypeOK, DepthOK, HoldBook, AcquirePoints
  <2>3. ASSUME NEW m \in Locks, LockBusy(t, m) PROVE HoldBook'
    BY <2>3 DEF LockBusy, Goto, mutexVars, walkVars, TypeOK, HoldBook,
       AcquirePoints
  <2>4. ASSUME NEW m \in Locks, RealUnlock(t, m) PROVE HoldBook'
    <3>1. depth[m] = 1
      BY <2>4 DEF RealUnlock, TypeOK, DepthOK, HoldBook
    <3>2. Lists(held[t], m)
      BY <2>4 DEF RealUnlock, HoldBook, AcquirePoints
    <3>3. /\ holder' = [holder EXCEPT ![m] = NoThread]
          /\ depth' = [depth EXCEPT ![m] = 0]
          /\ pc' = [pc EXCEPT ![t] = "release"]
          /\ arg' = [arg EXCEPT ![t] = m]
          /\ UNCHANGED <<held, sb>>
      BY <2>4, <3>1 DEF RealUnlock, RealRelease, Goto, TypeOK
    <3>4. pc[t] = "idle" /\ holder[m] = t
      BY <2>4 DEF RealUnlock
    <3>5. /\ \A l \in Locks : depth'[l] <= 1
          /\ \A l \in Locks : holder'[l] = IF l = m THEN NoThread ELSE holder[l]
          /\ pc'[t] = "release" /\ arg'[t] = m
          /\ \A u \in Threads \ {t} : pc'[u] = pc[u] /\ arg'[u] = arg[u]
      BY <3>3 DEF HoldBook, TypeOK
    <3>6. \A u \in Threads : arg[u] \in Locks \/ pc[u] = "idle"
      BY DEF TypeOK
    <3>7. ASSUME NEW u \in Threads
          PROVE  /\ sb'[u] = << >>
                 /\ pc'[u] # "cond_wait"
                 /\ pc'[u] \in AcquirePoints => holder'[arg'[u]] = u
                 /\ pc'[u] = "release" =>
                        holder'[arg'[u]] # u /\ Lists(held'[u], arg'[u])
                 /\ pc'[u] \in {"top_lock", "top_acquire"} => held'[u] = << >>
      BY <3>2, <3>3, <3>4, <3>5, <3>6 DEF HoldBook, AcquirePoints
    <3>8. ASSUME NEW u \in Threads, NEW l \in Locks, holder'[l] = u
          PROVE  \/ Lists(held'[u], l)
                 \/ pc'[u] \in AcquirePoints \ {"store_owner"} /\ arg'[u] = l
      BY <3>3, <3>4, <3>5, <3>8 DEF HoldBook, AcquirePoints
    <3> QED
      BY <3>5, <3>7, <3>8 DEF HoldBook
  <2>5. ASSUME NEW m \in Locks, CondWait(t, m) PROVE HoldBook'
    BY <2>5 DEF CondWait, OrdinaryMutexes
  <2>6. CASE CondWake(t)
    BY <2>6 DEF CondWake, HoldBook
  <2> QED
    BY <1>3, <2>1, <2>2, <2>3, <2>4, <2>5, <2>6 DEF Call
<1> QED
  BY <1>1, <1>2, <1>3 DEF Next

LEMMA WaitBookStep ==
    ASSUME OrdinaryMutexes, Books, [Next]_vars
    PROVE  WaitBook'
<1> USE DEF Books, TypeInv, AcquirePoints, WaitPoints, WalkPoints
<1>1. CASE UNCHANGED vars \/ Exited
  BY <1>1 DEF Exited, vars, mutexVars, walkVars, WaitBook
<1>2. ASSUME NEW t \in Threads, Internal(t) PROVE WaitBook'
  <2>1. CASE RealLockTop(t)
    BY <2>1 DEF RealLockTop, Goto, walkVars, TypeOK, WaitBook
  <2>2. CASE RealLockTopFails(t)
    BY <2>2 DEF RealLockTopFails, Return, Goto, walkVars, TypeOK, WaitBook
  <2>3. CASE AcquireTopLevelMutexFast(t)
    BY <2>3 DEF AcquireTopLevelMutexFast, Return, Goto, walkVars, TypeOK,
       WaitBook
  <2>4. CASE BeforeBlockingMutexLock(t)
    BY <2>4 DEF BeforeBlockingMutexLock, StoreWaiting, Goto, OrdinaryMutexes,
       TypeOK, WaitBook
  <2>5. CASE LoadOwner(t) \/ LoadWaiting(t)
    BY <2>5, WalkStep DEF WaitBook
  <2>7. CASE ExitDeadlock(t) \/ HeldStackOverflow(t)
    BY <2>7 DEF ExitDeadlock, HeldStackOverflow, walkVars, WaitBook
  <2>8. CASE RealLock(t)
    BY <2>8 DEF RealLock, Goto, walkVars, TypeOK, WaitBook
  <2>9. CASE CancelWait(t)
    BY <2>9 DEF CancelWait, StoreWaiting, Return, Goto, OrdinaryMutexes,
       walkVars, TypeOK, WaitBook
  <2>10. CASE PushHeldLockSlot(t)
    BY <2>10 DEF PushHeldLockSlot, ClearWait, StoreWaiting, Goto,
       OrdinaryMutexes, walkVars, TypeOK, WaitBook
  <2>11. CASE PublishOwner(t)
    BY <2>11 DEF PublishOwner, Return, Goto, walkVars, TypeOK, WaitBook
  <2>12. CASE ReleaseMutex(t)
    BY <2>12 DEF ReleaseMutex, Return, Goto, walkVars, TypeOK, WaitBook
  <2>13. CASE Drain(t)
    BY <2>13 DEF Drain, HoldBook
  <2> QED
    BY <1>2, <2>1, <2>2, <2>3, <2>4, <2>5, <2>7, <2>8, <2>9, <2>10, <2>11,
       <2>12, <2>13 DEF Internal
<1>3. ASSUME NEW t \in Threads, Call(t) PROVE WaitBook'
  <2>1. ASSUME NEW m \in Locks,
               \/ LockTop(t, m) \/ Trylock(t, m) \/ LockBusy(t, m)
               \/ RealUnlock(t, m)
        PROVE  WaitBook'
    BY <2>1 DEF LockTop, Trylock, LockBusy, RealUnlock, Goto, walkVars,
       TypeOK, WaitBook
  <2>2. ASSUME NEW m \in Locks, CondWait(t, m) PROVE WaitBook'
    BY <2>2 DEF CondWait, OrdinaryMutexes
  <2>3. CASE CondWake(t)
    BY <2>3 DEF CondWake, HoldBook
  <2> QED
    BY <1>3, <2>1, <2>2, <2>3 DEF Call
<1> QED
  BY <1>1, <1>2, <1>3 DEF Next

LEMMA OwnerBookStep ==
    ASSUME OrdinaryMutexes, Books, [Next]_vars
    PROVE  OwnerBook'
<1> USE LocksAssumption, ThreadsAssumption
    DEF Books, TypeInv, AcquirePoints
<1>1. CASE UNCHANGED vars \/ Exited
  BY <1>1 DEF Exited, vars, mutexVars, walkVars, OwnerBook
<1>2. ASSUME NEW t \in Threads, Internal(t) PROVE OwnerBook'
  <2>1. CASE RealLockTop(t)
    BY <2>1 DEF RealLockTop, RealAcquire, Goto, TypeOK, OwnerBook
  <2>2. CASE RealLockTopFails(t)
    BY <2>2 DEF RealLockTopFails, Return, Goto, mutexVars, TypeOK, OwnerBook
  <2>3. CASE AcquireTopLevelMutexFast(t)
    BY <2>3 DEF AcquireTopLevelMutexFast, StoreOwner, Return, Goto,
       OrdinaryMutexes, mutexVars, TypeOK, HoldBook, OwnerBook
  <2>4. CASE BeforeBlockingMutexLock(t)
    BY <2>4 DEF BeforeBlockingMutexLock, Goto, mutexVars, TypeOK, OwnerBook
  <2>5. CASE LoadOwner(t) \/ LoadWaiting(t)
    BY <2>5, WalkStep DEF OwnerBook, WaitPoints, WalkPoints
  <2>7. CASE ExitDeadlock(t) \/ HeldStackOverflow(t)
    BY <2>7 DEF ExitDeadlock, HeldStackOverflow, mutexVars, OwnerBook
  <2>8. CASE RealLock(t)
    BY <2>8 DEF RealLock, TrylockSucceeds, RealAcquire, Goto,
       OrdinaryMutexes, TypeOK, OwnerBook
  <2>9. CASE CancelWait(t)
    BY <2>9 DEF CancelWait, Return, Goto, mutexVars, TypeOK, OwnerBook
  <2>10. CASE PushHeldLockSlot(t)
    BY <2>10 DEF PushHeldLockSlot, Goto, mutexVars, TypeOK, OwnerBook
  <2>11. CASE PublishOwner(t)
    BY <2>11 DEF PublishOwner, StoreOwner, Return, Goto, OrdinaryMutexes,
       mutexVars, TypeOK, HoldBook, OwnerBook
  <2>12. CASE ReleaseMutex(t)
    BY <2>12 DEF ReleaseMutex, ClearOwner, Return, Goto, mutexVars, TypeOK,
       HoldBook, OwnerBook
  <2>13. CASE Drain(t)
    BY <2>13 DEF Drain, HoldBook
  <2> QED
    BY <1>2, <2>1, <2>2, <2>3, <2>4, <2>5, <2>7, <2>8, <2>9, <2>10, <2>11,
       <2>12, <2>13 DEF Internal
<1>3. ASSUME NEW t \in Threads, Call(t) PROVE OwnerBook'
  <2>1. ASSUME NEW m \in Locks, LockTop(t, m) \/ LockBusy(t, m)
        PROVE  OwnerBook'
    <3>1. /\ pc[t] = "idle"
          /\ \A u \in Threads \ {t} : pc'[u] = pc[u] /\ arg'[u] = arg[u]
          /\ UNCHANGED <<holder, owner>>
      BY <2>1 DEF LockTop, LockBusy, Goto, mutexVars, TypeOK
    <3> QED  BY <3>1 DEF OwnerBook
  <2>2. ASSUME NEW m \in Locks, Trylock(t, m) PROVE OwnerBook'
    BY <2>2 DEF Trylock, TrylockSucceeds, RealAcquire, Goto,
       OrdinaryMutexes, TypeOK, OwnerBook
  <2>3. ASSUME NEW m \in Locks, RealUnlock(t, m) PROVE OwnerBook'
    <3>1. depth[m] = 1
      BY <2>3 DEF RealUnlock, TypeOK, DepthOK, HoldBook
    <3> QED
      BY <2>3, <3>1 DEF RealUnlock, RealRelease, Goto, TypeOK, OwnerBook
  <2>4. ASSUME NEW m \in Locks, CondWait(t, m) PROVE OwnerBook'
    BY <2>4 DEF CondWait, OrdinaryMutexes
  <2>5. CASE CondWake(t)
    BY <2>5 DEF CondWake, HoldBook
  <2> QED
    BY <1>3, <2>1, <2>2, <2>3, <2>4, <2>5 DEF Call
<1> QED
  BY <1>1, <1>2, <1>3 DEF Next

LEMMA BooksStep ==
    ASSUME OrdinaryMutexes PROVE Books /\ [Next]_vars => Books'
  BY TypeInvStep, HoldBookStep, WaitBookStep, OwnerBookStep DEF Books

-----------------------------------------------------------------------------
(* Circular waits only grow: no step breaks one, and the only step that    *)
(* completes one is the publication of a wait.                             *)

\* The threads of a circular wait stay put and so do the mutexes they want.
LEMMA CircularStable ==
    ASSUME OrdinaryMutexes, Books, [Next]_vars, NEW S \in SUBSET Threads,
           CircularWait(S)
    PROVE  /\ CircularWait(S)'
           /\ \A t \in S : /\ arg[t] \in Locks
                           /\ arg'[t] = arg[t]
                           /\ holder'[arg[t]] = holder[arg[t]]
<1> USE LocksAssumption, ThreadsAssumption
    DEF Books, TypeInv, AcquirePoints, WaitPoints, WalkPoints
<1>1. \A t \in S : /\ pc[t] \in WaitPoints
                   /\ arg[t] \in Locks
                   /\ holder[arg[t]] \in S
                   /\ ~LockFails(t, arg[t])
  BY DEF CircularWait, TypeOK
<1>2. SUFFICES \A t \in S : /\ pc'[t] \in WaitPoints
                            /\ arg'[t] = arg[t]
                            /\ holder'[arg[t]] = holder[arg[t]]
  BY <1>1 DEF CircularWait, LockFails
<1>3. CASE UNCHANGED vars \/ Exited
  BY <1>1, <1>3 DEF Exited, vars, mutexVars
<1>4. ASSUME NEW u \in Threads, Internal(u)
      PROVE  \A t \in S : /\ pc'[t] \in WaitPoints
                          /\ arg'[t] = arg[t]
                          /\ holder'[arg[t]] = holder[arg[t]]
  <2>1. CASE LoadOwner(u) \/ LoadWaiting(u)
    BY <1>1, <2>1, WalkStep
  <2>2. CASE ExitDeadlock(u) \/ HeldStackOverflow(u)
    BY <1>1, <2>2 DEF ExitDeadlock, HeldStackOverflow, mutexVars
  <2>3. CASE RealLock(u)
    <3>1. holder[arg[u]] = NoThread
      BY <2>3 DEF RealLock, TrylockSucceeds, OrdinaryMutexes
    <3>2. u \notin S /\ \A t \in S : arg[t] # arg[u]
      BY <1>1, <3>1
    <3> QED
      BY <1>1, <2>3, <3>2 DEF RealLock, RealAcquire, Goto, TypeOK
  <2>4. CASE CancelWait(u)
    <3>1. u \notin S
      BY <1>1, <2>4 DEF CancelWait
    <3> QED
      BY <1>1, <2>4, <3>1 DEF CancelWait, Return, Goto, mutexVars, TypeOK
  <2>5. CASE RealLockTop(u)
    <3>1. u \notin S /\ \A t \in S : arg[t] # arg[u]
      BY <1>1, <2>5 DEF RealLockTop
    <3> QED
      BY <1>1, <2>5, <3>1 DEF RealLockTop, RealAcquire, Goto, TypeOK
  <2>6. CASE \/ RealLockTopFails(u) \/ AcquireTopLevelMutexFast(u)
             \/ BeforeBlockingMutexLock(u) \/ PushHeldLockSlot(u)
             \/ PublishOwner(u) \/ ReleaseMutex(u)
    <3>1. u \notin S
      BY <1>1, <2>6 DEF RealLockTopFails, AcquireTopLevelMutexFast,
         BeforeBlockingMutexLock, PushHeldLockSlot, PublishOwner, ReleaseMutex
    <3>2. UNCHANGED holder /\ \A t \in Threads \ {u} :
                                  pc'[t] = pc[t] /\ arg'[t] = arg[t]
      BY <2>6 DEF RealLockTopFails, AcquireTopLevelMutexFast,
         BeforeBlockingMutexLock, PushHeldLockSlot, PublishOwner,
         ReleaseMutex, Return, Goto, mutexVars, TypeOK
    <3> QED  BY <1>1, <3>1, <3>2
  <2>7. CASE Drain(u)
    BY <2>7 DEF Drain, HoldBook
  <2> QED
    BY <1>4, <2>1, <2>2, <2>3, <2>4, <2>5, <2>6, <2>7 DEF Internal
<1>5. ASSUME NEW u \in Threads, Call(u)
      PROVE  \A t \in S : /\ pc'[t] \in WaitPoints
                          /\ arg'[t] = arg[t]
                          /\ holder'[arg[t]] = holder[arg[t]]
  <2>1. CASE CondWake(u)
    BY <2>1 DEF CondWake, HoldBook
  <2>2. ASSUME NEW m \in Locks,
               \/ LockTop(u, m) \/ Trylock(u, m) \/ LockBusy(u, m)
               \/ RealUnlock(u, m)
        PROVE  /\ u \notin S
               /\ \A t \in Threads \ {u} : pc'[t] = pc[t] /\ arg'[t] = arg[t]
               /\ \A t \in S : holder'[arg[t]] = holder[arg[t]]
    <3>1. u \notin S
      BY <1>1, <2>2 DEF LockTop, Trylock, LockBusy, RealUnlock
    <3>2. \A t \in Threads \ {u} : pc'[t] = pc[t] /\ arg'[t] = arg[t]
      BY <2>2 DEF LockTop, Trylock, LockBusy, RealUnlock, Goto, TypeOK
    <3>3. CASE LockTop(u, m) \/ LockBusy(u, m)
      BY <3>1, <3>2, <3>3 DEF LockTop, LockBusy, mutexVars
    <3>4. CASE Trylock(u, m)
      BY <1>1, <3>1, <3>2, <3>4 DEF Trylock, TrylockSucceeds, RealAcquire,
         OrdinaryMutexes, TypeOK
    <3>5. CASE RealUnlock(u, m)
      BY <1>1, <3>1, <3>2, <3>5 DEF RealUnlock, RealRelease, TypeOK
    <3> QED  BY <2>2, <3>1, <3>2, <3>3, <3>4, <3>5
  <2>3. ASSUME NEW m \in Locks, CondWait(u, m) PROVE FALSE
    BY <2>3 DEF CondWait, OrdinaryMutexes
  <2> QED
    BY <1>1, <1>5, <2>1, <2>2, <2>3 DEF Call
<1> QED
  BY <1>3, <1>4, <1>5 DEF Next

\* A circular wait is new only if one of its threads has just published.
LEMMA CircularOld ==
    ASSUME OrdinaryMutexes, Books, Books', [Next]_vars,
           NEW S \in SUBSET Threads, CircularWait(S)'
    PROVE  CircularWait(S) \/ \E t \in S : BeforeBlockingMutexLock(t)
<1> USE LocksAssumption, ThreadsAssumption
    DEF Books, TypeInv, AcquirePoints, WaitPoints, WalkPoints
<1>1. \A t \in S : /\ pc'[t] \in WaitPoints
                   /\ arg'[t] \in Locks
                   /\ holder'[arg'[t]] \in S
                   /\ (~LockFails(t, arg[t]))'
  BY DEF CircularWait, TypeOK
<1>2. SUFFICES \/ \E t \in S : BeforeBlockingMutexLock(t)
               \/ \A t \in S : /\ pc[t] \in WaitPoints
                               /\ arg'[t] = arg[t]
                               /\ holder'[arg[t]] = holder[arg[t]]
  BY <1>1 DEF CircularWait, LockFails
<1>3. CASE UNCHANGED vars \/ Exited
  BY <1>1, <1>3 DEF Exited, vars, mutexVars
<1>4. ASSUME NEW u \in Threads, Internal(u)
      PROVE  \/ \E t \in S : BeforeBlockingMutexLock(t)
             \/ \A t \in S : /\ pc[t] \in WaitPoints
                             /\ arg'[t] = arg[t]
                             /\ holder'[arg[t]] = holder[arg[t]]
  <2>1. CASE LoadOwner(u) \/ LoadWaiting(u)
    BY <1>1, <2>1, WalkStep
  <2>2. CASE ExitDeadlock(u) \/ HeldStackOverflow(u)
    BY <1>1, <2>2 DEF ExitDeadlock, HeldStackOverflow, mutexVars
  <2>3. CASE RealLock(u) \/ RealLockTop(u)
    <3>0. pc'[u] \in {"acquire_wait", "top_acquire"}
      BY <2>3 DEF RealLock, RealLockTop, Goto, TypeOK
    <3>1. u \notin S
      BY <1>1, <3>0
    <3>2. /\ holder' = [holder EXCEPT ![arg[u]] = u]
          /\ \A t \in Threads \ {u} : pc'[t] = pc[t] /\ arg'[t] = arg[t]
      BY <2>3 DEF RealLock, RealLockTop, RealAcquire, Goto, TypeOK
    <3>3. arg[u] \in Locks /\ holder'[arg[u]] = u
      BY <2>3, <3>2 DEF RealLock, RealLockTop, TypeOK
    <3>4. \A t \in S : arg[t] # arg[u]
      BY <1>1, <3>1, <3>2, <3>3
    <3> QED
      BY <1>1, <3>1, <3>2, <3>4 DEF TypeOK
  <2>4. CASE \/ RealLockTopFails(u) \/ AcquireTopLevelMutexFast(u)
             \/ PushHeldLockSlot(u) \/ PublishOwner(u) \/ ReleaseMutex(u)
             \/ CancelWait(u)
    <3>1. pc'[u] \notin WaitPoints
      BY <2>4 DEF RealLockTopFails, AcquireTopLevelMutexFast,
         PushHeldLockSlot, PublishOwner, ReleaseMutex, CancelWait, Return,
         Goto, TypeOK
    <3>2. UNCHANGED holder /\ \A t \in Threads \ {u} :
                                  pc'[t] = pc[t] /\ arg'[t] = arg[t]
      BY <2>4 DEF RealLockTopFails, AcquireTopLevelMutexFast,
         PushHeldLockSlot, PublishOwner, ReleaseMutex, CancelWait, Return,
         Goto, mutexVars, TypeOK
    <3> QED  BY <1>1, <3>1, <3>2
  <2>5. CASE BeforeBlockingMutexLock(u)
    <3>1. UNCHANGED <<holder, arg>> /\ \A t \in Threads \ {u} : pc'[t] = pc[t]
      BY <2>5 DEF BeforeBlockingMutexLock, Goto, mutexVars, TypeOK
    <3> QED  BY <1>1, <2>5, <3>1
  <2>6. CASE Drain(u)
    BY <2>6 DEF Drain, HoldBook
  <2> QED
    BY <1>4, <2>1, <2>2, <2>3, <2>4, <2>5, <2>6 DEF Internal
<1>5. ASSUME NEW u \in Threads, Call(u)
      PROVE  \A t \in S : /\ pc[t] \in WaitPoints
                          /\ arg'[t] = arg[t]
                          /\ holder'[arg[t]] = holder[arg[t]]
  <2>1. CASE CondWake(u)
    BY <2>1 DEF CondWake, HoldBook
  <2>2. ASSUME NEW m \in Locks,
               \/ LockTop(u, m) \/ Trylock(u, m) \/ LockBusy(u, m)
               \/ RealUnlock(u, m)
        PROVE  /\ u \notin S
               /\ \A t \in Threads \ {u} : pc'[t] = pc[t] /\ arg'[t] = arg[t]
               /\ \A t \in S : holder'[arg'[t]] = holder[arg'[t]]
    <3>0. pc'[u] \in {"top_lock", "top_acquire", "acquire", "before_block",
                    "release"}
      BY <2>2 DEF LockTop, Trylock, LockBusy, RealUnlock, Goto, TypeOK
    <3>1. u \notin S
      BY <1>1, <3>0
    <3>2. \A t \in Threads \ {u} : pc'[t] = pc[t] /\ arg'[t] = arg[t]
      BY <2>2 DEF LockTop, Trylock, LockBusy, RealUnlock, Goto, TypeOK
    <3>3. CASE LockTop(u, m) \/ LockBusy(u, m)
      BY <3>1, <3>2, <3>3 DEF LockTop, LockBusy, mutexVars
    <3>4. CASE Trylock(u, m)
      <4>1. holder' = [holder EXCEPT ![m] = u]
        BY <3>4 DEF Trylock, RealAcquire
      <4>2. \A t \in S : arg'[t] # m
        BY <1>1, <3>1, <4>1 DEF TypeOK
      <4> QED  BY <1>1, <3>1, <3>2, <4>1, <4>2 DEF TypeOK
    <3>5. CASE RealUnlock(u, m)
      <4>1. holder' = [holder EXCEPT ![m] = holder'[m]]
            /\ holder'[m] \in {u, NoThread}
        BY <3>5 DEF RealUnlock, RealRelease, TypeOK
      <4>2. \A t \in S : arg'[t] # m
        BY <1>1, <3>1, <4>1
      <4> QED  BY <1>1, <3>1, <3>2, <4>1, <4>2 DEF TypeOK
    <3> QED  BY <2>2, <3>1, <3>2, <3>3, <3>4, <3>5
  <2>3. ASSUME NEW m \in Locks, CondWait(u, m) PROVE FALSE
    BY <2>3 DEF CondWait, OrdinaryMutexes
  <2> QED
    BY <1>1, <1>5, <2>1, <2>2, <2>3 DEF Call
<1> QED
  BY <1>3, <1>4, <1>5 DEF Next

-----------------------------------------------------------------------------
(* A walk on track stays on track until it reports.                        *)

\* Inside a circular wait the owner record is the holder and the published
\* wait is the mutex argument.
LEMMA InsideCircle ==
    ASSUME Books, NEW C \in SUBSET Threads, CircularWait(C), NEW x \in C
    PROVE  /\ arg[x] \in Locks
           /\ waiting[x] = arg[x]
           /\ holder[arg[x]] \in C
           /\ owner[arg[x]] = holder[arg[x]]
<1>1. /\ pc[x] \in WaitPoints /\ holder[arg[x]] \in C /\ arg[x] \in Locks
  BY DEF Books, TypeInv, TypeOK, CircularWait, WaitPoints, WalkPoints
<1>2. pc[holder[arg[x]]] \notin AcquirePoints
  BY <1>1 DEF CircularWait, WaitPoints, WalkPoints, AcquirePoints
<1>3. owner[arg[x]] = holder[arg[x]]
  BY <1>1, <1>2 DEF Books, OwnerBook
<1> QED
  BY <1>1, <1>3 DEF Books, WaitBook

\* Nobody but w moves w's walk.
LEMMA WalkFrame ==
    ASSUME OrdinaryMutexes, Books, [Next]_vars, NEW w \in Threads,
           pc[w] \in WalkPoints
    PROVE  \/ LoadOwner(w) \/ LoadWaiting(w)
           \/ pc'[w] = pc[w] /\ chain'[w] = chain[w] /\ cur'[w] = cur[w]
<1> USE DEF Books, TypeInv, WalkPoints
<1>1. CASE UNCHANGED vars \/ Exited
  BY <1>1 DEF Exited, vars, walkVars
<1>2. ASSUME NEW u \in Threads, Internal(u)
      PROVE  \/ LoadOwner(w) \/ LoadWaiting(w)
             \/ pc'[w] = pc[w] /\ chain'[w] = chain[w] /\ cur'[w] = cur[w]
  <2>1. CASE LoadOwner(u) \/ LoadWaiting(u)
    BY <2>1, WalkStep
  <2>2. CASE ExitDeadlock(u) \/ HeldStackOverflow(u)
    BY <2>2 DEF ExitDeadlock, HeldStackOverflow, walkVars
  <2>3. CASE \/ RealLockTop(u) \/ RealLockTopFails(u)
             \/ AcquireTopLevelMutexFast(u) \/ RealLock(u) \/ CancelWait(u)
             \/ PushHeldLockSlot(u) \/ PublishOwner(u) \/ ReleaseMutex(u)
    <3>1. UNCHANGED <<chain, cur>>
      BY <2>3 DEF RealLockTop, RealLockTopFails, AcquireTopLevelMutexFast,
         RealLock, CancelWait, PushHeldLockSlot, PublishOwner, ReleaseMutex,
         walkVars
    <3>2. u # w
      BY <2>3 DEF RealLockTop, RealLockTopFails, AcquireTopLevelMutexFast,
         RealLock, CancelWait, PushHeldLockSlot, PublishOwner, ReleaseMutex
    <3>3. \A v \in Threads \ {u} : pc'[v] = pc[v]
      BY <2>3 DEF RealLockTop, RealLockTopFails, AcquireTopLevelMutexFast,
         RealLock, CancelWait, PushHeldLockSlot, PublishOwner, ReleaseMutex,
         Return, Goto, TypeOK
    <3> QED  BY <3>1, <3>2, <3>3
  <2>4. CASE BeforeBlockingMutexLock(u)
    BY <2>4 DEF BeforeBlockingMutexLock, Goto, TypeOK
  <2>5. CASE Drain(u)
    BY <2>5 DEF Drain, HoldBook
  <2> QED
    BY <1>2, <2>1, <2>2, <2>3, <2>4, <2>5 DEF Internal
<1>3. ASSUME NEW u \in Threads, Call(u)
      PROVE  pc'[w] = pc[w] /\ chain'[w] = chain[w] /\ cur'[w] = cur[w]
  <2>1. CASE CondWake(u)
    BY <2>1 DEF CondWake, HoldBook
  <2>2. ASSUME NEW m \in Locks,
               \/ LockTop(u, m) \/ Trylock(u, m) \/ LockBusy(u, m)
               \/ RealUnlock(u, m)
        PROVE  pc'[w] = pc[w] /\ chain'[w] = chain[w] /\ cur'[w] = cur[w]
    BY <2>2 DEF LockTop, Trylock, LockBusy, RealUnlock, Goto, walkVars, TypeOK
  <2>3. ASSUME NEW m \in Locks, CondWait(u, m) PROVE FALSE
    BY <2>3 DEF CondWait, OrdinaryMutexes
  <2> QED
    BY <1>3, <2>1, <2>2, <2>3 DEF Call
<1> QED
  BY <1>1, <1>2, <1>3 DEF Next

\* C cannot do without w.
Essential(w, C) ==
    /\ w \in C /\ CircularWait(C)
    /\ \A D \in SUBSET C : CircularWait(D) => w \in D

\* Owners on the chain are distinct threads other than w, so they are too
\* few to reach the hop bound.
LEMMA ChainShort ==
    ASSUME Books, NEW w \in Threads, NEW C \in SUBSET Threads, OnTrack(w, C)
    PROVE  Len(chain[w]) < MaxThreadSlots
<1> DEFINE n == Len(chain[w])
           f == [i \in 1..n |-> chain[w][i].owner]
<1>1. n \in Nat
  BY DEF Books, TypeInv, TypeOK
<1>2. /\ IsFiniteSet(Threads \ {w})
      /\ Cardinality(Threads \ {w}) = Cardinality(Threads) - 1
      /\ Cardinality(Threads) \in Nat
  BY FS_RemoveElement, FS_CardinalityType, ThreadsAssumption
<1>3. IsFiniteSet(1..n) /\ Cardinality(1..n) = n
  <2> HIDE DEF n
  <2>1. n \in Int /\ 1 \in Int
    BY <1>1
  <2>2. IsFiniteSet(1..n) /\ Cardinality(1..n) = IF 1 > n THEN 0 ELSE n - 1 + 1
    BY <2>1, FS_Interval
  <2>3. n = 0 \/ ~(1 > n)
    BY <1>1
  <2> QED  BY <1>1, <2>2, <2>3
<1>4. f \in [1..n -> Threads \ {w}]
  BY DEF OnTrack
<1>5. \A x, y \in 1..n : x # y => f[x] # f[y]
  <2>1. \A x, y \in 1..n : x < y => f[x] # f[y]
    BY <1>1 DEF OnTrack
  <2> HIDE DEF f
  <2>2. \A x, y \in 1..n : x # y => x < y \/ y < x
    BY <1>1
  <2> QED  BY <2>1, <2>2
<1>6. ~(Cardinality(Threads \ {w}) < Cardinality(1..n))
  <2> HIDE DEF f, n
  <2> SUFFICES ASSUME Cardinality(Threads \ {w}) < Cardinality(1..n)
               PROVE  FALSE
    OBVIOUS
  <2>1. \E x, y \in 1..n : x # y /\ f[x] = f[y]
    BY <1>2, <1>3, <1>4, FS_PigeonHole
  <2> QED  BY <1>5, <2>1
<1> HIDE DEF n
<1>7. n < MaxThreadSlots
  BY <1>1, <1>2, <1>3, <1>6, LimitsAssumption
<1> QED  BY <1>7 DEF n

\* The owner that the walk loads next is new, or is w: otherwise the chain
\* would hold a circular wait without w.
LEMMA NextOwnerNew ==
    ASSUME Books, NEW w \in Threads, NEW C \in SUBSET Threads,
           Essential(w, C), OnTrack(w, C),
           NEW j \in 1..Len(chain[w]),
           holder[arg[Waiter(w, Len(chain[w]) + 1)]] = chain[w][j].owner
    PROVE  FALSE
<1> DEFINE n == Len(chain[w])
           own(k) == chain[w][k].owner
           D == {own(k) : k \in j..n}
<1>1. n \in Nat /\ j \in 1..n
  BY DEF Books, TypeInv, TypeOK
<1>2. \A k \in 1..n : own(k) \in C \ {w} /\ own(k) = holder[arg[Waiter(w, k)]]
  BY DEF OnTrack
<1>3. \A k \in 1..n : Waiter(w, k + 1) = own(k)
  BY <1>1 DEF Waiter
<1>4. \A k \in j..n : holder[arg[own(k)]] \in D
  <2> TAKE k \in j..n
  <2>1. CASE k = n
    <3>1. n \in 1..n /\ j \in j..n
      BY <1>1
    <3>2. holder[arg[own(n)]] = own(j)
      BY <1>3, <3>1
    <3> QED  BY <2>1, <3>1, <3>2
  <2>2. CASE k < n
    <3>1. k + 1 \in j..n /\ k + 1 \in 1..n /\ k \in 1..n
      BY <1>1, <2>2
    <3>2. own(k + 1) = holder[arg[own(k)]]
      BY <1>2, <1>3, <3>1
    <3> QED  BY <3>1, <3>2
  <2> QED  BY <1>1, <2>1, <2>2
<1>5. D \in SUBSET C /\ D # {} /\ w \notin D
  <2>1. j \in j..n /\ j..n \subseteq 1..n
    BY <1>1
  <2> QED  BY <1>2, <2>1
<1>6. CircularWait(D)
  BY <1>4, <1>5 DEF CircularWait, Essential
<1> QED  BY <1>5, <1>6 DEF Essential

LEMMA OnTrackStep ==
    ASSUME OrdinaryMutexes, Books, [Next]_vars, NEW w \in Threads,
           NEW C \in SUBSET Threads, Essential(w, C), OnTrack(w, C)
    PROVE  pc'[w] = "exit66" \/ OnTrack(w, C)'
<1> DEFINE n == Len(chain[w])
           x == Waiter(w, n + 1)
<1>1. /\ \A t \in C : /\ arg[t] \in Locks
                      /\ arg'[t] = arg[t]
                      /\ holder'[arg[t]] = holder[arg[t]]
      /\ w \in C
  BY CircularStable DEF Essential
<1>2. n \in Nat /\ \A i \in 1..n : chain[w][i].owner \in C \ {w}
  BY DEF OnTrack, Books, TypeInv, TypeOK
<1>3. \A i \in 1..(n + 1) : Waiter(w, i) \in C
  BY <1>1, <1>2 DEF Waiter
<1>4. /\ waiting[x] = arg[x] /\ arg[x] \in Locks
      /\ holder[arg[x]] \in C /\ owner[arg[x]] = holder[arg[x]]
  <2>1. x \in C
    BY <1>2, <1>3
  <2> QED  BY <2>1, InsideCircle DEF Essential
<1>5. CASE pc'[w] = pc[w] /\ chain'[w] = chain[w] /\ cur'[w] = cur[w]
  <2>1. \A i \in 1..(n + 1) : Waiter(w, i)' = Waiter(w, i)
    BY <1>5 DEF Waiter
  <2> QED
    BY <1>1, <1>2, <1>3, <1>5, <2>1 DEF OnTrack
<1>6. CASE LoadOwner(w)
  <2>1. cur[w] = arg[x] /\ owner[cur[w]] = holder[arg[x]]
    BY <1>4, <1>6 DEF LoadOwner, OnTrack
  <2> DEFINE o == holder[arg[x]]
             hop == [lock |-> cur[w], owner |-> o]
  <2>2. o # NoThread
    BY <1>4, ThreadsAssumption
  <2>3. /\ chain' = [chain EXCEPT ![w] = Append(chain[w], hop)]
        /\ pc' = [pc EXCEPT ![w] = IF o = w THEN "exit66" ELSE "load_waiting"]
    BY <1>6, <2>1, <2>2 DEF LoadOwner, Goto, Essential
  <2>4. CASE o = w
    BY <2>3, <2>4 DEF Books, TypeInv, TypeOK
  <2>5. CASE o # w
    <3>1. \A j \in 1..n : chain[w][j].owner # o
      BY NextOwnerNew
    <3>2. pc'[w] = "load_waiting"
      BY <2>3, <2>5 DEF Books, TypeInv, TypeOK
    <3>3. /\ chain'[w] = Append(chain[w], hop)
          /\ chain[w] \in Seq(Hop)
      BY <2>3 DEF Books, TypeInv, TypeOK
    <3>4. /\ Len(chain'[w]) = n + 1
          /\ \A i \in 1..n : chain'[w][i] = chain[w][i]
          /\ chain'[w][n + 1].owner = o
      BY <3>3
    <3>5. \A i \in 1..(n + 1) : Waiter(w, i)' = Waiter(w, i)
      <4>1. \A i \in 1..(n + 1) : i = 1 \/ i - 1 \in 1..n
        BY <1>2
      <4> QED  BY <3>4, <4>1 DEF Waiter
    <3>6. ASSUME NEW i \in 1..(n + 1)
          PROVE  /\ chain'[w][i].owner \in C \ {w}
                 /\ chain'[w][i].owner = holder'[arg'[Waiter(w, i)]]
                 /\ \A j \in 1..(i - 1) :
                        chain'[w][j].owner # chain'[w][i].owner
      <4>1. CASE i = n + 1
        BY <1>1, <1>2, <1>3, <1>4, <2>5, <3>1, <3>4, <4>1
      <4>2. CASE i \in 1..n
        <5>1. /\ i \in 1..(n + 1)
              /\ \A j \in 1..(i - 1) : j \in 1..n
          BY <1>2, <4>2
        <5>2. chain'[w][i] = chain[w][i]
              /\ \A j \in 1..(i - 1) : chain'[w][j] = chain[w][j]
          BY <3>4, <4>2, <5>1
        <5>3. /\ chain[w][i].owner \in C \ {w}
              /\ chain[w][i].owner = holder[arg[Waiter(w, i)]]
              /\ \A j \in 1..(i - 1) : chain[w][j].owner # chain[w][i].owner
          BY <4>2 DEF OnTrack
        <5>4. holder'[arg'[Waiter(w, i)]] = holder[arg[Waiter(w, i)]]
          BY <1>1, <1>3, <5>1
        <5> HIDE DEF n, x, o, hop
        <5> QED  BY <5>2, <5>3, <5>4
      <4>3. i = n + 1 \/ i \in 1..n
        BY <1>2
      <4> QED  BY <4>1, <4>2, <4>3
    <3> QED
      BY <3>2, <3>4, <3>5, <3>6 DEF OnTrack, WalkPoints
  <2> QED  BY <2>4, <2>5
<1>7. CASE LoadWaiting(w)
  <2>1. chain[w] \in Seq(Hop) /\ chain[w] # << >>
    BY <1>7 DEF LoadWaiting, Books, TypeInv, TypeOK
  <2>2. x = chain[w][n].owner
    BY <1>2, <2>1 DEF Waiter
  <2>3. WalkContinues(arg[x], n)
    BY <1>4, ChainShort, LocksAssumption DEF WalkContinues
  <2>4. /\ cur' = [cur EXCEPT ![w] = arg[x]]
        /\ pc' = [pc EXCEPT ![w] = "load_owner"]
        /\ UNCHANGED chain
    BY <1>4, <1>7, <2>2, <2>3 DEF LoadWaiting, Goto
  <2>5. pc'[w] = "load_owner" /\ cur'[w] = arg[x] /\ chain'[w] = chain[w]
    BY <2>4 DEF Books, TypeInv, TypeOK
  <2>6. \A i \in 1..(n + 1) : Waiter(w, i)' = Waiter(w, i)
    BY <2>5 DEF Waiter
  <2> QED
    BY <1>1, <1>2, <1>3, <2>5, <2>6 DEF OnTrack, WalkPoints
<1> QED
  BY <1>5, <1>6, <1>7, WalkFrame DEF OnTrack

LEMMA EssentialStable ==
    ASSUME OrdinaryMutexes, Books, Books', [Next]_vars, NEW w \in Threads,
           NEW C \in SUBSET Threads, Essential(w, C)
    PROVE  Essential(w, C)'
<1>1. CircularWait(C)'
  BY CircularStable DEF Essential
<1>2. ASSUME NEW D \in SUBSET C, CircularWait(D)' PROVE w \in D
  <2>1. ASSUME NEW t \in D, BeforeBlockingMutexLock(t) PROVE FALSE
    BY <2>1 DEF BeforeBlockingMutexLock, Essential, CircularWait, WaitPoints,
       WalkPoints
  <2>2. CircularWait(D)
    BY <1>2, <2>1, CircularOld
  <2> QED  BY <2>2 DEF Essential
<1> QED  BY <1>1, <1>2 DEF Essential

\* Whoever is going to report still is after any step, or is about to exit.
LEMMA ReporterStable ==
    ASSUME OrdinaryMutexes, Books, Books', [Next]_vars, NEW w \in Threads,
           pc[w] = "exit66" \/ WillReport(w)
    PROVE  pc'[w] = "exit66" \/ WillReport(w)'
<1>1. CASE pc[w] = "exit66"
  <2>1. /\ ~RealLockTop(w) /\ ~RealLockTopFails(w) /\ ~RealLock(w)
        /\ ~AcquireTopLevelMutexFast(w) /\ ~BeforeBlockingMutexLock(w)
        /\ ~LoadOwner(w) /\ ~LoadWaiting(w) /\ ~CancelWait(w)
        /\ ~PushHeldLockSlot(w) /\ ~PublishOwner(w) /\ ~ReleaseMutex(w)
    BY <1>1 DEF RealLockTop, RealLockTopFails, RealLock,
       AcquireTopLevelMutexFast, BeforeBlockingMutexLock, LoadOwner,
       LoadWaiting, CancelWait, PushHeldLockSlot, PublishOwner, ReleaseMutex
  <2>2. \A m \in Locks : /\ ~LockTop(w, m) /\ ~Trylock(w, m)
                         /\ ~LockBusy(w, m) /\ ~RealUnlock(w, m)
    BY <1>1 DEF LockTop, Trylock, LockBusy, RealUnlock
  <2>3. pc'[w] = pc[w]
    <3>1. CASE UNCHANGED vars \/ Exited
      BY <3>1 DEF Exited, vars
    <3>2. ASSUME NEW u \in Threads, Internal(u) PROVE pc'[w] = pc[w]
      <4>1. CASE \/ ExitDeadlock(u) \/ HeldStackOverflow(u) \/ Drain(u)
        BY <4>1 DEF ExitDeadlock, HeldStackOverflow, Drain
      <4>2. CASE LoadOwner(u) \/ LoadWaiting(u)
        BY <2>1, <4>2, WalkStep DEF Books, TypeInv
      <4>3. CASE \/ RealLockTop(u) \/ RealLockTopFails(u) \/ RealLock(u)
                 \/ AcquireTopLevelMutexFast(u) \/ CancelWait(u)
                 \/ BeforeBlockingMutexLock(u) \/ PushHeldLockSlot(u)
                 \/ PublishOwner(u) \/ ReleaseMutex(u)
        <5>1. u # w
          BY <2>1, <4>3
        <5> QED
          BY <4>3, <5>1 DEF RealLockTop, RealLockTopFails, RealLock,
             AcquireTopLevelMutexFast, CancelWait, BeforeBlockingMutexLock,
             PushHeldLockSlot, PublishOwner, ReleaseMutex, Return, Goto,
             Books, TypeInv, TypeOK
      <4> QED  BY <3>2, <4>1, <4>2, <4>3 DEF Internal
    <3>3. ASSUME NEW u \in Threads, Call(u) PROVE pc'[w] = pc[w]
      <4>1. CASE CondWake(u)
        BY <4>1 DEF CondWake, Books, HoldBook
      <4>2. ASSUME NEW m \in Locks,
                   \/ LockTop(u, m) \/ Trylock(u, m) \/ LockBusy(u, m)
                   \/ RealUnlock(u, m)
            PROVE  pc'[w] = pc[w]
        <5>1. u # w
          BY <2>2, <4>2
        <5> QED
          BY <4>2, <5>1 DEF LockTop, Trylock, LockBusy, RealUnlock, Goto,
             Books, TypeInv, TypeOK
      <4>3. ASSUME NEW m \in Locks, CondWait(u, m) PROVE FALSE
        BY <4>3 DEF CondWait, OrdinaryMutexes
      <4> QED  BY <3>3, <4>1, <4>2, <4>3 DEF Call
    <3> QED  BY <3>1, <3>2, <3>3 DEF Next
  <2> QED  BY <1>1, <2>3
<1>2. CASE WillReport(w)
  <2>1. PICK C \in SUBSET Threads : Essential(w, C) /\ OnTrack(w, C)
    BY <1>2 DEF WillReport, Essential
  <2>2. Essential(w, C)'
    BY <2>1, EssentialStable
  <2>3. pc'[w] = "exit66" \/ OnTrack(w, C)'
    BY <2>1, OnTrackStep
  <2> QED  BY <2>2, <2>3 DEF WillReport, Essential
<1> QED  BY <1>1, <1>2

-----------------------------------------------------------------------------
(* The detector stays alive, so nothing goes unreported.                   *)

LEMMA DetectorAliveStep ==
    ASSUME OrdinaryMutexes, Books, Books', [Next]_vars, DetectorAlive
    PROVE  DetectorAlive'
<1> SUFFICES ASSUME NEW S \in SUBSET Threads, CircularWait(S)'
             PROVE  \E w \in S : pc'[w] = "exit66" \/ WillReport(w)'
  BY DEF DetectorAlive
<1>1. ASSUME NEW D \in SUBSET S, CircularWait(D)
      PROVE  \E w \in S : pc'[w] = "exit66" \/ WillReport(w)'
  <2>1. PICK w \in D : pc[w] = "exit66" \/ WillReport(w)
    BY <1>1 DEF DetectorAlive
  <2> QED  BY <2>1, ReporterStable
<1>2. ASSUME NEW t \in S, BeforeBlockingMutexLock(t),
             \A D \in SUBSET S : CircularWait(D)' => t \in D
      PROVE  WillReport(t)'
  <2>1. Essential(t, S)'
    BY <1>2 DEF Essential
  <2>2. chain[t] = << >>
    BY <1>2 DEF BeforeBlockingMutexLock, Books, WaitBook, WalkPoints
  <2>3. pc'[t] = "load_owner" /\ cur'[t] = arg'[t] /\ chain'[t] = << >>
    BY <1>2, <2>2 DEF BeforeBlockingMutexLock, Goto, Books, TypeInv, TypeOK
  <2>4. OnTrack(t, S)'
    BY <2>3 DEF OnTrack, Waiter, WalkPoints
  <2> QED  BY <2>1, <2>4 DEF WillReport, Essential
<1>3. ASSUME NEW t \in S, BeforeBlockingMutexLock(t),
             NEW D \in SUBSET S, CircularWait(D)', t \notin D
      PROVE  CircularWait(D)
  <2>1. \A u \in D : pc'[u] = pc[u] /\ pc[u] \in WaitPoints
    BY <1>3 DEF BeforeBlockingMutexLock, Goto, Books, TypeInv, TypeOK,
       CircularWait
  <2>2. \A u \in D : ~BeforeBlockingMutexLock(u)
    BY <2>1 DEF BeforeBlockingMutexLock, WaitPoints, WalkPoints
  <2> QED  BY <1>3, <2>2, CircularOld
<1>4. CASE CircularWait(S)
  BY <1>1, <1>4
<1>5. CASE \E t \in S : BeforeBlockingMutexLock(t)
  BY <1>1, <1>2, <1>3, <1>5
<1> QED  BY <1>4, <1>5, CircularOld

\* A deadlock leaves nobody who could still report.
LEMMA AliveSuffices ==
    ASSUME OrdinaryMutexes, Books, DetectorAlive
    PROVE  NoUndetectedDeadlock
<1> SUFFICES ASSUME NEW S \in SUBSET Threads, Deadlocked(S) PROVE FALSE
  BY DEF NoUndetectedDeadlock
<1> DEFINE R == {holder[arg[t]] : t \in S}
<1>1. \A t \in S : /\ Blocked(t) /\ arg[t] \in Locks
                   /\ ~LockFails(t, arg[t]) /\ holder[arg[t]] \in S
  BY DEF Deadlocked, Blocked, Books, TypeInv, TypeOK
<1>2. R \in SUBSET S /\ R # {}
  BY <1>1 DEF Deadlocked
<1>3. \A u \in R : pc[u] = "real_lock"
  <2> TAKE u \in R
  <2>1. PICK t \in S : u = holder[arg[t]]
    OBVIOUS
  <2>2. pc[u] # "top_lock"
    <3>1. Lists(held[u], arg[t]) \/ pc[u] \in AcquirePoints
      BY <1>1, <1>2, <2>1 DEF Books, HoldBook
    <3>2. ~Lists(<< >>, arg[t])
      BY DEF Lists
    <3> QED
      BY <1>2, <3>1, <3>2 DEF Books, HoldBook, AcquirePoints
  <2> QED
    BY <1>1, <1>2, <2>2 DEF Blocked, Books, HoldBook
<1>4. CircularWait(R)
  BY <1>1, <1>2, <1>3 DEF CircularWait, WaitPoints
<1>5. PICK w \in R : pc[w] = "exit66" \/ WillReport(w)
  BY <1>2, <1>4 DEF DetectorAlive
<1> QED
  BY <1>3, <1>5 DEF WillReport, OnTrack, WalkPoints

LEMMA DetectorAliveInit == Init => DetectorAlive
  BY DEF Init, DetectorAlive, CircularWait, WaitPoints, WalkPoints

\* Whenever threads wait in a circle, one of them is on its way to _exit(66).
THEOREM DetectorStaysAlive ==
    ASSUME OrdinaryMutexes PROVE Spec => []DetectorAlive
<1> DEFINE IInv == Books /\ DetectorAlive
<1>1. Init => IInv
  BY TypeInvInit, BooksInit, DetectorAliveInit DEF Books
<1>2. IInv /\ [Next]_vars => IInv'
  BY BooksStep, DetectorAliveStep
<1>3. IInv => DetectorAlive
  OBVIOUS
<1> QED
  BY <1>1, <1>2, <1>3, PTL DEF Spec

\* Threads never block in a circular wait: it is reported instead.
THEOREM DetectorComplete ==
    ASSUME OrdinaryMutexes PROVE Spec => []NoUndetectedDeadlock
<1> DEFINE IInv == Books /\ DetectorAlive
<1>1. Init => IInv
  BY TypeInvInit, BooksInit, DetectorAliveInit DEF Books
<1>2. IInv /\ [Next]_vars => IInv'
  BY BooksStep, DetectorAliveStep
<1>3. IInv => NoUndetectedDeadlock
  BY AliveSuffices
<1> QED
  BY <1>1, <1>2, <1>3, PTL DEF Spec

-----------------------------------------------------------------------------
(* What a report is worth: a walk none of whose owners has released a mutex *)
(* or given up waiting has followed what is still true.                    *)

NoFailures == MayFail = {} /\ ErrorCheck = {}

HopOwner(w, i) == chain[w][i].owner

Undisturbed(w) == \A i \in 1..Len(chain[w]) : HopOwner(w, i) \notin disturbed[w]

WaitsFor(t, m) == pc[t] \in WaitPoints /\ arg[t] = m

\* The owners on the chain still hold its mutexes, and each, as far as the walk
\* has seen what it waits for, waits for one of them; the last one waits for the
\* mutex the walk has come to, or has just got it.
TrueChain(w) ==
    LET n == Len(chain[w]) IN
    /\ \A i \in 1..n : holder[chain[w][i].lock] = HopOwner(w, i)
    /\ IF n = 0 THEN cur[w] = arg[w] ELSE chain[w][1].lock = arg[w]
    /\ \A i \in 1..n : \E j \in 1..n :
          /\ HopOwner(w, j) = HopOwner(w, i)
          /\ j = n \/ (j + 1 \in 1..n /\ WaitsFor(HopOwner(w, j), chain[w][j + 1].lock))
    /\ pc[w] = "load_owner" /\ n > 0 =>
          WaitsFor(HopOwner(w, n), cur[w]) \/ holder[cur[w]] = HopOwner(w, n)

\* The last owner has unlocked the mutex already and is about to disown it: the
\* walk will find that it waits for nothing, unless it goes on before.
LeavingOwner(w) ==
    /\ pc[w] = "load_waiting"
    /\ pc[HopOwner(w, Len(chain[w]))] = "release"

WalkTrue == \A w \in Threads :
    /\ pc[w] \in WalkPoints /\ Undisturbed(w) => TrueChain(w) \/ LeavingOwner(w)
    /\ pc[w] = "exit66" /\ Undisturbed(w) => InCircularWait(w)

\* Only what disturbs a walk takes a mutex from its holder or ends a release,
\* and a waiting thread can only get what it waits for.
LEMMA OnlyDisturbed ==
    ASSUME OrdinaryMutexes, NoFailures, Books, [Next]_vars,
           NEW w \in Threads, pc[w] \in WalkPoints, pc'[w] = pc[w], chain'[w] = chain[w]
    PROVE  /\ arg'[w] = arg[w]
           /\ disturbed[w] \subseteq disturbed'[w]
           /\ \A o \in Threads \ disturbed'[w] :
                 /\ \A m \in Locks : holder[m] = o => holder'[m] = o
                 /\ pc[o] = "release" => pc'[o] = "release"
                 /\ \A m \in Locks : WaitsFor(o, m) =>
                        \/ WaitsFor(o, m)'
                        \/ holder[m] = NoThread /\ holder'[m] = o
<1> USE LocksAssumption, ThreadsAssumption DEF Books, TypeInv, WalkPoints, WaitPoints
<1>1. CASE UNCHANGED vars \/ Exited
  BY <1>1 DEF Exited, vars, mutexVars, WaitsFor
<1>2. ASSUME NEW u \in Threads,
             \/ LoadOwner(u) \/ LoadWaiting(u)
      PROVE  /\ UNCHANGED <<holder, arg>> /\ disturbed[w] \subseteq disturbed'[w]
             /\ \A o \in Threads : /\ pc[o] = "release" => pc'[o] = "release"
                                   /\ pc[o] \in WaitPoints => pc'[o] \in WaitPoints
  <2>1. /\ UNCHANGED <<holder, arg>>
        /\ \A o \in Threads : /\ pc[o] = "release" => pc'[o] = "release"
                              /\ pc[o] \in WaitPoints => pc'[o] \in WaitPoints
    BY <1>2, WalkStep
  <2>2. disturbed[w] \subseteq disturbed'[w]
    <3>1. CASE EndWalk(u)
      <4>1. u # w
        BY <3>1 DEF EndWalk, Goto, TypeOK
      <4> QED  BY <3>1, <4>1 DEF EndWalk, TypeOK
    <3>2. CASE ~EndWalk(u)
      BY <1>2, <3>2 DEF LoadOwner, LoadWaiting
    <3> QED  BY <3>1, <3>2
  <2> QED  BY <2>1, <2>2
<1> DEFINE Kept(o) == /\ \A m \in Locks : holder[m] = o => holder'[m] = o
                      /\ pc[o] = "release" => pc'[o] = "release"
                      /\ \A m \in Locks : WaitsFor(o, m) =>
                             \/ WaitsFor(o, m)'
                             \/ holder[m] = NoThread /\ holder'[m] = o
           Goal == /\ arg'[w] = arg[w]
                   /\ disturbed[w] \subseteq disturbed'[w]
                   /\ \A o \in Threads \ disturbed'[w] : Kept(o)
<1>3. ASSUME NEW u \in Threads, Internal(u)
      PROVE  Goal
  <2>1. CASE LoadOwner(u) \/ LoadWaiting(u)
    BY <1>2, <2>1 DEF WaitsFor
  <2>2. CASE RealLock(u) \/ RealLockTop(u)
    <3>1. /\ pc[u] \in {"real_lock", "top_lock"}
          /\ arg[u] \in Locks /\ holder[arg[u]] = NoThread
          /\ holder' = [holder EXCEPT ![arg[u]] = u]
          /\ UNCHANGED <<arg, disturbed>>
          /\ \A v \in Threads \ {u} : pc'[v] = pc[v]
      BY <2>2 DEF RealLock, RealLockTop, TrylockSucceeds, RealAcquire, OrdinaryMutexes, Goto,
         TypeOK
    <3> QED
      BY <3>1 DEF WaitsFor, TypeOK
  <2>3. CASE \/ RealLockTopFails(u) \/ AcquireTopLevelMutexFast(u)
             \/ BeforeBlockingMutexLock(u) \/ PushHeldLockSlot(u) \/ PublishOwner(u)
    <3>1. /\ pc[u] \notin {"release"} \cup WaitPoints
          /\ UNCHANGED <<holder, disturbed>>
          /\ \A v \in Threads \ {u} : pc'[v] = pc[v] /\ arg'[v] = arg[v]
      BY <2>3 DEF RealLockTopFails, AcquireTopLevelMutexFast, BeforeBlockingMutexLock,
         PushHeldLockSlot, PublishOwner, Return, Goto, mutexVars, TypeOK
    <3> QED
      BY <3>1 DEF WaitsFor
  <2>4. CASE ExitDeadlock(u) \/ HeldStackOverflow(u)
    BY <2>4 DEF ExitDeadlock, HeldStackOverflow, mutexVars, WaitsFor
  <2>5. CASE CancelWait(u)
    BY <2>5 DEF CancelWait, LockFails, NoFailures
  <2>6. CASE ReleaseMutex(u)
    <3>1. /\ pc[u] = "release" /\ UNCHANGED holder
          /\ disturbed' = [v \in Threads |-> IF pc[v] \in WalkPoints
                                             THEN disturbed[v] \cup {u} ELSE disturbed[v]]
          /\ \A v \in Threads \ {u} : pc'[v] = pc[v] /\ arg'[v] = arg[v]
      BY <2>6 DEF ReleaseMutex, Return, Goto, Disturb, mutexVars, TypeOK
    <3> QED
      BY <3>1 DEF WaitsFor
  <2>7. CASE Drain(u)
    BY <2>7 DEF Drain, HoldBook
  <2> QED
    BY <1>3, <2>1, <2>2, <2>3, <2>4, <2>5, <2>6, <2>7 DEF Internal
<1>4. ASSUME NEW u \in Threads, Call(u)
      PROVE  Goal
  <2>1. CASE CondWake(u)
    BY <2>1 DEF CondWake, HoldBook
  <2>2. ASSUME NEW m \in Locks, CondWait(u, m) PROVE FALSE
    BY <2>2 DEF CondWait, OrdinaryMutexes
  <2>3. ASSUME NEW m \in Locks,
               LockTop(u, m) \/ Trylock(u, m) \/ LockBusy(u, m) \/ RealUnlock(u, m)
        PROVE  Goal
    <3>1. /\ pc[u] = "idle"
          /\ \A v \in Threads \ {u} : pc'[v] = pc[v] /\ arg'[v] = arg[v]
      BY <2>3 DEF LockTop, Trylock, LockBusy, RealUnlock, Goto, TypeOK
    <3>2. CASE LockTop(u, m) \/ LockBusy(u, m)
      BY <3>1, <3>2 DEF LockTop, LockBusy, mutexVars, WaitsFor
    <3>3. CASE Trylock(u, m)
      <4>1. /\ holder[m] = NoThread /\ holder' = [holder EXCEPT ![m] = u]
            /\ UNCHANGED disturbed
        BY <3>3 DEF Trylock, TrylockSucceeds, RealAcquire, OrdinaryMutexes
      <4> QED
        BY <3>1, <4>1 DEF WaitsFor, TypeOK
    <3>4. CASE RealUnlock(u, m)
      <4>1. /\ holder[m] = u
            /\ \A l \in Locks \ {m} : holder'[l] = holder[l]
            /\ disturbed' = [v \in Threads |-> IF pc[v] \in WalkPoints
                                               THEN disturbed[v] \cup {u} ELSE disturbed[v]]
        BY <3>4 DEF RealUnlock, RealRelease, Disturb, TypeOK
      <4> QED
        BY <3>1, <4>1 DEF WaitsFor
    <3> QED  BY <2>3, <3>2, <3>3, <3>4
  <2> QED
    BY <1>4, <2>1, <2>2, <2>3 DEF Call
<1> QED
  BY <1>1, <1>3, <1>4 DEF Next

LEMMA ChainTypes ==
    ASSUME TypeOK, NEW w \in Threads
    PROVE  /\ Len(chain[w]) \in Nat
           /\ \A i \in 1..Len(chain[w]) :
                 chain[w][i].lock \in Locks /\ HopOwner(w, i) \in Threads
<1>1. chain[w] \in Seq(Hop)
  BY DEF TypeOK
<1>2. \A i \in 1..Len(chain[w]) : chain[w][i] \in Hop
  BY <1>1
<1> QED  BY <1>1, <1>2 DEF Hop, HopOwner

\* Somebody else's step, or the process stands still.
LEMMA WalkTrueElse ==
    ASSUME OrdinaryMutexes, NoFailures, Books, WalkTrue, [Next]_vars,
           NEW w \in Threads, pc[w] \in WalkPoints,
           pc'[w] = pc[w], chain'[w] = chain[w], cur'[w] = cur[w],
           Undisturbed(w)'
    PROVE  TrueChain(w)' \/ LeavingOwner(w)'
<1> DEFINE n == Len(chain[w])
<1>1. /\ arg'[w] = arg[w]
      /\ disturbed[w] \subseteq disturbed'[w]
      /\ \A o \in Threads \ disturbed'[w] :
            /\ \A m \in Locks : holder[m] = o => holder'[m] = o
            /\ pc[o] = "release" => pc'[o] = "release"
            /\ \A m \in Locks : WaitsFor(o, m) =>
                  WaitsFor(o, m)' \/ (holder[m] = NoThread /\ holder'[m] = o)
  BY OnlyDisturbed
<1>2. /\ n \in Nat
      /\ \A i \in 1..n : chain[w][i].lock \in Locks /\ HopOwner(w, i) \in Threads
  BY ChainTypes DEF Books, TypeInv
<1>3. \A i \in 1..n : /\ HopOwner(w, i)' = HopOwner(w, i)
                      /\ HopOwner(w, i) \in Threads \ disturbed'[w]
  BY <1>2 DEF Undisturbed, HopOwner
<1>4. Undisturbed(w)
  BY <1>1, <1>3 DEF Undisturbed
<1>5. CASE LeavingOwner(w)
  <2>1. n \in 1..n
    BY <1>2, <1>5 DEF LeavingOwner, Books, TypeInv, TypeOK
  <2> QED
    BY <1>1, <1>3, <1>5, <2>1 DEF LeavingOwner, HopOwner
<1>6. CASE TrueChain(w)
  <2>1. \A i \in 1..n : holder'[chain'[w][i].lock] = HopOwner(w, i)'
    <3> TAKE i \in 1..n
    <3>1. holder[chain[w][i].lock] = HopOwner(w, i) /\ chain[w][i].lock \in Locks
      BY <1>2, <1>6 DEF TrueChain
    <3>2. holder'[chain[w][i].lock] = HopOwner(w, i)
      BY <1>1, <1>3, <3>1
    <3> QED  BY <1>3, <3>2
  <2>2. IF n = 0 THEN cur'[w] = arg'[w] ELSE chain'[w][1].lock = arg'[w]
    BY <1>1, <1>6 DEF TrueChain
  <2>3. \A i \in 1..n : \E j \in 1..n :
          /\ HopOwner(w, j)' = HopOwner(w, i)'
          /\ \/ j = n
             \/ j + 1 \in 1..n /\ WaitsFor(HopOwner(w, j), chain[w][j + 1].lock)'
    <3> TAKE i \in 1..n
    <3>1. PICK j \in 1..n :
             /\ HopOwner(w, j) = HopOwner(w, i)
             /\ j = n \/ (j + 1 \in 1..n /\ WaitsFor(HopOwner(w, j), chain[w][j + 1].lock))
      BY <1>6 DEF TrueChain
    <3>2. CASE j = n
      BY <1>3, <3>1, <3>2
    <3>3. CASE j + 1 \in 1..n /\ WaitsFor(HopOwner(w, j), chain[w][j + 1].lock)
      <4>1. holder[chain[w][j + 1].lock] \in Threads /\ chain[w][j + 1].lock \in Locks
        BY <1>2, <1>6, <3>3 DEF TrueChain
      <4>2. holder[chain[w][j + 1].lock] # NoThread
        BY <4>1, ThreadsAssumption
      <4>3. pc'[HopOwner(w, j)] \in WaitPoints
              /\ arg'[HopOwner(w, j)] = chain[w][j + 1].lock
        BY <1>1, <1>3, <3>3, <4>1, <4>2 DEF WaitsFor, HopOwner
      <4> QED
        BY <1>3, <3>1, <3>3, <4>3 DEF WaitsFor, HopOwner
    <3> QED  BY <3>1, <3>2, <3>3
  <2>4. pc'[w] = "load_owner" /\ n > 0 =>
           WaitsFor(HopOwner(w, n), cur[w])' \/ holder'[cur'[w]] = HopOwner(w, n)'
    <3> SUFFICES ASSUME pc[w] = "load_owner", n > 0
                 PROVE  WaitsFor(HopOwner(w, n), cur[w])' \/ holder'[cur[w]] = HopOwner(w, n)
      BY <1>2, <1>3
    <3>1. n \in 1..n /\ cur[w] \in Locks
      BY <1>2 DEF Books, TypeInv, TypeOK, WalkPoints
    <3>2. WaitsFor(HopOwner(w, n), cur[w]) \/ holder[cur[w]] = HopOwner(w, n)
      BY <1>6 DEF TrueChain
    <3>3. CASE holder[cur[w]] = HopOwner(w, n)
      BY <1>1, <1>3, <3>1, <3>3
    <3>4. CASE WaitsFor(HopOwner(w, n), cur[w])
      BY <1>1, <1>3, <3>1, <3>4 DEF WaitsFor, HopOwner
    <3> QED  BY <3>2, <3>3, <3>4
  <2> QED
    BY <2>1, <2>2, <2>3, <2>4 DEF TrueChain, WaitsFor, HopOwner
<1> QED
  BY <1>4, <1>5, <1>6 DEF WalkTrue

\* The walk begins, or goes on from an owner to what it waits for.
LEMMA WalkTrueBegin ==
    ASSUME OrdinaryMutexes, Books, NEW w \in Threads, BeforeBlockingMutexLock(w)
    PROVE  TrueChain(w)'
<1>1. chain'[w] = << >> /\ cur'[w] = arg'[w]
  BY DEF BeforeBlockingMutexLock, Books, TypeInv, TypeOK, WaitBook, WalkPoints
<1>2. Len(chain[w])' = 0
  BY <1>1
<1> QED
  BY <1>1, <1>2 DEF TrueChain

LEMMA WalkTrueWaiting ==
    ASSUME OrdinaryMutexes, Books, WalkTrue, NEW w \in Threads, LoadWaiting(w),
           pc'[w] \in WalkPoints, Undisturbed(w)'
    PROVE  TrueChain(w)'
<1> DEFINE n == Len(chain[w])
           o == HopOwner(w, n)
           l == waiting[o]
<1> USE LocksAssumption DEF Books, TypeInv
<1>1. n \in 1..n /\ o \in Threads /\ pc[w] = "load_waiting"
  <2>1. n \in Nat /\ n # 0 /\ pc[w] = "load_waiting"
    BY DEF LoadWaiting, TypeOK
  <2> QED  BY <2>1, ChainTypes
<1>2. /\ WalkContinues(l, n)
      /\ cur' = [cur EXCEPT ![w] = l] /\ pc' = [pc EXCEPT ![w] = "load_owner"]
      /\ UNCHANGED <<holder, arg, chain, disturbed>>
  BY DEF LoadWaiting, EndWalk, Goto, HopOwner, mutexVars, TypeOK, WalkPoints
<1>3. l \in Locks /\ arg[o] = l /\ pc[o] \in WaitPoints \cup {"acquire_wait"}
  BY <1>1, <1>2 DEF WalkContinues, WaitBook, TypeOK
<1>4. TrueChain(w)
  <2>1. Undisturbed(w)
    BY <1>2 DEF Undisturbed, HopOwner
  <2>2. ~LeavingOwner(w)
    BY <1>3 DEF LeavingOwner, WaitPoints, WalkPoints
  <2> QED
    BY <1>1, <2>1, <2>2 DEF WalkTrue, WalkPoints
<1>5. cur'[w] = l /\ pc'[w] = "load_owner" /\ \A t \in Threads \ {w} : pc'[t] = pc[t]
  BY <1>2 DEF TypeOK
<1>6. \A t \in Threads, m \in Locks : WaitsFor(t, m) => WaitsFor(t, m)'
  BY <1>2, <1>5 DEF WaitsFor, WaitPoints, WalkPoints
<1>7. (pc'[o] \in WaitPoints /\ arg'[o] = l) \/ holder'[l] = o
  <2>1. CASE pc[o] \in WaitPoints
    BY <1>1, <1>2, <1>3, <1>5, <2>1 DEF WaitPoints, WalkPoints
  <2>2. CASE pc[o] = "acquire_wait"
    BY <1>1, <1>2, <1>3, <2>2 DEF HoldBook, AcquirePoints
  <2> QED  BY <1>3, <2>1, <2>2
<1>8. \A i \in 1..n : \E j \in 1..n :
          /\ HopOwner(w, j) = HopOwner(w, i)
          /\ j = n \/ (j + 1 \in 1..n /\ WaitsFor(HopOwner(w, j), chain[w][j + 1].lock)')
  <2> TAKE i \in 1..n
  <2>1. PICK j \in 1..n :
           /\ HopOwner(w, j) = HopOwner(w, i)
           /\ j = n \/ (j + 1 \in 1..n /\ WaitsFor(HopOwner(w, j), chain[w][j + 1].lock))
    BY <1>4 DEF TrueChain
  <2>2. CASE j = n
    BY <2>1, <2>2
  <2>3. CASE j + 1 \in 1..n /\ WaitsFor(HopOwner(w, j), chain[w][j + 1].lock)
    <3>1. HopOwner(w, j) \in Threads /\ chain[w][j + 1].lock \in Locks
      BY <2>3, ChainTypes
    <3>2. pc'[HopOwner(w, j)] \in WaitPoints /\ arg'[HopOwner(w, j)] = chain[w][j + 1].lock
      BY <1>6, <2>3, <3>1 DEF WaitsFor
    <3> QED  BY <1>2, <2>1, <2>3, <3>2 DEF WaitsFor, HopOwner
  <2> QED  BY <2>1, <2>2, <2>3
<1>9. \A i \in 1..n : \E j \in 1..n :
          /\ HopOwner(w, j)' = HopOwner(w, i)'
          /\ j = n \/ (j + 1 \in 1..n /\ WaitsFor(HopOwner(w, j), chain[w][j + 1].lock)')
  BY <1>2, <1>8 DEF HopOwner
<1>10. \A i \in 1..n : holder'[chain'[w][i].lock] = HopOwner(w, i)'
  BY <1>2, <1>4 DEF TrueChain, HopOwner
<1>11. n # 0 /\ chain'[w][1].lock = arg'[w] /\ n = Len(chain[w])'
  BY <1>1, <1>2, <1>4 DEF TrueChain
<1>12. WaitsFor(HopOwner(w, n), cur[w])' \/ holder'[cur'[w]] = HopOwner(w, n)'
  BY <1>2, <1>5, <1>7 DEF WaitsFor, HopOwner
<1> QED
  BY <1>2, <1>9, <1>10, <1>11, <1>12 DEF TrueChain

\* The walk adds an owner: one that holds the mutex, or one that is leaving.
LEMMA WalkTrueOwner ==
    ASSUME OrdinaryMutexes, NoFailures, Books, WalkTrue, NEW w \in Threads, LoadOwner(w),
           pc'[w] \in WalkPoints \cup {"exit66"}, Undisturbed(w)'
    PROVE  /\ pc'[w] \in WalkPoints => TrueChain(w)' \/ LeavingOwner(w)'
           /\ pc'[w] = "exit66" => InCircularWait(w)'
<1> DEFINE n == Len(chain[w])
           m == cur[w]
           o == owner[m]
           c == Append(chain[w], [lock |-> m, owner |-> o])
<1> USE ThreadsAssumption DEF Books, TypeInv
<1>1. /\ pc[w] = "load_owner" /\ m \in Locks
      /\ n \in Nat
      /\ \A i \in 1..n : chain[w][i].lock \in Locks /\ HopOwner(w, i) \in Threads
  BY ChainTypes DEF LoadOwner, TypeOK, WalkPoints
<1>2. /\ o \in Threads
      /\ chain' = [chain EXCEPT ![w] = c]
      /\ pc' = [pc EXCEPT ![w] = IF o = w THEN "exit66" ELSE "load_waiting"]
      /\ UNCHANGED <<holder, arg, cur, disturbed>>
  BY <1>1 DEF LoadOwner, EndWalk, Goto, mutexVars, TypeOK, WalkPoints
<1>3. /\ chain'[w] = c /\ Len(c) = n + 1 /\ c[n + 1] = [lock |-> m, owner |-> o]
      /\ \A i \in 1..n : c[i] = chain[w][i]
  BY <1>2 DEF TypeOK
<1>4. /\ Len(chain[w])' = n + 1
      /\ \A i \in 1..n : chain'[w][i] = chain[w][i] /\ HopOwner(w, i)' = HopOwner(w, i)
      /\ chain'[w][n + 1].lock = m /\ chain'[w][n + 1].owner = o
  BY <1>3 DEF HopOwner
<1> HIDE DEF c
<1>5. TrueChain(w)
  <2>1. Undisturbed(w)
    BY <1>1, <1>2, <1>4 DEF Undisturbed, HopOwner
  <2> QED
    BY <1>1, <2>1 DEF WalkTrue, LeavingOwner, WalkPoints
<1>6. pc'[w] \in {"load_waiting", "exit66"} /\ \A t \in Threads \ {w} : pc'[t] = pc[t]
  BY <1>2 DEF TypeOK
<1>7. holder[m] = o \/ pc[o] = "release"
  BY <1>1, <1>2 DEF OwnerBook
<1>8. CASE holder[m] # o
  <2>1. o # w /\ pc'[w] = "load_waiting" /\ pc'[o] = "release"
    BY <1>1, <1>2, <1>6, <1>7, <1>8 DEF TypeOK
  <2>2. HopOwner(w, Len(chain[w]))' = o
    BY <1>4 DEF HopOwner
  <2>3. LeavingOwner(w)'
    BY <2>1, <2>2 DEF LeavingOwner
  <2> QED  BY <2>1, <2>3
<1>9. CASE holder[m] = o
  <2> DEFINE own(i) == chain'[w][i].owner
             lk(i)  == chain'[w][i].lock
             p      == n + 1
  <2>1. \A i \in 1..p : holder[lk(i)] = own(i) /\ own(i) \in Threads
    <3> TAKE i \in 1..p
    <3>1. CASE i = p
      BY <1>2, <1>4, <1>9, <3>1
    <3>2. CASE i \in 1..n
      BY <1>1, <1>4, <1>5, <3>2 DEF TrueChain, HopOwner
    <3> QED  BY <1>1, <3>1, <3>2
  <2>2. lk(1) = arg[w]
    BY <1>1, <1>4, <1>5 DEF TrueChain
  <2>3. \A i \in 1..p : \E j \in 1..p :
          /\ own(j) = own(i)
          /\ j = p \/ (j + 1 \in 1..p /\ pc'[own(j)] \in WaitPoints /\ arg[own(j)] = lk(j + 1))
    <3> TAKE i \in 1..p
    <3>1. CASE i = p
      BY <3>1
    <3>2. CASE i \in 1..n
      <4>1. PICK j \in 1..n :
               /\ HopOwner(w, j) = HopOwner(w, i)
               /\ j = n \/ (j + 1 \in 1..n /\ WaitsFor(HopOwner(w, j), chain[w][j + 1].lock))
        BY <1>5, <3>2 DEF TrueChain
      <4>2. own(j) = own(i) /\ own(j) = HopOwner(w, j) /\ j \in 1..p
        BY <1>1, <1>4, <3>2, <4>1 DEF HopOwner
      <4>3. pc[own(j)] \in WaitPoints => pc'[own(j)] \in WaitPoints
        BY <1>1, <1>6, <4>2 DEF WaitPoints, WalkPoints
      <4>4. CASE j + 1 \in 1..n /\ WaitsFor(HopOwner(w, j), chain[w][j + 1].lock)
        <5>1. lk(j + 1) = chain[w][j + 1].lock /\ j + 1 \in 1..p
          BY <1>1, <1>4, <4>4
        <5> QED  BY <4>2, <4>3, <4>4, <5>1 DEF WaitsFor
      <4>5. CASE j = n
        <5>1. WaitsFor(own(j), m) \/ holder[m] = own(j)
          BY <1>1, <1>5, <4>2, <4>5 DEF TrueChain
        <5>2. CASE WaitsFor(own(j), m)
          <6>1. j + 1 = p /\ p \in 1..p /\ lk(j + 1) = m
            BY <1>1, <1>4, <4>5
          <6>2. pc'[own(j)] \in WaitPoints /\ arg[own(j)] = m
            BY <4>3, <5>2 DEF WaitsFor
          <6> QED  BY <4>2, <6>1, <6>2
        <5>3. CASE holder[m] = own(j)
          BY <1>1, <1>4, <1>9, <4>2, <5>3
        <5> QED  BY <5>1, <5>2, <5>3
      <4> QED  BY <4>1, <4>4, <4>5
    <3> QED  BY <1>1, <3>1, <3>2
  <2>4. CASE o = w
    <3> DEFINE S == {own(i) : i \in 1..p}
    <3>1. pc'[w] = "exit66" /\ own(p) = w /\ p \in 1..p /\ 1 \in 1..p
      BY <1>1, <1>2, <1>4, <1>6, <2>4 DEF TypeOK
    <3>2. w \in S /\ S \in SUBSET Threads
      BY <2>1, <3>1
    <3>3. ASSUME NEW t \in S
          PROVE  pc'[t] \in WaitPoints /\ holder[arg[t]] \in S
      <4>0. PICK i \in 1..p : t = own(i)
        BY <3>3
      <4>1. PICK j \in 1..p :
               /\ own(j) = own(i)
               /\ j = p \/ (j + 1 \in 1..p /\ pc'[own(j)] \in WaitPoints
                                             /\ arg[own(j)] = lk(j + 1))
        BY <2>3
      <4>2. CASE j = p
        BY <2>1, <2>2, <3>1, <4>0, <4>1, <4>2 DEF WaitPoints
      <4>3. CASE j # p
        BY <2>1, <4>0, <4>1, <4>3
      <4> QED  BY <4>2, <4>3
    <3> HIDE DEF S
    <3>4. PICK R \in SUBSET Threads : R = S
      BY <3>2
    <3>5. CircularWait(R)'
      BY <1>2, <3>2, <3>3, <3>4 DEF CircularWait, LockFails, NoFailures
    <3>6. InCircularWait(w)'
      BY <3>2, <3>4, <3>5 DEF InCircularWait
    <3> QED
      BY <3>1, <3>6 DEF WalkPoints
  <2>5. CASE o # w
    <3>1. pc'[w] = "load_waiting"
      BY <1>2, <1>6, <2>5 DEF TypeOK
    <3>2. \A i \in 1..p : holder'[chain'[w][i].lock] = HopOwner(w, i)'
      BY <1>2, <2>1 DEF HopOwner
    <3>3. \A i \in 1..p : \E j \in 1..p :
             /\ HopOwner(w, j)' = HopOwner(w, i)'
             /\ \/ j = p
                \/ j + 1 \in 1..p /\ WaitsFor(HopOwner(w, j), chain[w][j + 1].lock)'
      BY <1>2, <2>3 DEF HopOwner, WaitsFor
    <3>4. p # 0 /\ chain'[w][1].lock = arg'[w]
      BY <1>1, <1>2, <2>2
    <3>5. TrueChain(w)'
      BY <1>4, <3>1, <3>2, <3>3, <3>4 DEF TrueChain
    <3> QED  BY <3>1, <3>5
  <2> QED  BY <2>4, <2>5
<1> QED  BY <1>8, <1>9

\* Three steps of a thread lead into a walk or to its report.
LEMMA WalkEntered ==
    ASSUME OrdinaryMutexes, Books, [Next]_vars, NEW w \in Threads,
           pc'[w] \in WalkPoints \cup {"exit66"}
    PROVE  \/ LoadOwner(w) \/ LoadWaiting(w) \/ BeforeBlockingMutexLock(w)
           \/ pc'[w] = pc[w] /\ chain'[w] = chain[w] /\ disturbed[w] \subseteq disturbed'[w]
<1> USE DEF Books, TypeInv, WalkPoints
<1>1. CASE UNCHANGED vars \/ Exited
  BY <1>1 DEF Exited, vars, walkVars
<1>2. ASSUME NEW u \in Threads, Internal(u)
      PROVE  \/ LoadOwner(w) \/ LoadWaiting(w) \/ BeforeBlockingMutexLock(w)
             \/ pc'[w] = pc[w] /\ chain'[w] = chain[w] /\ disturbed[w] \subseteq disturbed'[w]
  <2>1. CASE (LoadOwner(u) \/ LoadWaiting(u)) /\ EndWalk(u)
    BY <2>1 DEF EndWalk, Goto, TypeOK
  <2>2. CASE (LoadOwner(u) \/ LoadWaiting(u)) /\ ~EndWalk(u)
    BY <2>2, WalkStep DEF LoadOwner, LoadWaiting
  <2>3. CASE ExitDeadlock(u) \/ HeldStackOverflow(u)
    BY <2>3 DEF ExitDeadlock, HeldStackOverflow, walkVars
  <2>4. CASE \/ RealLockTop(u) \/ RealLockTopFails(u) \/ AcquireTopLevelMutexFast(u)
             \/ BeforeBlockingMutexLock(u) \/ RealLock(u) \/ CancelWait(u)
             \/ PushHeldLockSlot(u) \/ PublishOwner(u) \/ ReleaseMutex(u)
    <3>1. u # w \/ BeforeBlockingMutexLock(w)
      BY <2>4 DEF RealLockTop, RealLockTopFails, AcquireTopLevelMutexFast, RealLock,
         CancelWait, PushHeldLockSlot, PublishOwner, ReleaseMutex, Return, Goto, TypeOK
    <3>2. u # w => pc'[w] = pc[w] /\ chain'[w] = chain[w]
      BY <2>4 DEF RealLockTop, RealLockTopFails, AcquireTopLevelMutexFast,
         BeforeBlockingMutexLock, RealLock, CancelWait, PushHeldLockSlot, PublishOwner,
         ReleaseMutex, Return, Goto, walkVars, TypeOK
    <3>3. UNCHANGED disturbed \/ Disturb(u)
      BY <2>4 DEF RealLockTop, RealLockTopFails, AcquireTopLevelMutexFast,
         BeforeBlockingMutexLock, RealLock, CancelWait, PushHeldLockSlot, PublishOwner,
         ReleaseMutex
    <3>4. disturbed[w] \subseteq disturbed'[w]
      BY <3>3 DEF Disturb
    <3> QED  BY <3>1, <3>2, <3>4
  <2>5. CASE Drain(u)
    BY <2>5 DEF Drain, HoldBook
  <2> QED
    BY <1>2, <2>1, <2>2, <2>3, <2>4, <2>5 DEF Internal
<1>3. ASSUME NEW u \in Threads, Call(u)
      PROVE  pc'[w] = pc[w] /\ chain'[w] = chain[w] /\ disturbed[w] \subseteq disturbed'[w]
  <2>1. CASE CondWake(u)
    BY <2>1 DEF CondWake, HoldBook
  <2>2. ASSUME NEW m \in Locks,
               \/ LockTop(u, m) \/ Trylock(u, m) \/ LockBusy(u, m) \/ RealUnlock(u, m)
        PROVE  pc'[w] = pc[w] /\ chain'[w] = chain[w] /\ disturbed[w] \subseteq disturbed'[w]
    BY <2>2 DEF LockTop, Trylock, LockBusy, RealUnlock, Goto, Disturb, walkVars, TypeOK
  <2>3. ASSUME NEW m \in Locks, CondWait(u, m) PROVE FALSE
    BY <2>3 DEF CondWait, OrdinaryMutexes
  <2> QED
    BY <1>3, <2>1, <2>2, <2>3 DEF Call
<1> QED
  BY <1>1, <1>2, <1>3 DEF Next

LEMMA WalkTrueStep ==
    ASSUME OrdinaryMutexes, NoFailures, Books, WalkTrue, [Next]_vars
    PROVE  WalkTrue'
<1>1. ASSUME NEW w \in Threads, pc'[w] \in WalkPoints, Undisturbed(w)'
      PROVE  TrueChain(w)' \/ LeavingOwner(w)'
  <2>1. CASE LoadOwner(w)
    BY <1>1, <2>1, WalkTrueOwner
  <2>2. CASE LoadWaiting(w)
    BY <1>1, <2>2, WalkTrueWaiting
  <2>3. CASE BeforeBlockingMutexLock(w)
    BY <2>3, WalkTrueBegin
  <2>4. CASE ~LoadOwner(w) /\ ~LoadWaiting(w) /\ ~BeforeBlockingMutexLock(w)
    <3>1. pc'[w] = pc[w]
      BY <1>1, <2>4, WalkEntered
    <3>2. chain'[w] = chain[w] /\ cur'[w] = cur[w]
      BY <1>1, <2>4, <3>1, WalkFrame
    <3> QED
      BY <1>1, <3>1, <3>2, WalkTrueElse
  <2> QED  BY <2>1, <2>2, <2>3, <2>4
<1>2. ASSUME NEW w \in Threads, pc'[w] = "exit66", Undisturbed(w)'
      PROVE  InCircularWait(w)'
  <2>1. CASE LoadOwner(w)
    BY <1>2, <2>1, WalkTrueOwner
  <2>2. ~LoadWaiting(w) /\ ~BeforeBlockingMutexLock(w)
    BY <1>2 DEF LoadWaiting, BeforeBlockingMutexLock, EndWalk, Goto, Books, TypeInv, TypeOK
  <2>3. CASE ~LoadOwner(w)
    <3>1. pc[w] = "exit66" /\ chain'[w] = chain[w] /\ disturbed[w] \subseteq disturbed'[w]
      BY <1>2, <2>2, <2>3, WalkEntered
    <3>2. Undisturbed(w)
      BY <1>2, <3>1 DEF Undisturbed, HopOwner
    <3>3. PICK S \in SUBSET Threads : w \in S /\ CircularWait(S)
      BY <3>1, <3>2 DEF WalkTrue, InCircularWait
    <3>4. CircularWait(S)'
      BY <3>3, CircularStable
    <3> QED
      BY <3>3, <3>4 DEF InCircularWait
  <2> QED  BY <2>1, <2>3
<1> QED
  BY <1>1, <1>2 DEF WalkTrue

\* When no thread on the reported chain released a mutex or gave up waiting while
\* the walk went on, the report is of a real deadlock, although the walk reads
\* the records of running threads one by one and without a lock
\* (lockdep_before_blocking_mutex_lock).
THEOREM UndisturbedReportIsReal ==
    ASSUME OrdinaryMutexes, NoFailures PROVE Spec => []ReportRealUnlessDisturbed
<1> DEFINE IInv == Books /\ WalkTrue
<1>1. Init => IInv
  <2>1. Init => WalkTrue
    BY DEF Init, WalkTrue, WalkPoints
  <2> QED
    BY <2>1, TypeInvInit, BooksInit DEF Books
<1>2. IInv /\ [Next]_vars => IInv'
  BY BooksStep, WalkTrueStep
<1>3. IInv => ReportRealUnlessDisturbed
  BY DEF WalkTrue, Undisturbed, HopOwner, ReportRealUnlessDisturbed
<1> QED
  BY <1>1, <1>2, <1>3, PTL DEF Spec

=============================================================================
