---------------------------- MODULE CallSitesProofs ----------------------------
(***************************************************************************)
(* Call sites, for every number of threads, mutexes and sites: recording   *)
(* them leaves the detector what it is, and for mutexes that are neither   *)
(* recursive nor handed to pthread_cond_wait a recorded site is right or   *)
(* unknown, goes with its record, and is shown beside nothing else.        *)
(***************************************************************************)
EXTENDS CallSites, ActualDeadlockProofs

allVars == <<vars, siteVars>>

-----------------------------------------------------------------------------
(* The detector under the sites. *)

LEMMA SitesStep == [SitesNext]_allVars => [Next]_vars
<1> SUFFICES ASSUME [SitesNext]_allVars PROVE [Next]_vars
  OBVIOUS
<1>1. ASSUME NEW t \in Threads, LockStep(t), status = "running" PROVE Next
  BY <1>1 DEF LockStep, Next
<1>2. ASSUME NEW t \in Threads, SiteStep(t) PROVE UNCHANGED vars
  BY <1>2 DEF SiteStep
<1>3. CASE Exited
  BY <1>3 DEF Next
<1>4. CASE UNCHANGED allVars
  BY <1>4 DEF allVars
<1> QED  BY <1>1, <1>2, <1>3, <1>4 DEF SitesNext

\* Recording call sites changes nothing about locks, waits and the walk: what is
\* proved of the detector holds of it with call sites.
THEOREM SitesKeepDetector == SitesSpec => Spec
<1>1. SitesInit => Init
  BY DEF SitesInit
<1> QED
  BY <1>1, SitesStep, PTL DEF SitesSpec, Spec, allVars

-----------------------------------------------------------------------------
(* What the steps of the detector do, for ordinary mutexes. *)

Place(t, from, to) == pc[t] \in from /\ pc'[t] \in to

Stays(t) == UNCHANGED <<holder, depth, owner>> /\ arg'[t] = arg[t]

Enters(t) ==
    /\ UNCHANGED <<holder, depth, owner>>
    /\ Place(t, {"idle"}, {"top_lock", "before_block"})

Gets(t) ==
    /\ arg'[t] \in Locks /\ holder[arg'[t]] = NoThread
    /\ holder' = [holder EXCEPT ![arg'[t]] = t]
    /\ depth' = [depth EXCEPT ![arg'[t]] = depth[arg'[t]] + 1]
    /\ UNCHANGED owner
    /\ \/ Place(t, {"idle"}, {"top_acquire", "acquire"})
       \/ Place(t, {"top_lock"}, {"top_acquire"}) /\ arg'[t] = arg[t]
       \/ Place(t, {"real_lock"}, {"acquire_wait"}) /\ arg'[t] = arg[t]

Walks(t) ==
    /\ Stays(t)
    /\ \/ Place(t, {"before_block"}, {"load_owner"})
       \/ Place(t, {"load_owner"}, {"load_waiting", "real_lock"})
       \/ /\ Place(t, {"load_owner"}, {"exit66"})
          /\ chain'[t] \in Seq(Hop) /\ Len(chain'[t]) > 0
          /\ chain'[t][Len(chain'[t])].owner = t
       \/ Place(t, {"load_waiting"}, {"load_owner", "real_lock"})

Stops(t) ==
    /\ Stays(t) /\ chain'[t] = chain[t] /\ status' # "running"
    /\ \/ Place(t, {"exit66"}, {"exit66"})
       \/ Place(t, {"acquire"}, {"acquire"})
       \/ Place(t, {"acquire_wait"}, {"acquire_wait"})

Pushes(t) == Stays(t) /\ Place(t, {"acquire", "acquire_wait"}, {"store_owner"})

Publishes(t) ==
    /\ UNCHANGED <<holder, depth>> /\ arg[t] \in Locks
    /\ owner' = [owner EXCEPT ![arg[t]] = t]
    /\ Place(t, {"top_acquire", "store_owner"}, {"idle"})

Fails(t) ==
    /\ UNCHANGED <<holder, depth, owner>>
    /\ Place(t, {"top_lock", "real_lock"}, {"idle"})

Unlocks(t) ==
    /\ arg'[t] \in Locks /\ holder[arg'[t]] = t
    /\ holder' = [holder EXCEPT ![arg'[t]] = NoThread]
    /\ depth' = [depth EXCEPT ![arg'[t]] = depth[arg'[t]] - 1]
    /\ UNCHANGED owner
    /\ Place(t, {"idle"}, {"release"})

Disowns(t) ==
    /\ UNCHANGED <<holder, depth>> /\ arg[t] \in Locks
    /\ owner' = [owner EXCEPT ![arg[t]] = IF owner[arg[t]] = t THEN NoThread ELSE @]
    /\ Place(t, {"release"}, {"idle"})

Moves(t) ==
    \/ Enters(t) \/ Gets(t) \/ Walks(t) \/ Stops(t) \/ Pushes(t) \/ Publishes(t)
    \/ Fails(t) \/ Unlocks(t) \/ Disowns(t)

LEMMA LockStepMoves ==
    ASSUME OrdinaryMutexes, Books, NEW t \in Threads, Internal(t) \/ Call(t)
    PROVE  /\ Moves(t)
           /\ \A u \in Threads \ {t} :
                 pc'[u] = pc[u] /\ arg'[u] = arg[u] /\ chain'[u] = chain[u]
<1> USE ThreadsAssumption, LocksAssumption
        DEF Goto, Return, mutexVars, walkVars, Place, Stays, Books, TypeInv, TypeOK
<1> DEFINE Others == \A u \in Threads \ {t} :
                        pc'[u] = pc[u] /\ arg'[u] = arg[u] /\ chain'[u] = chain[u]
<1>1. CASE RealLockTop(t)
  BY <1>1 DEF RealLockTop, RealAcquire, Gets, Moves
<1>2. CASE RealLockTopFails(t)
  BY <1>2 DEF RealLockTopFails, Fails, Moves
<1>3. CASE AcquireTopLevelMutexFast(t)
  BY <1>3 DEF AcquireTopLevelMutexFast, StoreOwner, OrdinaryMutexes, Publishes, Moves
<1>4. CASE BeforeBlockingMutexLock(t)
  BY <1>4 DEF BeforeBlockingMutexLock, Walks, Moves
<1>5. CASE LoadOwner(t)
  <2>1. CASE owner[cur[t]] = NoThread
    BY <1>5, <2>1 DEF LoadOwner, EndWalk, Walks, Moves
  <2>2. CASE owner[cur[t]] # NoThread
    <3> DEFINE hop == [lock |-> cur[t], owner |-> owner[cur[t]]]
    <3>1. /\ UNCHANGED <<holder, depth, owner, arg>>
          /\ chain' = [chain EXCEPT ![t] = Append(@, hop)]
          /\ pc[t] = "load_owner"
          /\ pc' = [pc EXCEPT ![t] = IF owner[cur[t]] = t THEN "exit66" ELSE "load_waiting"]
      BY <1>5, <2>2 DEF LoadOwner
    <3>2. hop \in Hop
      <4>1. cur[t] \in Locks
        BY <3>1 DEF WalkPoints
      <4> QED  BY <2>2, <4>1 DEF Hop
    <3>3. chain'[t] \in Seq(Hop) /\ Len(chain'[t]) > 0 /\ chain'[t][Len(chain'[t])] = hop
      <4>1. chain'[t] = Append(chain[t], hop) /\ chain[t] \in Seq(Hop)
        BY <3>1
      <4> HIDE DEF hop
      <4> QED  BY <3>2, <4>1
    <3>4. Others
      BY <3>1
    <3>5. Walks(t)
      <4>1. CASE owner[cur[t]] = t
        <5>1. Place(t, {"load_owner"}, {"exit66"}) /\ hop.owner = t
          BY <3>1, <4>1
        <5> QED  BY <3>1, <3>3, <5>1 DEF Walks
      <4>2. CASE owner[cur[t]] # t
        BY <3>1, <4>2 DEF Walks
      <4> QED  BY <4>1, <4>2
    <3> QED  BY <3>4, <3>5 DEF Moves
  <2> QED  BY <2>1, <2>2
<1>6. CASE LoadWaiting(t)
  BY <1>6 DEF LoadWaiting, EndWalk, Walks, Moves
<1>7. CASE ExitDeadlock(t)
  BY <1>7 DEF ExitDeadlock, Stops, Moves
<1>8. CASE RealLock(t)
  BY <1>8 DEF RealLock, TrylockSucceeds, OrdinaryMutexes, RealAcquire, Gets, Moves
<1>9. CASE CancelWait(t)
  BY <1>9 DEF CancelWait, Fails, Moves
<1>10. CASE PushHeldLockSlot(t)
  BY <1>10 DEF PushHeldLockSlot, Pushes, Moves
<1>11. CASE HeldStackOverflow(t)
  BY <1>11 DEF HeldStackOverflow, Stops, Moves
<1>12. CASE PublishOwner(t)
  BY <1>12 DEF PublishOwner, StoreOwner, OrdinaryMutexes, Publishes, Moves
<1>13. CASE ReleaseMutex(t)
  BY <1>13 DEF ReleaseMutex, ClearOwner, Disowns, Moves
<1>14. CASE Drain(t)
  BY <1>14 DEF Drain, HoldBook
<1>15. ASSUME NEW m \in Locks, LockTop(t, m) \/ LockBusy(t, m) PROVE Moves(t) /\ Others
  BY <1>15 DEF LockTop, LockBusy, Enters, Moves
<1>16. ASSUME NEW m \in Locks, Trylock(t, m) PROVE Moves(t) /\ Others
  BY <1>16 DEF Trylock, TrylockSucceeds, OrdinaryMutexes, RealAcquire, Gets, Moves
<1>17. ASSUME NEW m \in Locks, RealUnlock(t, m) PROVE Moves(t) /\ Others
  <2>1. depth[m] = 1
    BY <1>17 DEF RealUnlock, HoldBook, DepthOK
  <2> QED  BY <1>17, <2>1 DEF RealUnlock, RealRelease, Unlocks, Moves
<1>18. ASSUME NEW m \in Locks, CondWait(t, m) PROVE FALSE
  BY <1>18 DEF CondWait, OrdinaryMutexes
<1>19. CASE CondWake(t)
  BY <1>19 DEF CondWake, HoldBook
<1> HIDE DEF Others
<1>20. CASE Internal(t)
  BY <1>1, <1>2, <1>3, <1>4, <1>5, <1>6, <1>7, <1>8, <1>9, <1>10, <1>11, <1>12, <1>13,
     <1>14, <1>20 DEF Internal, Others
<1>21. CASE Call(t)
  BY <1>15, <1>16, <1>17, <1>18, <1>19, <1>21 DEF Call, Others
<1> QED  BY <1>20, <1>21 DEF Others

-----------------------------------------------------------------------------
(* The accesses that follow a step. *)

Access ==
    [op : {"store_wait"}, thread : Threads, site : Sites \cup {NoSite}]
        \cup [op : {"store_owner"}, lock : Locks, site : Sites \cup {NoSite}]
        \cup [op : {"read_wait"}, thread : Threads]
        \cup [op : {"read_owner"}, lock : Locks]

LEMMA EmptyConcat ==
    ASSUME NEW S, NEW s \in Seq(S)
    PROVE  << >> \o s = s /\ s \o << >> = s
  OBVIOUS

LEMMA PairConcat ==
    ASSUME NEW S, NEW a \in S, NEW b \in S
    PROVE  <<a>> \o <<b>> = <<a, b>>
<1> DEFINE c == <<a>> \o <<b>>
<1>1. <<a>> \in Seq(S) /\ <<b>> \in Seq(S)
  OBVIOUS
<1>2. c \in Seq(S) /\ Len(c) = 2 /\ c[1] = a /\ c[2] = b
  BY <1>1
<1>3. <<a, b>> \in Seq(S) /\ Len(<<a, b>>) = 2
  OBVIOUS
<1> HIDE DEF c
<1>4. c = <<a, b>>
  BY <1>2, <1>3
<1> QED  BY <1>4 DEF c

\* What t's report reads k-th.
Printed(t, k) ==
    IF k % 2 = 1 THEN ReadWait(Waiter(t, (k + 1) \div 2))
                 ELSE ReadOwn(chain[t][(k + 1) \div 2].lock)

\* A report that has reads left: the last ones of the chain, in order.
PrintsChain(t) ==
    /\ Len(chain[t]) > 0 /\ chain[t][Len(chain[t])].owner = t
    /\ Len(due[t]) <= 2 * Len(chain[t])
    /\ \A j \in 1..Len(due[t]) : due[t][j] = Printed(t, 2 * Len(chain[t]) - Len(due[t]) + j)

\* Where a thread has accesses to make, and which.
DuePlaces(t) ==
    /\ pc[t] = "idle" =>
          \/ due[t] \in {<< >>, <<StoreWait(t, NoSite)>>}
          \/ \E l \in Locks : due[t] = <<StoreOwn(l, NoSite)>>
    /\ pc[t] = "load_owner" => due[t] \in {<< >>, <<StoreWait(t, site[t])>>}
    /\ pc[t] = "top_acquire" => due[t] \in {<< >>, <<StoreOwn(arg[t], site[t])>>}
    /\ pc[t] = "store_owner" =>
          due[t] \in {<< >>, <<StoreOwn(arg[t], site[t])>>,
                      <<StoreWait(t, NoSite), StoreOwn(arg[t], site[t])>>}
    /\ pc[t] = "exit66" => PrintsChain(t)
    /\ pc[t] = "acquire_wait" => due[t] = << >> \/ status # "running"
    /\ pc[t] \notin {"idle", "load_owner", "top_acquire", "store_owner", "exit66",
                     "acquire_wait"} => due[t] = << >>

\* What a step leaves to be done.
LEMMA FollowsMoves ==
    ASSUME Books, Books', NEW t \in Threads, Moves(t), sitesOn,
           site[t] \in Sites \cup {NoSite}, site'[t] \in Sites \cup {NoSite}
    PROVE  /\ Follows(t) \in Seq(Access)
           /\ Enters(t) \/ Unlocks(t) \/ Publishes(t) => Follows(t) = << >>
           /\ Gets(t) => Follows(t) = IF pc'[t] = "top_acquire"
                                      THEN <<StoreOwn(arg'[t], site'[t])>> ELSE << >>
           /\ Walks(t) /\ pc'[t] # "exit66" =>
                 Follows(t) = IF pc[t] = "before_block" THEN <<StoreWait(t, site[t])>> ELSE << >>
           /\ Walks(t) /\ pc'[t] = "exit66" => Follows(t) = ReportReads(t)
           /\ Stops(t) => pc[t] = "acquire_wait" \/ Follows(t) = << >>
           /\ Pushes(t) => Follows(t) = IF pc[t] = "acquire_wait"
                                        THEN <<StoreWait(t, NoSite), StoreOwn(arg'[t], site'[t])>>
                                        ELSE <<StoreOwn(arg'[t], site'[t])>>
           /\ Fails(t) => Follows(t) = IF pc[t] = "real_lock" THEN <<StoreWait(t, NoSite)>>
                                       ELSE << >>
           /\ Disowns(t) => Follows(t) = IF owner[arg[t]] = t THEN <<StoreOwn(arg[t], NoSite)>>
                                         ELSE << >>
<1> DEFINE W == WaitPcFollows(t)
           O == StoreOwnerPc(t)
           C == ClearOwnerPc(t)
           R == ReportReads(t)
<1>1. /\ W = IF pc[t] = "before_block" THEN <<StoreWait(t, site[t])>>
             ELSE IF pc[t] = "acquire_wait" \/ (pc[t] = "real_lock" /\ pc'[t] = "idle")
                  THEN <<StoreWait(t, NoSite)>> ELSE << >>
      /\ O = IF pc'[t] \in {"top_acquire", "store_owner"}
             THEN <<StoreOwn(arg'[t], site'[t])>> ELSE << >>
      /\ C = IF pc[t] = "release" /\ owner[arg[t]] = t THEN <<StoreOwn(arg[t], NoSite)>> ELSE << >>
      /\ ~(pc[t] = "load_owner" /\ pc'[t] = "exit66") => R = << >>
  BY DEF WaitPcFollows, StoreOwnerPc, ClearOwnerPc, ReportReads
<1>2. /\ pc[t] = "release" => arg[t] \in Locks
      /\ pc'[t] \in {"top_acquire", "store_owner"} => arg'[t] \in Locks
  BY DEF Books, TypeInv, TypeOK
<1>3. /\ StoreWait(t, site[t]) \in Access /\ StoreWait(t, NoSite) \in Access
      /\ pc'[t] \in {"top_acquire", "store_owner"} => StoreOwn(arg'[t], site'[t]) \in Access
      /\ pc[t] = "release" => StoreOwn(arg[t], NoSite) \in Access
  BY <1>2 DEF Access, StoreWait, StoreOwn
<1>4. W \in Seq(Access) /\ O \in Seq(Access) /\ C \in Seq(Access)
  BY <1>1, <1>3
<1>5. R \in Seq(Access)
  <2>1. CASE ~(pc[t] = "load_owner" /\ pc'[t] = "exit66")
    BY <1>1, <2>1
  <2>2. CASE pc[t] = "load_owner" /\ pc'[t] = "exit66"
    <3> DEFINE n == Len(chain'[t])
               waiters == [i \in 1..n |-> IF i = 1 THEN t ELSE chain'[t][i - 1].owner]
    <3>1. chain'[t] \in Seq(Hop)
      BY DEF Books, TypeInv, TypeOK
    <3>2. n \in Nat /\ \A i \in 1..n : chain'[t][i] \in Hop
      BY <3>1
    <3>3. \A i \in 1..n : waiters[i] \in Threads /\ chain'[t][i].lock \in Locks
      BY <3>2 DEF Hop
    <3>4. R = HopReads(chain'[t], waiters)
      BY <2>2 DEF ReportReads
    <3>5. \A k \in 1..(2 * n) : (k + 1) \div 2 \in 1..n
      BY <3>2
    <3> HIDE DEF waiters
    <3>6. R = [k \in 1..(2 * n) |->
                  IF k % 2 = 1 THEN ReadWait(waiters[(k + 1) \div 2])
                  ELSE ReadOwn(chain'[t][(k + 1) \div 2].lock)]
      BY <3>4 DEF HopReads
    <3>7. R \in [1..(2 * n) -> Access]
      <4>1. ASSUME NEW k \in 1..(2 * n)
            PROVE  /\ ReadWait(waiters[(k + 1) \div 2]) \in Access
                   /\ ReadOwn(chain'[t][(k + 1) \div 2].lock) \in Access
        BY <3>3, <3>5 DEF Access, ReadWait, ReadOwn
      <4> HIDE DEF R, n
      <4> QED  BY <3>6, <4>1
    <3>8. 2 * n \in Nat
      BY <3>2
    <3> HIDE DEF R, n
    <3> QED  BY <3>7, <3>8
  <2> QED  BY <2>1, <2>2
<1>6. Follows(t) = ((W \o O) \o C) \o R
  BY DEF Follows
<1>7. /\ Follows(t) \in Seq(Access)
      /\ O = << >> /\ C = << >> /\ R = << >> => Follows(t) = W
      /\ W = << >> /\ C = << >> /\ R = << >> => Follows(t) = O
      /\ W = << >> /\ O = << >> /\ R = << >> => Follows(t) = C
      /\ W = << >> /\ O = << >> /\ C = << >> => Follows(t) = R
      /\ C = << >> /\ R = << >> => Follows(t) = W \o O
  <2> HIDE DEF W, O, C, R
  <2>1. W \o O \in Seq(Access) /\ (W \o O) \o C \in Seq(Access)
    BY <1>4
  <2>2. Follows(t) \in Seq(Access)
    BY <1>5, <1>6, <2>1
  <2>3. \A s \in Seq(Access) : << >> \o s = s /\ s \o << >> = s
    BY EmptyConcat
  <2> HIDE DEF Access
  <2>4. << >> \in Seq(Access)
    OBVIOUS
  <2>5. O = << >> /\ C = << >> /\ R = << >> => Follows(t) = W
    BY <1>4, <1>6, <2>3
  <2>6. W = << >> /\ C = << >> /\ R = << >> => Follows(t) = O
    BY <1>4, <1>6, <2>3
  <2>7. W = << >> /\ O = << >> /\ R = << >> => Follows(t) = C
    BY <1>4, <1>6, <2>3, <2>4
  <2>8. W = << >> /\ O = << >> /\ C = << >> => Follows(t) = R
    BY <1>5, <1>6, <2>3, <2>4
  <2>9. C = << >> /\ R = << >> => Follows(t) = W \o O
    BY <1>6, <2>1, <2>3
  <2> QED  BY <2>2, <2>5, <2>6, <2>7, <2>8, <2>9
<1> HIDE DEF W, O, C, R
<1>8. Enters(t) \/ Unlocks(t) \/ Publishes(t) => Follows(t) = << >>
  BY <1>1, <1>7 DEF Enters, Unlocks, Publishes, Place
<1>9. Gets(t) => Follows(t) = O
  BY <1>1, <1>7 DEF Gets, Place
<1>10. Walks(t) /\ pc'[t] # "exit66" => Follows(t) = W
  BY <1>1, <1>7 DEF Walks, Place
<1>11. Walks(t) /\ pc'[t] = "exit66" => Follows(t) = R
  BY <1>1, <1>7 DEF Walks, Place
<1>12. Stops(t) => pc[t] = "acquire_wait" \/ Follows(t) = << >>
  BY <1>1, <1>7 DEF Stops, Place
<1>13. Pushes(t) => Follows(t) = W \o O
  BY <1>1, <1>7 DEF Pushes, Place
<1>14. Fails(t) => Follows(t) = W
  BY <1>1, <1>7 DEF Fails, Place
<1>15. Disowns(t) => Follows(t) = C
  BY <1>1, <1>7 DEF Disowns, Place
<1>16. Pushes(t) => Follows(t) = IF pc[t] = "acquire_wait"
                        THEN <<StoreWait(t, NoSite), StoreOwn(arg'[t], site'[t])>>
                        ELSE <<StoreOwn(arg'[t], site'[t])>>
  <2> SUFFICES ASSUME Pushes(t)
               PROVE  W \o O = IF pc[t] = "acquire_wait"
                        THEN <<StoreWait(t, NoSite), StoreOwn(arg'[t], site'[t])>>
                        ELSE <<StoreOwn(arg'[t], site'[t])>>
    BY <1>13
  <2>1. O = <<StoreOwn(arg'[t], site'[t])>> /\ StoreOwn(arg'[t], site'[t]) \in Access
    BY <1>1, <1>3 DEF Pushes, Place
  <2>2. CASE pc[t] = "acquire_wait"
    <3>1. W = <<StoreWait(t, NoSite)>>
      BY <1>1, <2>2
    <3> HIDE DEF Access
    <3> QED  BY <1>3, <2>1, <2>2, <3>1, PairConcat
  <2>3. CASE pc[t] # "acquire_wait"
    <3>1. W = << >>
      BY <1>1, <2>3 DEF Pushes, Place
    <3> QED  BY <1>4, <2>1, <2>3, <3>1, EmptyConcat
  <2> QED  BY <2>2, <2>3
<1>17. Gets(t) => Follows(t) = IF pc'[t] = "top_acquire"
                               THEN <<StoreOwn(arg'[t], site'[t])>> ELSE << >>
  BY <1>1, <1>9 DEF Gets, Place
<1>18. Walks(t) /\ pc'[t] # "exit66" =>
          Follows(t) = IF pc[t] = "before_block" THEN <<StoreWait(t, site[t])>> ELSE << >>
  BY <1>1, <1>10 DEF Walks, Place
<1>19. Fails(t) => Follows(t) = IF pc[t] = "real_lock" THEN <<StoreWait(t, NoSite)>> ELSE << >>
  BY <1>1, <1>14 DEF Fails, Place
<1>20. Disowns(t) => Follows(t) = IF owner[arg[t]] = t THEN <<StoreOwn(arg[t], NoSite)>>
                                  ELSE << >>
  BY <1>1, <1>15 DEF Disowns, Place
<1> QED
  BY <1>7, <1>8, <1>11, <1>12, <1>16, <1>17, <1>18, <1>19, <1>20 DEF R

-----------------------------------------------------------------------------
(* The books of the sites. *)

SiteTypes ==
    /\ sitesOn  \in BOOLEAN
    /\ site     \in [Threads -> Sites \cup {NoSite}]
    /\ ownerPc  \in [Locks -> Sites \cup {NoSite}]
    /\ waitPc   \in [Threads -> Sites \cup {NoSite}]
    /\ due      \in [Threads -> Seq(Access)]
    /\ wrong    \in [Threads -> BOOLEAN]
    /\ lockedAt \in [Threads -> [Locks -> Sites \cup {NoSite}]]

SitesOff ==
    ~sitesOn =>
        /\ \A t \in Threads : due[t] = << >> /\ site[t] = NoSite /\ waitPc[t] = NoSite
        /\ \A m \in Locks : ownerPc[m] = NoSite

\* The site of a wait is there from the store that follows the wait's to the one
\* that follows its end.
WaitSite(t) ==
    LET waits == WaitPoints \cup {"acquire_wait"} IN
    /\ pc[t] \in waits \ {"load_owner"} => waitPc[t] = site[t]
    /\ pc[t] = "load_owner" => waitPc[t] = IF due[t] = << >> THEN site[t] ELSE NoSite
    /\ pc[t] \notin waits =>
          waitPc[t] = NoSite \/ (due[t] # << >> /\ due[t][1] = StoreWait(t, NoSite))

AcquireSite(t) == pc[t] \in AcquirePoints => lockedAt[t][arg[t]] = site[t]

\* Who holds a mutex has stored its site, which only a late clear can have erased,
\* or has not yet, nor the owner.
OwnerSite(t, m) ==
    holder[m] = t =>
        \/ /\ arg[t] = m /\ owner[m] # t
           /\ \/ pc[t] \in {"acquire", "acquire_wait"}
              \/ pc[t] \in {"top_acquire", "store_owner"} /\ due[t] # << >>
        \/ ownerPc[m] \in {NoSite, lockedAt[t][m]}

FreeSite(m) ==
    holder[m] = NoThread /\ owner[m] = NoThread =>
        ownerPc[m] = NoSite \/ \E t \in Threads : due[t] = <<StoreOwn(m, NoSite)>>

SiteBook ==
    /\ SiteTypes
    /\ SitesOff
    /\ \A t \in Threads : DuePlaces(t) /\ WaitSite(t) /\ AcquireSite(t)
    /\ \A t \in Threads, m \in Locks : OwnerSite(t, m)
    /\ \A m \in Locks : FreeSite(m)
    /\ ReportShowsRightSites

LEMMA SiteBookInit == SitesInit => SiteBook
<1> SUFFICES ASSUME SitesInit PROVE SiteBook
  OBVIOUS
<1> USE ThreadsAssumption, LocksAssumption, SitesAssumption DEF SitesInit, Init
<1>1. SiteTypes
  <2>1. << >> \in Seq(Access)
    OBVIOUS
  <2> HIDE DEF Access
  <2> QED  BY <2>1 DEF SiteTypes
<1>2. SitesOff /\ ReportShowsRightSites
  BY DEF SitesOff, ReportShowsRightSites
<1>3. \A t \in Threads : DuePlaces(t) /\ WaitSite(t) /\ AcquireSite(t)
  BY DEF DuePlaces, WaitSite, AcquireSite, WaitPoints, WalkPoints, AcquirePoints
<1>4. \A t \in Threads, m \in Locks : OwnerSite(t, m) /\ FreeSite(m)
  BY DEF OwnerSite, FreeSite
<1> QED  BY <1>1, <1>2, <1>3, <1>4 DEF SiteBook, FreeSite

-----------------------------------------------------------------------------
(* An access to a site. *)

StoresWait(t) ==
    /\ UNCHANGED <<ownerPc, wrong>>
    /\ \/ /\ pc[t] = "load_owner" /\ due[t] = <<StoreWait(t, site[t])>> /\ due'[t] = << >>
          /\ waitPc' = [waitPc EXCEPT ![t] = site[t]]
       \/ /\ pc[t] = "idle" /\ due[t] = <<StoreWait(t, NoSite)>> /\ due'[t] = << >>
          /\ waitPc' = [waitPc EXCEPT ![t] = NoSite]
       \/ /\ pc[t] = "store_owner" /\ due'[t] = <<StoreOwn(arg[t], site[t])>>
          /\ due[t] = <<StoreWait(t, NoSite), StoreOwn(arg[t], site[t])>>
          /\ waitPc' = [waitPc EXCEPT ![t] = NoSite]

StoresOwn(t) ==
    /\ UNCHANGED <<waitPc, wrong>> /\ due'[t] = << >>
    /\ \/ /\ pc[t] = "idle"
          /\ \E l \in Locks : /\ due[t] = <<StoreOwn(l, NoSite)>>
                              /\ ownerPc' = [ownerPc EXCEPT ![l] = NoSite]
       \/ /\ pc[t] \in {"top_acquire", "store_owner"}
          /\ due[t] = <<StoreOwn(arg[t], site[t])>>
          /\ ownerPc' = [ownerPc EXCEPT ![arg[t]] = site[t]]

Reads(t) ==
    /\ UNCHANGED <<waitPc, ownerPc>> /\ pc[t] = "exit66"
    /\ due'[t] = Tail(due[t]) /\ due[t] # << >>

LEMMA FirstRead ==
    ASSUME NEW t, due[t] \in Seq(Access), due[t] # << >>, PrintsChain(t)
    PROVE  /\ Head(due[t]) = due[t][1]
           /\ Head(due[t]) = Printed(t, 2 * Len(chain[t]) - Len(due[t]) + 1)
           /\ Head(due[t]).op \in {"read_wait", "read_owner"}
<1>1. Head(due[t]) = due[t][1] /\ 1 \in 1..Len(due[t])
  <2> HIDE DEF Access
  <2> QED  OBVIOUS
<1>2. due[t][1] = Printed(t, 2 * Len(chain[t]) - Len(due[t]) + 1)
  BY <1>1 DEF PrintsChain
<1>3. \A k : Printed(t, k).op \in {"read_wait", "read_owner"}
  <2>1. \A u : ReadWait(u).op = "read_wait"
    BY DEF ReadWait
  <2>2. \A l : ReadOwn(l).op = "read_owner"
    BY DEF ReadOwn
  <2> QED  BY <2>1, <2>2 DEF Printed
<1> QED  BY <1>1, <1>2, <1>3

\* A store is not a read, and its fields say what is stored.
LEMMA StoresAccess ==
    ASSUME NEW t, NEW a, a.op \notin {"read_wait", "read_owner"},
           StoreSite(t, a) \/ ReadSite(t, a)
    PROVE  /\ UNCHANGED wrong
           /\ a.op = "store_wait" =>
                 waitPc' = [waitPc EXCEPT ![a.thread] = a.site] /\ UNCHANGED ownerPc
           /\ a.op = "store_owner" =>
                 ownerPc' = [ownerPc EXCEPT ![a.lock] = a.site] /\ UNCHANGED waitPc
<1>1. ~ReadSite(t, a)
  BY DEF ReadSite
<1> QED  BY <1>1 DEF StoreSite

LEMMA Singles ==
    /\ \A a : <<a>> # << >> /\ <<a>>[1] = a /\ Head(<<a>>) = a /\ Tail(<<a>>) = << >>
    /\ \A a, b : <<a, b>> # << >> /\ <<a, b>>[1] = a /\ Head(<<a, b>>) = a
                /\ Tail(<<a, b>>) = <<b>> /\ Len(<<a, b>>) = 2
    /\ \A a, b : <<a>> = <<b>> => a = b
  OBVIOUS

LEMMA StoreFields ==
    /\ \A u, s : /\ StoreWait(u, s).op = "store_wait" /\ StoreWait(u, s).thread = u
                 /\ StoreWait(u, s).site = s
    /\ \A l, s : /\ StoreOwn(l, s).op = "store_owner" /\ StoreOwn(l, s).lock = l
                 /\ StoreOwn(l, s).site = s
  BY DEF StoreWait, StoreOwn

LEMMA SiteStepMoves ==
    ASSUME Books, SiteBook, status = "running", NEW t \in Threads, SiteStep(t)
    PROVE  /\ UNCHANGED <<vars, sitesOn, site, lockedAt>>
           /\ \A u \in Threads \ {t} : due'[u] = due[u]
           /\ due' \in [Threads -> Seq(Access)]
           /\ StoresWait(t) \/ StoresOwn(t) \/ (Reads(t) /\ ReadSite(t, Head(due[t])))
<1>1. /\ due[t] # << >> /\ due[t] \in Seq(Access)
      /\ StoreSite(t, Head(due[t])) \/ ReadSite(t, Head(due[t]))
      /\ due' = [due EXCEPT ![t] = Tail(due[t])]
      /\ UNCHANGED <<vars, sitesOn, site, lockedAt>>
      /\ DuePlaces(t)
  BY DEF SiteStep, SiteBook, SiteTypes
<1>2. /\ \A u \in Threads \ {t} : due'[u] = due[u]
      /\ due'[t] = Tail(due[t])
      /\ due' \in [Threads -> Seq(Access)]
  <2>1. Tail(due[t]) \in Seq(Access)
    <3> HIDE DEF Access
    <3> QED  BY <1>1
  <2> HIDE DEF Access
  <2> QED  BY <1>1, <2>1 DEF SiteBook, SiteTypes
<1>3. pc[t] = "exit66" => Head(due[t]).op \in {"read_wait", "read_owner"}
  <2> SUFFICES ASSUME pc[t] = "exit66" PROVE Head(due[t]).op \in {"read_wait", "read_owner"}
    OBVIOUS
  <2>1. PrintsChain(t)
    BY <1>1 DEF DuePlaces
  <2> QED  BY <1>1, <2>1, FirstRead
<1>4. CASE pc[t] = "exit66"
  <2>1. ReadSite(t, Head(due[t]))
    BY <1>1, <1>4, <1>3 DEF StoreSite
  <2> QED  BY <1>1, <1>2, <1>4, <2>1 DEF Reads, ReadSite
<1>5. CASE \E s \in Sites \cup {NoSite} : due[t] = <<StoreWait(t, s)>>
  <2>1. PICK s \in Sites \cup {NoSite} : due[t] = <<StoreWait(t, s)>>
    BY <1>5
  <2>2. /\ Head(due[t]) = StoreWait(t, s) /\ Tail(due[t]) = << >>
        /\ due[t][1] = StoreWait(t, s) /\ Len(due[t]) = 1
    BY <2>1
  <2>3. UNCHANGED <<ownerPc, wrong>> /\ waitPc' = [waitPc EXCEPT ![t] = s]
    BY <1>1, <2>2, StoresAccess, StoreFields
  <2>4. pc[t] \notin {"top_acquire", "store_owner", "exit66"} /\ due[t] # << >>
    <3>1. pc[t] \notin {"top_acquire", "store_owner"}
      BY <1>1, <2>1, <2>2, Singles, StoreFields DEF DuePlaces
    <3>2. pc[t] # "exit66"
      BY <1>3, <2>2, StoreFields
    <3> QED  BY <3>1, <3>2, <1>1
  <2>5. \/ pc[t] = "idle" /\ s = NoSite
        \/ pc[t] = "load_owner" /\ s = site[t]
    BY <1>1, <2>1, <2>2, <2>4, Singles, StoreFields DEF DuePlaces
  <2> QED  BY <1>1, <1>2, <2>1, <2>2, <2>3, <2>5 DEF StoresWait
<1>6. CASE \E l \in Locks, s \in Sites \cup {NoSite} : due[t] = <<StoreOwn(l, s)>>
  <2>1. PICK l \in Locks, s \in Sites \cup {NoSite} : due[t] = <<StoreOwn(l, s)>>
    BY <1>6
  <2>2. /\ Head(due[t]) = StoreOwn(l, s) /\ Tail(due[t]) = << >>
        /\ due[t][1] = StoreOwn(l, s) /\ Len(due[t]) = 1
    BY <2>1
  <2>3. UNCHANGED <<waitPc, wrong>> /\ ownerPc' = [ownerPc EXCEPT ![l] = s]
    BY <1>1, <2>2, StoresAccess, StoreFields
  <2>4. pc[t] # "load_owner"
    BY <1>1, <2>1, <2>2, Singles, StoreFields DEF DuePlaces
  <2>5. pc[t] # "exit66"
    BY <1>3, <2>2, StoreFields
  <2>6. \/ pc[t] = "idle" /\ s = NoSite
        \/ pc[t] \in {"top_acquire", "store_owner"} /\ l = arg[t] /\ s = site[t]
    BY <1>1, <2>1, <2>2, <2>4, <2>5, Singles, StoreFields DEF DuePlaces
  <2> QED  BY <1>1, <1>2, <2>1, <2>2, <2>3, <2>6 DEF StoresOwn
<1>7. CASE /\ pc[t] = "store_owner"
           /\ due[t] = <<StoreWait(t, NoSite), StoreOwn(arg[t], site[t])>>
  <2>1. Head(due[t]) = StoreWait(t, NoSite) /\ Tail(due[t]) = <<StoreOwn(arg[t], site[t])>>
    BY <1>7
  <2>2. UNCHANGED <<ownerPc, wrong>> /\ waitPc' = [waitPc EXCEPT ![t] = NoSite]
    BY <1>1, <2>1, StoresAccess, StoreFields
  <2> QED  BY <1>1, <1>2, <1>7, <2>1, <2>2 DEF StoresWait
<1>8. site[t] \in Sites \cup {NoSite} /\ (pc[t] # "idle" => arg[t] \in Locks)
  BY DEF SiteBook, SiteTypes, Books, TypeInv, TypeOK
<1>9. \/ pc[t] = "exit66"
      \/ \E s \in Sites \cup {NoSite} : due[t] = <<StoreWait(t, s)>>
      \/ \E l \in Locks, s \in Sites \cup {NoSite} : due[t] = <<StoreOwn(l, s)>>
      \/ pc[t] = "store_owner" /\ due[t] = <<StoreWait(t, NoSite), StoreOwn(arg[t], site[t])>>
  <2>1. pc[t] \in {"idle", "load_owner", "top_acquire", "store_owner", "exit66"}
    BY <1>1 DEF DuePlaces
  <2> QED  BY <1>1, <1>8, <2>1 DEF DuePlaces
<1> QED  BY <1>4, <1>5, <1>6, <1>7, <1>9

\* Another thread's access leaves a thread's books alone, but for its wait's site.
LEMMA OtherSite ==
    ASSUME UNCHANGED <<vars, sitesOn, site, lockedAt>>, NEW u \in Threads,
           due'[u] = due[u], waitPc'[u] = waitPc[u],
           DuePlaces(u), WaitSite(u), AcquireSite(u)
    PROVE  (DuePlaces(u) /\ WaitSite(u) /\ AcquireSite(u))'
<1>1. PrintsChain(u)' = PrintsChain(u)
  BY DEF PrintsChain, Printed, Waiter, vars, ReadWait, ReadOwn
<1>2. DuePlaces(u)'
  BY <1>1 DEF DuePlaces, vars, StoreWait, StoreOwn
<1> QED  BY <1>2 DEF WaitSite, AcquireSite, vars, StoreWait

LEMMA StoresWaitKeeps ==
    ASSUME Books, SiteBook, NEW t \in Threads, StoresWait(t),
           UNCHANGED <<vars, sitesOn, site, lockedAt>>,
           \A u \in Threads \ {t} : due'[u] = due[u], due' \in [Threads -> Seq(Access)]
    PROVE  SiteBook'
<1> USE DEF SiteBook
<1>1. SiteTypes'
  <2>1. waitPc' \in [Threads -> Sites \cup {NoSite}]
    BY DEF StoresWait, SiteTypes
  <2> QED  BY <2>1 DEF SiteTypes, StoresWait
<1>2. due[t] # << >> /\ sitesOn
  <2>1. due[t] # << >>
    BY Singles DEF StoresWait
  <2> QED  BY <2>1 DEF SitesOff
<1>3. ASSUME NEW u \in Threads \ {t} PROVE (DuePlaces(u) /\ WaitSite(u) /\ AcquireSite(u))'
  <2>1. waitPc'[u] = waitPc[u]
    BY DEF StoresWait, SiteTypes
  <2> QED  BY <2>1, OtherSite
<1>4. (DuePlaces(t) /\ WaitSite(t) /\ AcquireSite(t))'
  <2>1. AcquireSite(t)'
    BY DEF AcquireSite, vars
  <2>2. DuePlaces(t)'
    BY <1>2 DEF StoresWait, DuePlaces, vars
  <2>3. WaitSite(t)'
    BY Singles DEF StoresWait, WaitSite, SiteTypes, vars, WaitPoints, WalkPoints
  <2> QED  BY <2>1, <2>2, <2>3
<1>5. ASSUME NEW u \in Threads, NEW m \in Locks PROVE OwnerSite(u, m)'
  <2>1. UNCHANGED ownerPc /\ (pc[t] = "store_owner" => due'[t] # << >>)
    BY Singles DEF StoresWait
  <2>2. pc[t] # "top_acquire"
    BY DEF StoresWait
  <2> QED  BY <2>1, <2>2 DEF OwnerSite, vars
<1>6. ASSUME NEW m \in Locks PROVE FreeSite(m)'
  <2>1. UNCHANGED ownerPc
    BY DEF StoresWait
  <2>2. due[t] # <<StoreOwn(m, NoSite)>>
    <3>1. Head(due[t]).op = "store_wait"
      BY Singles, StoreFields DEF StoresWait
    <3>2. Head(<<StoreOwn(m, NoSite)>>).op = "store_owner"
      BY Singles, StoreFields
    <3> QED  BY <3>1, <3>2
  <2> QED  BY <2>1, <2>2 DEF FreeSite, vars, StoreOwn
<1> QED
  BY <1>1, <1>2, <1>3, <1>4, <1>5, <1>6 DEF SitesOff, ReportShowsRightSites, StoresWait

LEMMA StoresOwnKeeps ==
    ASSUME Books, OrdinaryMutexes, SiteBook, NEW t \in Threads, StoresOwn(t),
           UNCHANGED <<vars, sitesOn, site, lockedAt>>,
           \A u \in Threads \ {t} : due'[u] = due[u], due' \in [Threads -> Seq(Access)]
    PROVE  SiteBook'
<1> USE DEF SiteBook
<1>1. PICK l \in Locks, s \in Sites \cup {NoSite} :
          /\ due[t] = <<StoreOwn(l, s)>>
          /\ ownerPc' = [ownerPc EXCEPT ![l] = s]
          /\ \/ pc[t] = "idle" /\ s = NoSite
             \/ /\ pc[t] \in {"top_acquire", "store_owner"} /\ l = arg[t] /\ s = site[t]
                /\ holder[l] = t /\ s = lockedAt[t][l]
  <2>1. pc[t] \in {"top_acquire", "store_owner"} =>
            arg[t] \in Locks /\ holder[arg[t]] = t /\ lockedAt[t][arg[t]] = site[t]
    BY DEF Books, HoldBook, TypeInv, TypeOK, AcquirePoints, AcquireSite
  <2>2. site[t] \in Sites \cup {NoSite}
    BY DEF SiteTypes
  <2> QED  BY <2>1, <2>2 DEF StoresOwn
<1>2. due[t] # << >> /\ sitesOn /\ due'[t] = << >>
  <2>1. due[t] # << >>
    BY <1>1, Singles
  <2> QED  BY <2>1 DEF SitesOff, StoresOwn
<1>3. SiteTypes'
  <2>1. ownerPc' \in [Locks -> Sites \cup {NoSite}]
    BY <1>1 DEF SiteTypes
  <2> QED  BY <2>1 DEF SiteTypes, StoresOwn
<1>4. ASSUME NEW u \in Threads \ {t} PROVE (DuePlaces(u) /\ WaitSite(u) /\ AcquireSite(u))'
  <2>1. waitPc'[u] = waitPc[u]
    BY DEF StoresOwn
  <2> QED  BY <2>1, OtherSite
<1>5. (DuePlaces(t) /\ WaitSite(t) /\ AcquireSite(t))'
  <2>1. AcquireSite(t)'
    BY DEF AcquireSite, vars
  <2>2. DuePlaces(t)'
    BY <1>1, <1>2 DEF DuePlaces, vars
  <2>3. waitPc[t] = NoSite
    <3>1. due[t][1] # StoreWait(t, NoSite)
      BY <1>1, Singles, StoreFields
    <3> QED  BY <1>1, <3>1 DEF WaitSite, WaitPoints, WalkPoints
  <2>4. WaitSite(t)'
    BY <1>1, <2>3 DEF StoresOwn, WaitSite, vars, WaitPoints, WalkPoints
  <2> QED  BY <2>1, <2>2, <2>4
<1>6. ASSUME NEW u \in Threads, NEW m \in Locks PROVE OwnerSite(u, m)'
  <2>1. CASE m = l
    <3>1. ownerPc'[m] = s
      BY <1>1, <2>1 DEF SiteTypes
    <3> QED  BY <1>1, <2>1, <3>1 DEF OwnerSite, vars
  <2>2. CASE m # l
    <3>1. ownerPc'[m] = ownerPc[m]
      BY <1>1, <2>2 DEF SiteTypes
    <3>2. u = t /\ arg[t] = m => pc[t] \notin {"top_acquire", "store_owner"}
      BY <1>1, <2>2
    <3> QED  BY <3>1, <3>2 DEF OwnerSite, vars
  <2> QED  BY <2>1, <2>2
<1>7. ASSUME NEW m \in Locks PROVE FreeSite(m)'
  <2>1. CASE m = l
    <3>1. ownerPc'[m] = s
      BY <1>1, <2>1 DEF SiteTypes
    <3> QED  BY <1>1, <2>1, <3>1, ThreadsAssumption DEF FreeSite, vars
  <2>2. CASE m # l
    <3>1. ownerPc'[m] = ownerPc[m]
      BY <1>1, <2>2 DEF SiteTypes
    <3>2. due[t] # <<StoreOwn(m, NoSite)>>
      BY <1>1, <2>2, Singles, StoreFields
    <3> QED  BY <3>1, <3>2 DEF FreeSite, vars, StoreOwn
  <2> QED  BY <2>1, <2>2
<1> QED
  BY <1>2, <1>3, <1>4, <1>5, <1>6, <1>7 DEF SitesOff, ReportShowsRightSites, StoresOwn

-----------------------------------------------------------------------------
(* A read of the report. *)

LEMMA ReadIsRight ==
    ASSUME Books, SiteBook, NEW t \in Threads, Reads(t), ReadSite(t, Head(due[t]))
    PROVE  ReportShowsRightSites'
<1> DEFINE n == Len(chain[t])
           L == Len(due[t])
           k == 2 * n - L + 1
           i == n - (L - 1) \div 2
           a == Head(due[t])
           hop == chain[t][i]
           shown == IF a.op = "read_wait" THEN waitPc[a.thread] ELSE ownerPc[a.lock]
           right == IF a.op = "read_wait" THEN site[Waiter(t, i)]
                                          ELSE lockedAt[hop.owner][hop.lock]
<1>1. wrong' = [wrong EXCEPT ![t] = @ \/ (ChainIsCurrent(t) /\ shown \notin {NoSite, right})]
  BY DEF ReadSite
<1>2. /\ chain[t] \in Seq(Hop) /\ due[t] \in Seq(Access) /\ due[t] # << >>
      /\ PrintsChain(t) /\ pc[t] = "exit66"
  BY DEF Reads, SiteBook, SiteTypes, DuePlaces, Books, TypeInv, TypeOK
<1>3. n \in Nat /\ L \in Nat /\ L >= 1 /\ L <= 2 * n
  <2>1. L \in Nat /\ L >= 1
    <3> HIDE DEF Access
    <3> QED  BY <1>2
  <2> QED  BY <1>2, <2>1 DEF PrintsChain
<1>4. i \in 1..n /\ (k + 1) \div 2 = i
  <2> HIDE DEF n, L
  <2> QED  BY <1>3
<1>5. a = Printed(t, k)
  BY <1>2, FirstRead
<1>6. \A j \in 1..n : chain[t][j].lock \in Locks /\ chain[t][j].owner \in Threads
  <2>1. \A j \in 1..n : chain[t][j] \in Hop
    BY <1>2
  <2> QED  BY <2>1 DEF Hop
<1>7. Waiter(t, i) \in Threads
  <2>1. CASE i = 1
    BY <2>1 DEF Waiter
  <2>2. CASE i # 1
    <3>1. i - 1 \in 1..n
      <4> HIDE DEF n, i
      <4> QED  BY <1>3, <1>4, <2>2
    <3> QED  BY <1>6, <2>2, <3>1 DEF Waiter
  <2> QED  BY <2>1, <2>2
<1> HIDE DEF n, L, k, i, a
<1>8. ASSUME ChainIsCurrent(t) PROVE shown \in {NoSite, right}
  <2>1. /\ pc[Waiter(t, i)] \in WaitPoints
        /\ arg[Waiter(t, i)] = hop.lock
        /\ holder[hop.lock] = hop.owner
    BY <1>4, <1>8 DEF ChainIsCurrent, n
  <2>2. CASE k % 2 = 1
    <3>1. a = ReadWait(Waiter(t, i))
      BY <1>4, <1>5, <2>2 DEF Printed
    <3>2. a.op = "read_wait" /\ a.thread = Waiter(t, i)
      BY <3>1 DEF ReadWait
    <3>3. waitPc[Waiter(t, i)] \in {NoSite, site[Waiter(t, i)]}
      BY <1>7, <2>1 DEF SiteBook, WaitSite, WaitPoints, WalkPoints
    <3> QED  BY <3>2, <3>3
  <2>3. CASE k % 2 # 1
    <3>1. a = ReadOwn(hop.lock)
      BY <1>4, <1>5, <2>3 DEF Printed
    <3>2. a.op = "read_owner" /\ a.lock = hop.lock
      BY <3>1 DEF ReadOwn
    <3>3. pc[hop.owner] \in WaitPoints
      <4>1. CASE i = n
        BY <1>2, <4>1 DEF PrintsChain, n, WaitPoints
      <4>2. CASE i # n
        <5>1. i + 1 \in 1..n /\ i + 1 # 1 /\ (i + 1) - 1 = i
          BY <1>3, <1>4, <4>2
        <5>2. Waiter(t, i + 1) = hop.owner
          BY <5>1 DEF Waiter
        <5> QED  BY <1>8, <5>1, <5>2 DEF ChainIsCurrent, n
      <4> QED  BY <4>1, <4>2
    <3>4. OwnerSite(hop.owner, hop.lock)
      BY <1>4, <1>6 DEF SiteBook
    <3>5. ownerPc[hop.lock] \in {NoSite, lockedAt[hop.owner][hop.lock]}
      BY <2>1, <3>3, <3>4 DEF OwnerSite, WaitPoints, WalkPoints
    <3> QED  BY <3>2, <3>5
  <2> QED  BY <2>2, <2>3
<1> HIDE DEF shown, right
<1>9. ~wrong[t] /\ \A u \in Threads : ~wrong[u]
  BY DEF SiteBook, ReportShowsRightSites
<1> QED
  BY <1>1, <1>8, <1>9 DEF ReportShowsRightSites, SiteBook, SiteTypes

LEMMA ReadsKeep ==
    ASSUME Books, SiteBook, NEW t \in Threads, Reads(t), ReadSite(t, Head(due[t])),
           UNCHANGED <<vars, sitesOn, site, lockedAt>>,
           \A u \in Threads \ {t} : due'[u] = due[u], due' \in [Threads -> Seq(Access)]
    PROVE  SiteBook'
<1> USE DEF SiteBook
<1>1. ReportShowsRightSites'
  BY ReadIsRight
<1>2. UNCHANGED <<waitPc, ownerPc>> /\ wrong' \in [Threads -> BOOLEAN]
  <2>1. UNCHANGED <<waitPc, ownerPc>>
    BY DEF Reads
  <2>2. \E b \in BOOLEAN : wrong' = [wrong EXCEPT ![t] = b]
    BY DEF ReadSite, SiteTypes
  <2> QED  BY <2>1, <2>2 DEF SiteTypes
<1>3. SiteTypes'
  BY <1>2 DEF SiteTypes
<1>4. pc[t] = "exit66" /\ due[t] # << >> /\ due[t] \in Seq(Access) /\ due'[t] = Tail(due[t])
  BY DEF Reads, SiteTypes
<1>5. SitesOff'
  BY <1>2, <1>4 DEF SitesOff
<1>6. ASSUME NEW u \in Threads \ {t} PROVE (DuePlaces(u) /\ WaitSite(u) /\ AcquireSite(u))'
  BY <1>2, OtherSite
<1>7. (DuePlaces(t) /\ WaitSite(t) /\ AcquireSite(t))'
  <2>1. PrintsChain(t)
    BY <1>4 DEF DuePlaces
  <2>2. /\ Len(due'[t]) = Len(due[t]) - 1 /\ Len(due[t]) \in Nat
        /\ \A j \in 1..Len(due'[t]) : due'[t][j] = due[t][j + 1] /\ j + 1 \in 1..Len(due[t])
    <3> HIDE DEF Access
    <3> QED  BY <1>4
  <2>3. chain[t] \in Seq(Hop) /\ Len(chain[t]) \in Nat
    BY DEF Books, TypeInv, TypeOK
  <2>4. PrintsChain(t)'
    <3>2. ASSUME NEW j \in 1..Len(due'[t])
          PROVE  due'[t][j] = Printed(t, 2 * Len(chain[t]) - Len(due'[t]) + j)
      <4>1. due'[t][j] = Printed(t, 2 * Len(chain[t]) - Len(due[t]) + (j + 1))
        BY <2>1, <2>2 DEF PrintsChain
      <4>2. 2 * Len(chain[t]) - Len(due[t]) + (j + 1) = 2 * Len(chain[t]) - Len(due'[t]) + j
        <5> DEFINE c == 2 * Len(chain[t])
                   l == Len(due[t])
                   k == Len(due'[t])
        <5>1. k = l - 1 /\ c \in Int /\ l \in Int /\ k \in Int /\ j \in Int
          BY <2>2, <2>3
        <5> HIDE DEF c, l, k
        <5>2. c - l + (j + 1) = c - k + j
          BY <5>1
        <5> QED  BY <5>2 DEF c, l, k
      <4> QED  BY <4>1, <4>2
    <3>3. UNCHANGED chain /\ Len(due'[t]) <= 2 * Len(chain[t])
      BY <2>1, <2>2, <2>3 DEF PrintsChain, vars
    <3> QED
      BY <2>1, <3>2, <3>3 DEF PrintsChain, Printed, Waiter, ReadWait, ReadOwn
  <2>5. DuePlaces(t)'
    BY <1>4, <2>4 DEF DuePlaces, vars
  <2>6. WaitSite(t)' /\ AcquireSite(t)'
    BY <1>2, <1>4 DEF WaitSite, AcquireSite, vars, WaitPoints, WalkPoints
  <2> QED  BY <2>5, <2>6
<1>8. ASSUME NEW u \in Threads, NEW m \in Locks PROVE OwnerSite(u, m)'
  BY <1>2, <1>4 DEF OwnerSite, vars
<1>9. ASSUME NEW m \in Locks PROVE FreeSite(m)'
  <2>1. due[t] # <<StoreOwn(m, NoSite)>>
    <3>1. Head(due[t]).op \in {"read_wait", "read_owner"}
      BY <1>4, FirstRead DEF DuePlaces
    <3> QED  BY <3>1, Singles, StoreFields
  <2> QED  BY <1>2, <2>1 DEF FreeSite, vars, StoreOwn
<1> QED
  BY <1>1, <1>3, <1>5, <1>6, <1>7, <1>8, <1>9

LEMMA SiteStepKeeps ==
    ASSUME OrdinaryMutexes, Books, SiteBook, status = "running", NEW t \in Threads,
           SiteStep(t)
    PROVE  SiteBook'
  BY SiteStepMoves, StoresWaitKeeps, StoresOwnKeeps, ReadsKeep

-----------------------------------------------------------------------------
(* A step of the detector. *)

\* What it does to the sites of the calls and to the history of acquires.
LEMMA LockStepSites ==
    ASSUME OrdinaryMutexes, Books, Books', SiteBook, NEW t \in Threads, LockStep(t)
    PROVE  /\ Moves(t)
           /\ \A u \in Threads \ {t} :
                 /\ pc'[u] = pc[u] /\ arg'[u] = arg[u] /\ chain'[u] = chain[u]
                 /\ due'[u] = due[u] /\ site'[u] = site[u] /\ lockedAt'[u] = lockedAt[u]
           /\ due[t] = << >> /\ due' = [due EXCEPT ![t] = Follows(t)]
           /\ UNCHANGED <<sitesOn, ownerPc, waitPc, wrong>>
           /\ site' \in [Threads -> Sites \cup {NoSite}]
           /\ pc[t] # "idle" /\ pc'[t] # "idle" => site'[t] = site[t]
           /\ ~sitesOn => site'[t] = NoSite
           /\ lockedAt' \in [Threads -> [Locks -> Sites \cup {NoSite}]]
           /\ \A m \in Locks : holder'[m] = t =>
                 lockedAt'[t][m] = IF Gets(t) /\ m = arg'[t] THEN site'[t] ELSE lockedAt[t][m]
<1> USE DEF SiteBook, SiteTypes
<1>1. /\ due[t] = << >> /\ due' = [due EXCEPT ![t] = Follows(t)]
      /\ UNCHANGED <<sitesOn, ownerPc, waitPc, wrong>>
      /\ CaptureCallsite(t) /\ NoteLocked(t)
      /\ Internal(t) \/ Call(t)
  BY DEF LockStep
<1>2. /\ Moves(t)
      /\ \A u \in Threads \ {t} :
            pc'[u] = pc[u] /\ arg'[u] = arg[u] /\ chain'[u] = chain[u]
  BY <1>1, LockStepMoves
<1>3. /\ \E s \in Sites \cup {NoSite} : site' = [site EXCEPT ![t] = s]
      /\ pc[t] # "idle" /\ pc'[t] # "idle" => site'[t] = site[t]
      /\ ~sitesOn => site'[t] = NoSite
  <2>1. CASE /\ pc[t] = "idle" /\ pc'[t] \notin {"idle", "release", "cond_wait"} /\ sitesOn
    <3>1. \E s \in SitesOf[t][arg'[t]] : site' = [site EXCEPT ![t] = s]
      BY <1>1, <2>1 DEF CaptureCallsite
    <3>2. arg'[t] \in Locks
      BY <2>1 DEF Books, TypeInv, TypeOK
    <3>3. SitesOf[t][arg'[t]] \subseteq Sites
      BY <3>2, SitesAssumption
    <3> QED  BY <2>1, <3>1, <3>3
  <2>2. CASE pc'[t] = "idle"
    <3>1. site' = [site EXCEPT ![t] = NoSite]
      BY <1>1, <2>2 DEF CaptureCallsite
    <3> QED  BY <2>2, <3>1
  <2>3. CASE /\ ~(pc[t] = "idle" /\ pc'[t] \notin {"idle", "release", "cond_wait"} /\ sitesOn)
             /\ pc'[t] # "idle"
    <3>1. site' = site
      BY <1>1, <2>3 DEF CaptureCallsite
    <3>2. ~sitesOn => site[t] = NoSite
      BY DEF SitesOff
    <3>3. site' = [site EXCEPT ![t] = site[t]] /\ site[t] \in Sites \cup {NoSite}
      BY <3>1
    <3> QED  BY <3>1, <3>2, <3>3
  <2> QED  BY <2>1, <2>2, <2>3
<1>4. /\ site' \in [Threads -> Sites \cup {NoSite}]
      /\ \A u \in Threads \ {t} : site'[u] = site[u]
      /\ site'[t] \in Sites \cup {NoSite}
  BY <1>3
<1> DEFINE New == [m \in Locks |->
                      IF m # arg'[t] /\ m # arg[t] THEN lockedAt[t][m]
                      ELSE IF depth'[m] > depth[m] THEN site'[t]
                      ELSE IF holder'[m] # t THEN NoSite
                      ELSE lockedAt[t][m]]
<1>5. lockedAt' = [lockedAt EXCEPT ![t] = New]
  BY <1>1 DEF NoteLocked
<1>6. New \in [Locks -> Sites \cup {NoSite}]
  BY <1>4
<1>7. /\ lockedAt' \in [Threads -> [Locks -> Sites \cup {NoSite}]]
      /\ \A u \in Threads \ {t} : lockedAt'[u] = lockedAt[u]
      /\ lockedAt'[t] = New
  <2> HIDE DEF New
  <2> QED  BY <1>5, <1>6
<1>8. ASSUME NEW m \in Locks PROVE depth'[m] > depth[m] <=> Gets(t) /\ m = arg'[t]
  <2>1. depth \in [Locks -> Nat]
    BY DEF Books, TypeInv, TypeOK
  <2>2. CASE Gets(t)
    BY <2>1, <2>2 DEF Gets
  <2>3. CASE ~Gets(t) /\ UNCHANGED depth
    BY <2>1, <2>3
  <2>4. CASE ~Gets(t) /\ Unlocks(t)
    BY <2>1, <2>4 DEF Unlocks
  <2> QED
    BY <1>2, <2>2, <2>3, <2>4 DEF Moves, Enters, Walks, Stops, Pushes, Publishes, Fails,
       Disowns, Stays
<1>9. ASSUME NEW m \in Locks, holder'[m] = t
      PROVE  lockedAt'[t][m] = IF Gets(t) /\ m = arg'[t] THEN site'[t] ELSE lockedAt[t][m]
  BY <1>7, <1>8, <1>9
<1> QED
  BY <1>1, <1>2, <1>3, <1>4, <1>7, <1>9

\* A thread that takes no step.
LEMMA OtherLockStep ==
    ASSUME OrdinaryMutexes, Books, Books', SiteBook, NEW t \in Threads, LockStep(t),
           status = "running", NEW u \in Threads \ {t}
    PROVE  /\ (DuePlaces(u) /\ WaitSite(u) /\ AcquireSite(u))'
           /\ \A m \in Locks : OwnerSite(u, m)'
<1>1. /\ pc'[u] = pc[u] /\ arg'[u] = arg[u] /\ chain'[u] = chain[u]
      /\ due'[u] = due[u] /\ site'[u] = site[u] /\ lockedAt'[u] = lockedAt[u]
      /\ UNCHANGED <<sitesOn, ownerPc, waitPc>>
      /\ Moves(t)
  BY LockStepSites
<1>2. DuePlaces(u) /\ WaitSite(u) /\ AcquireSite(u)
  BY DEF SiteBook
<1>3. PrintsChain(u)' = PrintsChain(u)
  BY <1>1 DEF PrintsChain, Printed, Waiter, ReadWait, ReadOwn
<1>4. DuePlaces(u)'
  BY <1>1, <1>2, <1>3 DEF DuePlaces, StoreWait, StoreOwn
<1>5. (WaitSite(u) /\ AcquireSite(u))'
  BY <1>1, <1>2 DEF WaitSite, AcquireSite, StoreWait
<1>6. ASSUME NEW m \in Locks PROVE OwnerSite(u, m)'
  <2>1. OwnerSite(u, m)
    BY DEF SiteBook
  <2>2. holder'[m] = u => holder[m] = u
    BY <1>1, ThreadsAssumption DEF Moves, Enters, Gets, Walks, Stops, Pushes, Publishes, Fails,
       Unlocks, Disowns, Stays, Books, TypeInv, TypeOK
  <2>3. owner'[m] = u => owner[m] = u
    BY <1>1, ThreadsAssumption DEF Moves, Enters, Gets, Walks, Stops, Pushes, Publishes, Fails,
       Unlocks, Disowns, Stays, Books, TypeInv, TypeOK
  <2> QED  BY <1>1, <2>1, <2>2, <2>3 DEF OwnerSite
<1> QED  BY <1>4, <1>5, <1>6

\* The accesses a step leaves are those of the place it leads to.
LEMMA MovesDue ==
    ASSUME OrdinaryMutexes, Books, Books', SiteBook, NEW t \in Threads, LockStep(t),
           status = "running"
    PROVE  /\ due'[t] = IF sitesOn THEN Follows(t) ELSE << >>
           /\ due' \in [Threads -> Seq(Access)]
           /\ DuePlaces(t)'
<1>1. /\ Moves(t) /\ due[t] = << >> /\ due' = [due EXCEPT ![t] = Follows(t)]
      /\ UNCHANGED sitesOn
      /\ site[t] \in Sites \cup {NoSite} /\ site'[t] \in Sites \cup {NoSite}
      /\ pc[t] # "idle" /\ pc'[t] # "idle" => site'[t] = site[t]
  BY LockStepSites DEF SiteBook, SiteTypes
<1>2. Follows(t) = IF sitesOn THEN Follows(t) ELSE << >>
  BY DEF Follows
<1>3. Follows(t) \in Seq(Access)
  <2>1. CASE sitesOn
    BY <1>1, <2>1, FollowsMoves
  <2>2. CASE ~sitesOn
    <3>1. Follows(t) = << >>
      BY <1>2, <2>2
    <3> QED  BY <3>1
  <2> QED  BY <2>1, <2>2
<1>4. due'[t] = Follows(t) /\ due' \in [Threads -> Seq(Access)]
  <2> HIDE DEF Access
  <2> QED  BY <1>1, <1>3 DEF SiteBook, SiteTypes
<1>5. DuePlaces(t)'
  <2>1. CASE ~sitesOn
    <3>1. due'[t] = << >> /\ Len(due'[t]) = 0
      BY <1>2, <1>4, <2>1
    <3>2. CASE pc'[t] = "exit66"
      <4>1. Walks(t) \/ Stops(t)
        BY <1>1, <3>2 DEF Moves, Enters, Gets, Pushes, Publishes, Fails, Unlocks, Disowns, Place
      <4>2. chain'[t] \in Seq(Hop) /\ Len(chain'[t]) > 0 /\ chain'[t][Len(chain'[t])].owner = t
        <5>1. CASE Walks(t)
          BY <3>2, <5>1 DEF Walks, Place
        <5>2. CASE Stops(t)
          <6>1. chain'[t] = chain[t] /\ PrintsChain(t)
            BY <3>2, <5>2 DEF Stops, Place, SiteBook, DuePlaces
          <6>2. chain[t] \in Seq(Hop)
            BY DEF Books, TypeInv, TypeOK
          <6> QED  BY <6>1, <6>2 DEF PrintsChain
        <5> QED  BY <4>1, <5>1, <5>2
      <4>3. PrintsChain(t)'
        BY <3>1, <4>2 DEF PrintsChain
      <4> QED  BY <3>1, <3>2, <4>3 DEF DuePlaces
    <3>3. CASE pc'[t] # "exit66"
      BY <3>1, <3>3 DEF DuePlaces
    <3> QED  BY <3>2, <3>3
  <2>2. CASE sitesOn /\ Walks(t) /\ pc'[t] = "exit66"
    <3> DEFINE n == Len(chain'[t])
               waiters == [i \in 1..n |-> IF i = 1 THEN t ELSE chain'[t][i - 1].owner]
    <3>1. chain'[t] \in Seq(Hop) /\ n > 0 /\ chain'[t][n].owner = t /\ pc[t] = "load_owner"
      BY <2>2 DEF Walks, Place
    <3>2. due'[t] = HopReads(chain'[t], waiters)
      <4>1. due'[t] = ReportReads(t)
        BY <1>1, <1>4, <2>2, FollowsMoves
      <4> QED  BY <2>2, <3>1, <4>1 DEF ReportReads
    <3>3. n \in Nat
      BY <3>1
    <3> HIDE DEF waiters, n
    <3>4. due'[t] = [k \in 1..(2 * n) |->
                        IF k % 2 = 1 THEN ReadWait(waiters[(k + 1) \div 2])
                        ELSE ReadOwn(chain'[t][(k + 1) \div 2].lock)]
      BY <3>2 DEF HopReads, n
    <3>5. Len(due'[t]) = 2 * n
      <4>1. due'[t] \in Seq(Access)
        BY <1>3, <1>4
      <4>2. DOMAIN due'[t] = 1..(2 * n)
        BY <3>4
      <4>3. 2 * n \in Nat
        BY <3>3
      <4> HIDE DEF Access
      <4> QED  BY <4>1, <4>2, <4>3
    <3>6. ASSUME NEW j \in 1..(2 * n) PROVE due'[t][j] = Printed(t, j)'
      <4>1. (j + 1) \div 2 \in 1..n
        BY <3>3
      <4>2. waiters[(j + 1) \div 2] = Waiter(t, (j + 1) \div 2)'
        BY <4>1 DEF waiters, Waiter
      <4> QED  BY <3>4, <4>2 DEF Printed, ReadWait, ReadOwn
    <3>7. PrintsChain(t)'
      <4>1. \A j \in 1..Len(due'[t]) : 2 * n - Len(due'[t]) + j = j
        BY <3>3, <3>5
      <4>2. \A j \in 1..Len(due'[t]) :
               due'[t][j] = Printed(t, 2 * Len(chain[t]) - Len(due[t]) + j)'
        <5> SUFFICES ASSUME NEW j \in 1..Len(due'[t])
                     PROVE  due'[t][j] = Printed(t, 2 * Len(chain[t]) - Len(due[t]) + j)'
          OBVIOUS
        <5>1. 2 * Len(chain'[t]) - Len(due'[t]) + j = j
          BY <4>1 DEF n
        <5>2. due'[t][j] = Printed(t, j)'
          BY <3>5, <3>6
        <5> QED  BY <5>1, <5>2 DEF Printed, Waiter, ReadWait, ReadOwn
      <4>3. /\ Len(chain'[t]) > 0 /\ chain'[t][Len(chain'[t])].owner = t
            /\ Len(due'[t]) <= 2 * Len(chain'[t])
        BY <3>1, <3>3, <3>5 DEF n
      <4> QED  BY <4>2, <4>3 DEF PrintsChain
    <3> QED  BY <2>2, <3>7 DEF DuePlaces
  <2>3. CASE sitesOn /\ Walks(t) /\ pc'[t] # "exit66"
    <3>1. due'[t] = IF pc[t] = "before_block" THEN <<StoreWait(t, site[t])>> ELSE << >>
      BY <1>1, <1>4, <2>3, FollowsMoves
    <3> QED
      BY <1>1, <2>3, <3>1 DEF Walks, Place, DuePlaces, StoreWait
  <2>4. CASE sitesOn /\ Stops(t)
    <3>1. pc[t] = "acquire_wait" \/ due'[t] = << >>
      BY <1>1, <1>4, <2>4, FollowsMoves
    <3>2. CASE pc[t] = "exit66"
      <4>1. PrintsChain(t)
        BY <3>2 DEF SiteBook, DuePlaces
      <4>2. chain'[t] = chain[t] /\ due'[t] = due[t] /\ pc'[t] = "exit66" /\ due'[t] = << >>
        BY <1>1, <2>4, <3>1, <3>2 DEF Stops, Place
      <4>3. PrintsChain(t)'
        BY <4>1, <4>2 DEF PrintsChain, Printed, Waiter, ReadWait, ReadOwn
      <4> QED  BY <4>2, <4>3 DEF DuePlaces
    <3>3. CASE pc[t] # "exit66"
      BY <2>4, <3>1, <3>3 DEF Stops, Place, DuePlaces
    <3> QED  BY <3>2, <3>3
  <2>5. CASE sitesOn /\ (Enters(t) \/ Unlocks(t) \/ Publishes(t))
    <3>1. due'[t] = << >>
      BY <1>1, <1>4, <2>5, FollowsMoves
    <3> QED  BY <2>5, <3>1 DEF Enters, Unlocks, Publishes, Place, DuePlaces
  <2>6. CASE sitesOn /\ Gets(t)
    <3>1. due'[t] = IF pc'[t] = "top_acquire" THEN <<StoreOwn(arg'[t], site'[t])>> ELSE << >>
      BY <1>1, <1>4, <2>6, FollowsMoves
    <3> QED  BY <2>6, <3>1 DEF Gets, Place, DuePlaces, StoreOwn
  <2>7. CASE sitesOn /\ Pushes(t)
    <3>1. due'[t] \in {<<StoreOwn(arg'[t], site'[t])>>,
                       <<StoreWait(t, NoSite), StoreOwn(arg'[t], site'[t])>>}
      BY <1>1, <1>4, <2>7, FollowsMoves
    <3> QED  BY <2>7, <3>1 DEF Pushes, Place, DuePlaces, StoreOwn, StoreWait
  <2>8. CASE sitesOn /\ Fails(t)
    <3>1. due'[t] \in {<<StoreWait(t, NoSite)>>, << >>}
      BY <1>1, <1>4, <2>8, FollowsMoves
    <3> QED  BY <2>8, <3>1 DEF Fails, Place, DuePlaces, StoreWait
  <2>9. CASE sitesOn /\ Disowns(t)
    <3>1. due'[t] \in {<<StoreOwn(arg[t], NoSite)>>, << >>} /\ arg[t] \in Locks
      BY <1>1, <1>4, <2>9, FollowsMoves DEF Disowns
    <3> QED  BY <2>9, <3>1 DEF Disowns, Place, DuePlaces, StoreOwn
  <2> QED
    BY <1>1, <2>1, <2>2, <2>3, <2>4, <2>5, <2>6, <2>7, <2>8, <2>9 DEF Moves
<1> QED  BY <1>2, <1>4, <1>5

LEMMA MovesSites ==
    ASSUME OrdinaryMutexes, Books, Books', SiteBook, NEW t \in Threads, LockStep(t),
           status = "running"
    PROVE  /\ (WaitSite(t) /\ AcquireSite(t))'
           /\ \A m \in Locks : OwnerSite(t, m)'
<1>1. /\ Moves(t) /\ due[t] = << >>
      /\ UNCHANGED <<sitesOn, ownerPc, waitPc>>
      /\ site[t] \in Sites \cup {NoSite} /\ site'[t] \in Sites \cup {NoSite}
      /\ pc[t] # "idle" /\ pc'[t] # "idle" => site'[t] = site[t]
      /\ \A m \in Locks : holder'[m] = t =>
            lockedAt'[t][m] = IF Gets(t) /\ m = arg'[t] THEN site'[t] ELSE lockedAt[t][m]
  BY LockStepSites DEF SiteBook, SiteTypes
<1>2. due'[t] = IF sitesOn THEN Follows(t) ELSE << >>
  BY MovesDue
<1>3. WaitSite(t) /\ AcquireSite(t) /\ \A m \in Locks : OwnerSite(t, m)
  BY DEF SiteBook
<1>4. ~sitesOn => /\ site[t] = NoSite /\ site'[t] = NoSite /\ waitPc[t] = NoSite
                  /\ \A m \in Locks : ownerPc[m] = NoSite
  BY LockStepSites DEF SiteBook, SitesOff
<1>5. WaitSite(t)'
  <2>1. CASE pc[t] \in {"before_block", "acquire_wait", "real_lock"} /\ sitesOn
    <3>1. CASE pc[t] = "before_block"
      <4>1. Walks(t) /\ pc'[t] = "load_owner" /\ due'[t] = <<StoreWait(t, site[t])>>
        BY <1>1, <1>2, <2>1, <3>1, FollowsMoves DEF Moves, Enters, Gets, Walks, Stops, Pushes,
           Publishes, Fails, Unlocks, Disowns, Place
      <4>2. waitPc[t] = NoSite
        BY <1>1, <1>3, <3>1 DEF WaitSite, WaitPoints, WalkPoints
      <4> QED  BY <1>1, <4>1, <4>2, Singles DEF WaitSite, WaitPoints, WalkPoints
    <3>2. CASE pc[t] = "acquire_wait"
      <4>1. CASE Pushes(t)
        <5>1. due'[t] = <<StoreWait(t, NoSite), StoreOwn(arg'[t], site'[t])>>
          BY <1>1, <1>2, <2>1, <3>2, <4>1, FollowsMoves
        <5>2. due'[t] # << >> /\ due'[t][1] = StoreWait(t, NoSite)
          BY <5>1, Singles
        <5> QED
          BY <4>1, <5>2 DEF Pushes, Place, WaitSite, WaitPoints, WalkPoints, StoreWait
      <4>2. CASE ~Pushes(t)
        <5>1. pc'[t] = "acquire_wait"
          BY <1>1, <3>2, <4>2 DEF Moves, Enters, Gets, Walks, Stops, Publishes, Fails, Unlocks,
             Disowns, Place
        <5> QED  BY <1>1, <1>3, <3>2, <5>1 DEF WaitSite, WaitPoints, WalkPoints
      <4> QED  BY <4>1, <4>2
    <3>3. CASE pc[t] = "real_lock"
      <4>1. CASE Gets(t)
        BY <1>1, <1>3, <3>3, <4>1 DEF Gets, Place, WaitSite, WaitPoints, WalkPoints
      <4>2. CASE ~Gets(t)
        <5>1. Fails(t) /\ pc'[t] = "idle"
          BY <1>1, <3>3, <4>2 DEF Moves, Enters, Walks, Stops, Pushes, Publishes, Fails, Unlocks,
             Disowns, Place
        <5>2. due'[t] = <<StoreWait(t, NoSite)>>
          BY <1>1, <1>2, <2>1, <3>3, <5>1, FollowsMoves
        <5>3. due'[t] # << >> /\ due'[t][1] = StoreWait(t, NoSite)
          BY <5>2, Singles
        <5> QED  BY <5>1, <5>3 DEF WaitSite, WaitPoints, WalkPoints, StoreWait
      <4> QED  BY <4>1, <4>2
    <3> QED  BY <2>1, <3>1, <3>2, <3>3
  <2>2. CASE ~sitesOn
    BY <1>1, <1>2, <1>4, <2>2 DEF WaitSite
  <2>3. CASE sitesOn /\ pc[t] \in WalkPoints
    <3>1. CASE pc'[t] = "load_owner"
      <4>1. Walks(t) /\ pc[t] = "load_waiting"
        BY <1>1, <2>3, <3>1 DEF Moves, Enters, Gets, Walks, Stops, Pushes, Publishes, Fails,
           Unlocks, Disowns, Place, WalkPoints
      <4>2. due'[t] = << >>
        BY <1>1, <1>2, <2>3, <3>1, <4>1, FollowsMoves
      <4> QED  BY <1>1, <1>3, <3>1, <4>1, <4>2 DEF WaitSite, WaitPoints, WalkPoints
    <3>2. CASE pc'[t] # "load_owner"
      <4>1. pc'[t] \in {"load_waiting", "real_lock", "exit66"}
        BY <1>1, <2>3, <3>2 DEF Moves, Enters, Gets, Walks, Stops, Pushes, Publishes, Fails,
           Unlocks, Disowns, Place, WalkPoints
      <4> QED  BY <1>1, <1>3, <2>3, <4>1 DEF WaitSite, WaitPoints, WalkPoints
    <3> QED  BY <3>1, <3>2
  <2>4. CASE pc[t] = "exit66"
    <3>1. pc'[t] = "exit66"
      BY <1>1, <2>4 DEF Moves, Enters, Gets, Walks, Stops, Pushes, Publishes, Fails,
         Unlocks, Disowns, Place
    <3> QED  BY <1>1, <1>3, <2>4, <3>1 DEF WaitSite, WaitPoints, WalkPoints
  <2>5. CASE pc[t] \notin WaitPoints \cup {"before_block", "acquire_wait"}
    <3>1. pc'[t] \notin WaitPoints \cup {"acquire_wait"}
      BY <1>1, <2>5 DEF Moves, Enters, Gets, Walks, Stops, Pushes, Publishes, Fails,
         Unlocks, Disowns, Place, WaitPoints, WalkPoints
    <3>2. waitPc[t] = NoSite
      BY <1>1, <1>3, <2>5 DEF WaitSite
    <3> QED  BY <1>1, <3>1, <3>2 DEF WaitSite, WaitPoints, WalkPoints
  <2> QED  BY <2>1, <2>2, <2>3, <2>4, <2>5 DEF WaitPoints
<1>6. AcquireSite(t)'
  <2> SUFFICES ASSUME pc'[t] \in AcquirePoints PROVE lockedAt'[t][arg'[t]] = site'[t]
    BY DEF AcquireSite
  <2>1. arg'[t] \in Locks /\ holder'[arg'[t]] = t
    BY DEF Books, HoldBook, TypeInv, TypeOK, AcquirePoints
  <2>2. CASE Gets(t)
    BY <1>1, <2>1, <2>2
  <2>3. CASE ~Gets(t)
    <3>1. pc[t] \in AcquirePoints /\ arg'[t] = arg[t]
      BY <1>1, <2>3 DEF Moves, Enters, Walks, Stops, Pushes, Publishes, Fails,
         Unlocks, Disowns, Place, Stays, AcquirePoints
    <3>2. pc[t] # "idle" /\ pc'[t] # "idle"
      BY <3>1 DEF AcquirePoints
    <3> QED  BY <1>1, <1>3, <2>1, <2>3, <3>1, <3>2 DEF AcquireSite
  <2> QED  BY <2>2, <2>3
<1>7. ASSUME NEW m \in Locks PROVE OwnerSite(t, m)'
  <2> SUFFICES ASSUME holder'[m] = t PROVE OwnerSite(t, m)'
    BY DEF OwnerSite
  <2>1. CASE ~sitesOn
    BY <1>1, <1>4, <2>1 DEF OwnerSite
  <2>2. CASE sitesOn /\ Gets(t) /\ m = arg'[t]
    <3>1. owner'[m] # t
      <4>1. owner[m] # t
        BY <2>2, ThreadsAssumption DEF Gets, Place, Books, OwnerBook
      <4> QED  BY <2>2, <4>1 DEF Gets
    <3>2. pc'[t] = "top_acquire" => due'[t] # << >>
      <4>1. due'[t] = Follows(t)
        BY <1>2, <2>2
      <4>2. Follows(t) = IF pc'[t] = "top_acquire"
                         THEN <<StoreOwn(arg'[t], site'[t])>> ELSE << >>
        BY <1>1, <2>2, FollowsMoves
      <4> QED  BY <4>1, <4>2, Singles
    <3> QED  BY <2>2, <3>1, <3>2 DEF OwnerSite, Gets, Place
  <2>3. CASE sitesOn /\ ~(Gets(t) /\ m = arg'[t])
    <3>1. holder[m] = t /\ lockedAt'[t][m] = lockedAt[t][m]
      BY <1>1, <2>3, ThreadsAssumption DEF Moves, Enters, Gets, Walks, Stops, Pushes, Publishes,
         Fails, Unlocks, Disowns, Stays, Books, TypeInv, TypeOK
    <3>2. CASE ownerPc[m] \in {NoSite, lockedAt[t][m]}
      BY <1>1, <3>1, <3>2 DEF OwnerSite
    <3>3. CASE ownerPc[m] \notin {NoSite, lockedAt[t][m]}
      <4>1. arg[t] = m /\ owner[m] # t /\ pc[t] \in {"acquire", "acquire_wait"}
        BY <1>1, <1>3, <3>1, <3>3 DEF OwnerSite
      <4>2. CASE Pushes(t)
        <5>1. due'[t] # << >>
          BY <1>1, <1>2, <2>3, <4>2, FollowsMoves, Singles
        <5> QED  BY <4>1, <4>2, <5>1 DEF Pushes, Stays, Place, OwnerSite
      <4>3. CASE ~Pushes(t)
        <5>1. Stops(t)
          BY <1>1, <4>1, <4>3 DEF Moves, Enters, Gets, Walks, Stops, Publishes,
             Fails, Unlocks, Disowns, Place
        <5> QED  BY <4>1, <5>1 DEF Stops, Stays, Place, OwnerSite
      <4> QED  BY <4>2, <4>3
    <3> QED  BY <3>2, <3>3
  <2> QED  BY <2>1, <2>2, <2>3
<1> QED  BY <1>5, <1>6, <1>7

LEMMA MovesFree ==
    ASSUME OrdinaryMutexes, Books, Books', SiteBook, NEW t \in Threads, LockStep(t),
           status = "running", NEW m \in Locks
    PROVE  FreeSite(m)'
<1>1. /\ Moves(t) /\ due[t] = << >>
      /\ UNCHANGED <<sitesOn, ownerPc>>
      /\ \A u \in Threads \ {t} : due'[u] = due[u]
      /\ site[t] \in Sites \cup {NoSite} /\ site'[t] \in Sites \cup {NoSite}
  BY LockStepSites DEF SiteBook, SiteTypes
<1>2. due'[t] = IF sitesOn THEN Follows(t) ELSE << >>
  BY MovesDue
<1>3. SUFFICES ASSUME holder'[m] = NoThread, owner'[m] = NoThread, ownerPc[m] # NoSite
               PROVE  \E u \in Threads : due'[u] = <<StoreOwn(m, NoSite)>>
  BY <1>1 DEF FreeSite, StoreOwn
<1>4. sitesOn /\ FreeSite(m)
  BY <1>3 DEF SiteBook, SitesOff
<1>5. CASE holder[m] = NoThread /\ owner[m] = NoThread
  <2>1. PICK u \in Threads : due[u] = <<StoreOwn(m, NoSite)>>
    BY <1>3, <1>4, <1>5 DEF FreeSite
  <2>2. u # t
    BY <1>1, <2>1, Singles
  <2> QED  BY <1>1, <2>1, <2>2
<1>6. CASE ~(holder[m] = NoThread /\ owner[m] = NoThread)
  <2>1. ~Unlocks(t)
    <3> SUFFICES ASSUME Unlocks(t) PROVE FALSE
      OBVIOUS
    <3>1. UNCHANGED owner /\ owner[m] = NoThread /\ holder[m] # NoThread
      BY <1>3, <1>6 DEF Unlocks
    <3>2. m = arg'[t] /\ holder[m] = t /\ pc[t] = "idle"
      BY <1>3, <3>1 DEF Unlocks, Place, Books, TypeInv, TypeOK
    <3>3. owner[m] = t
      BY <3>2 DEF Books, OwnerBook, AcquirePoints
    <3> QED  BY <3>1, <3>3, ThreadsAssumption
  <2>2. Disowns(t)
    BY <1>1, <1>3, <1>6, <2>1, ThreadsAssumption DEF Moves, Enters, Gets, Walks, Stops, Pushes,
       Publishes, Fails, Stays, Books, TypeInv, TypeOK
  <2>3. m = arg[t] /\ owner[m] = t
    BY <1>3, <1>6, <2>2 DEF Disowns, Books, TypeInv, TypeOK
  <2>4. due'[t] = <<StoreOwn(m, NoSite)>>
    BY <1>1, <1>2, <1>4, <2>2, <2>3, FollowsMoves
  <2> QED  BY <2>4
<1> QED  BY <1>5, <1>6

LEMMA LockStepKeeps ==
    ASSUME OrdinaryMutexes, Books, Books', SiteBook, status = "running", NEW t \in Threads,
           LockStep(t)
    PROVE  SiteBook'
<1>1. SiteTypes'
  BY LockStepSites, MovesDue DEF SiteBook, SiteTypes
<1>2. SitesOff'
  BY LockStepSites, MovesDue DEF SiteBook, SitesOff
<1>3. \A u \in Threads : (DuePlaces(u) /\ WaitSite(u) /\ AcquireSite(u))'
  BY OtherLockStep, MovesDue, MovesSites
<1>4. \A u \in Threads, m \in Locks : OwnerSite(u, m)'
  BY OtherLockStep, MovesSites
<1>5. ReportShowsRightSites'
  BY LockStepSites DEF SiteBook, ReportShowsRightSites
<1> QED
  BY <1>1, <1>2, <1>3, <1>4, <1>5, MovesFree DEF SiteBook

LEMMA SiteBookStutter ==
    ASSUME SiteBook, UNCHANGED <<vars, sitesOn, site, lockedAt, due, ownerPc, waitPc, wrong>>
    PROVE  SiteBook'
<1>1. \A u \in Threads : (DuePlaces(u) /\ WaitSite(u) /\ AcquireSite(u))'
  BY OtherSite DEF SiteBook
<1>2. \A u \in Threads, m \in Locks : OwnerSite(u, m)'
  BY DEF SiteBook, OwnerSite, vars
<1>3. \A m \in Locks : FreeSite(m)'
  BY DEF SiteBook, FreeSite, vars, StoreOwn
<1> QED
  BY <1>1, <1>2, <1>3 DEF SiteBook, SiteTypes, SitesOff, ReportShowsRightSites

LEMMA SiteBookStep ==
    ASSUME OrdinaryMutexes
    PROVE  Books /\ Books' /\ SiteBook /\ [SitesNext]_allVars => SiteBook'
<1> SUFFICES ASSUME Books, Books', SiteBook, [SitesNext]_allVars PROVE SiteBook'
  OBVIOUS
<1>1. CASE UNCHANGED allVars
  <2>1. UNCHANGED <<vars, sitesOn, site, lockedAt, due, ownerPc, waitPc, wrong>>
    BY <1>1 DEF allVars, siteVars
  <2> QED  BY <2>1, SiteBookStutter
<1>2. CASE Exited /\ UNCHANGED siteVars
  <2>1. UNCHANGED <<vars, sitesOn, site, lockedAt, due, ownerPc, waitPc, wrong>>
    BY <1>2 DEF Exited, siteVars
  <2> QED  BY <2>1, SiteBookStutter
<1> QED
  BY <1>1, <1>2, LockStepKeeps, SiteStepKeeps DEF SitesNext

-----------------------------------------------------------------------------
(* The theorems. *)

LEMMA SiteBookAlways == ASSUME OrdinaryMutexes PROVE SitesSpec => [](Books /\ SiteBook)
<1>1. SitesInit => Books /\ SiteBook
  BY SiteBookInit, TypeInvInit, BooksInit DEF SitesInit, Books
<1>2. Books /\ SiteBook /\ [SitesNext]_allVars => (Books /\ SiteBook)'
  BY SitesStep, BooksStep, SiteBookStep
<1> QED
  BY <1>1, <1>2, PTL DEF SitesSpec, allVars

\* A recorded site is never a wrong one, although it is stored and cleared in
\* words of its own beside the record it explains, while others store theirs
\* (lockdep_store_owner_acquire_pc, lockdep_clear_owner_acquire_pc).
THEOREM SitesCorrect ==
    ASSUME OrdinaryMutexes PROVE SitesSpec => []SitesRightOrUnknown
<1>1. Books /\ SiteBook => SitesRightOrUnknown
  <2> SUFFICES ASSUME Books, SiteBook PROVE SitesRightOrUnknown
    OBVIOUS
  <2>1. ASSUME NEW m \in Locks, NEW t \in Threads, owner[m] = t, holder[m] = t
        PROVE  ownerPc[m] \in {NoSite, lockedAt[t][m]}
    BY <2>1 DEF SiteBook, OwnerSite
  <2>2. ASSUME NEW t \in Threads, waiting[t] # NoLock
        PROVE  waitPc[t] = site[t] \/ StoreWait(t, site[t]) \in Due(t)
    <3>1. pc[t] \in WaitPoints \cup {"acquire_wait"} /\ WaitSite(t) /\ DuePlaces(t)
      BY <2>2 DEF Books, WaitBook, SiteBook
    <3>2. CASE waitPc[t] = site[t]
      BY <3>2
    <3>3. CASE waitPc[t] # site[t]
      <4>1. due[t] = <<StoreWait(t, site[t])>>
        BY <3>1, <3>3 DEF WaitSite, DuePlaces
      <4>2. due[t][1] = StoreWait(t, site[t]) /\ 1 \in 1..Len(due[t])
        BY <4>1
      <4> QED  BY <4>2 DEF Due
    <3> QED  BY <3>2, <3>3
  <2> QED  BY <2>1, <2>2 DEF SitesRightOrUnknown
<1> QED
  BY <1>1, SiteBookAlways, PTL

\* No site outlives the record it belongs to, on any way out of the hooks
\* (lockdep_cancel_wait, lockdep_release_top_level_mutex_fast).
THEOREM SitesCleared ==
    ASSUME OrdinaryMutexes PROVE SitesSpec => []NoSiteLeftBehind
<1>1. Books /\ SiteBook => NoSiteLeftBehind
  <2> SUFFICES ASSUME Books, SiteBook PROVE NoSiteLeftBehind
    OBVIOUS
  <2>1. ASSUME NEW t \in Threads, pc[t] = "idle", due[t] = << >> PROVE waitPc[t] = NoSite
    BY <2>1 DEF SiteBook, WaitSite, WaitPoints, WalkPoints
  <2>2. ASSUME NEW m \in Locks, holder[m] = NoThread, owner[m] = NoThread,
               \A t \in Threads : StoreOwn(m, NoSite) \notin Due(t)
        PROVE  ownerPc[m] = NoSite
    <3>1. ASSUME NEW t \in Threads PROVE due[t] # <<StoreOwn(m, NoSite)>>
      <4> SUFFICES ASSUME due[t] = <<StoreOwn(m, NoSite)>> PROVE FALSE
        OBVIOUS
      <4>1. due[t][1] = StoreOwn(m, NoSite) /\ 1 \in 1..Len(due[t])
        OBVIOUS
      <4> QED  BY <2>2, <4>1 DEF Due
    <3> QED  BY <2>2, <3>1 DEF SiteBook, FreeSite
  <2> QED  BY <2>1, <2>2 DEF NoSiteLeftBehind
<1> QED
  BY <1>1, SiteBookAlways, PTL

\* A report of a deadlock that exists shows no wrong site, although it reads them
\* one by one while other threads go on (lockdep_report_actual_deadlock).
THEOREM ReportsCorrect ==
    ASSUME OrdinaryMutexes PROVE SitesSpec => []ReportShowsRightSites
<1>1. SiteBook => ReportShowsRightSites
  BY DEF SiteBook
<1> QED
  BY <1>1, SiteBookAlways, PTL

=============================================================================
