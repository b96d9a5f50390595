------------------------------ MODULE CallSites ------------------------------
(***************************************************************************)
(* Call-site recording (LOCKDEP_REPORT_SITES) on top of ActualDeadlock:    *)
(* the call site stored beside each owner record and each published wait,  *)
(* and the sites the report of an actual deadlock reads (log.c).           *)
(*                                                                         *)
(* Every step is a step of ActualDeadlock by a thread that has no access   *)
(* to a site outstanding, or one such access, which leaves the state of    *)
(* ActualDeadlock alone.  A step says which accesses follow it in the code *)
(* (due), and the thread makes them one by one before its next step.       *)
(* Memory is sequentially consistent.                                      *)
(***************************************************************************)
EXTENDS ActualDeadlock

CONSTANTS
    Sites,   \* return addresses of the program's lock calls
    SitesOf, \* the ones at which a given thread locks a given mutex
    NoSite   \* (uintptr_t)0, printed as "unknown"

ASSUME SitesAssumption ==
    /\ NoSite \notin Sites
    /\ SitesOf \in [Threads -> [Locks -> SUBSET Sites]]
    /\ ~StoreBuffers

VARIABLES
    sitesOn,   \* g_report_sites_enabled
    site,      \* acquire_pc or waiting_pc of t's current call
    ownerPc,   \* g_lock_slots[m].owner_acquire_pc
    waitPc,    \* g_thread_slots[t].waiting_on_pc
    due,       \* the accesses to sites t makes before its next step
    wrong,     \* history: t's report of what was the case has shown a wrong site
    lockedAt   \* history: the call by which t last locked m, while it holds m

siteVars == <<sitesOn, site, ownerPc, waitPc, due, wrong, lockedAt>>

SitesInit ==
    /\ Init
    /\ sitesOn \in BOOLEAN
    /\ site     = [t \in Threads |-> NoSite]
    /\ ownerPc  = [m \in Locks |-> NoSite]
    /\ waitPc   = [t \in Threads |-> NoSite]
    /\ due      = [t \in Threads |-> << >>]
    /\ wrong    = [t \in Threads |-> FALSE]
    /\ lockedAt = [t \in Threads |-> [m \in Locks |-> NoSite]]

-----------------------------------------------------------------------------
(* Which accesses follow a step.                                           *)

\* An access to the site of thread u's wait or to that of lock l's owner.
StoreWait(u, s)  == [op |-> "store_wait",  thread |-> u, site |-> s]
StoreOwn(l, s)   == [op |-> "store_owner", lock |-> l, site |-> s]
ReadWait(u)      == [op |-> "read_wait",   thread |-> u]
ReadOwn(l)       == [op |-> "read_owner",  lock |-> l]

\* Mutant: the site is stored after the owner.
SiteAfterOwner(t) ==
    IF pc[t] \in {"top_acquire", "store_owner"}
    THEN <<StoreOwn(arg[t], site[t])>> ELSE << >>

\* Before the owner store comes the store of the site: after the real lock
\* of a thread with nothing held, or after the push.
StoreOwnerPc(t) ==
    IF pc'[t] \in {"top_acquire", "store_owner"}
    THEN <<StoreOwn(arg'[t], site'[t])>> ELSE << >>

\* Mutant: the site of a wait is left behind.
WaitPcLeft(t) ==
    IF pc[t] = "before_block" THEN <<StoreWait(t, site[t])>> ELSE << >>

\* The wait has been published, or cleared.
WaitPcFollows(t) ==
    CASE pc[t] = "before_block" -> <<StoreWait(t, site[t])>>
      [] pc[t] = "acquire_wait" \/ (pc[t] = "real_lock" /\ pc'[t] = "idle")
            -> <<StoreWait(t, NoSite)>>
      [] OTHER -> << >>

\* lockdep_clear_owner_acquire_pc, if the compare-and-swap succeeded.
ClearOwnerPc(t) ==
    IF pc[t] = "release" /\ owner[arg[t]] = t
    THEN <<StoreOwn(arg[t], NoSite)>> ELSE << >>

\* The report reads two words for each hop of the chain; threads are the ones
\* it takes for the waiters.
HopReads(hops, threads) ==
    [k \in 1..(2 * Len(hops)) |->
        LET i == (k + 1) \div 2 IN
        IF k % 2 = 1 THEN ReadWait(threads[i]) ELSE ReadOwn(hops[i].lock)]

\* Mutant: the wait's site is read from the owner's slot.
ReadsOneOff(t) ==
    LET owners == [i \in 1..Len(chain'[t]) |-> chain'[t][i].owner] IN
    IF pc[t] = "load_owner" /\ pc'[t] = "exit66" THEN HopReads(chain'[t], owners) ELSE << >>

\* The walk has closed its chain.
ReportReads(t) ==
    LET waiters == [i \in 1..Len(chain'[t]) |->
                        IF i = 1 THEN t ELSE chain'[t][i - 1].owner] IN
    IF pc[t] = "load_owner" /\ pc'[t] = "exit66" THEN HopReads(chain'[t], waiters) ELSE << >>

Follows(t) ==
    IF sitesOn THEN WaitPcFollows(t) \o StoreOwnerPc(t) \o ClearOwnerPc(t) \o ReportReads(t)
    ELSE << >>

-----------------------------------------------------------------------------
(* Steps.                                                                  *)

\* lockdep_capture_callsite_if_enabled on entry; a call that has returned
\* has no site any more.
CaptureCallsite(t) ==
    CASE pc[t] = "idle" /\ pc'[t] \notin {"idle", "release", "cond_wait"} /\ sitesOn
            -> \E s \in SitesOf[t][arg'[t]] : site' = [site EXCEPT ![t] = s]
      [] pc'[t] = "idle" -> site' = [site EXCEPT ![t] = NoSite]
      [] OTHER -> UNCHANGED site

\* History: t has got the mutex, or has given it back.
NoteLocked(t) ==
    lockedAt' = [lockedAt EXCEPT ![t] =
        [m \in Locks |->
            IF m # arg'[t] /\ m # arg[t] THEN @[m]
            ELSE IF depth'[m] > depth[m] THEN site'[t]
            ELSE IF holder'[m] # t THEN NoSite
            ELSE @[m]]]

\* A step of ActualDeadlock, by a thread with no access to a site due.
LockStep(t) ==
    /\ due[t] = << >>
    /\ Internal(t) \/ Call(t)
    /\ CaptureCallsite(t)
    /\ NoteLocked(t)
    /\ due' = [due EXCEPT ![t] = Follows(t)]
    /\ UNCHANGED <<sitesOn, ownerPc, waitPc, wrong>>

StoreSite(t, a) ==
    /\ \/ /\ a.op = "store_wait"
          /\ waitPc' = [waitPc EXCEPT ![a.thread] = a.site]
          /\ UNCHANGED ownerPc
       \/ /\ a.op = "store_owner"
          /\ ownerPc' = [ownerPc EXCEPT ![a.lock] = a.site]
          /\ UNCHANGED waitPc
    /\ UNCHANGED wrong

\* t's chain describes what is the case: each of its threads waits for the
\* mutex beside it, for good, and the next one holds that mutex.
ChainIsCurrent(t) ==
    \A i \in 1..Len(chain[t]) :
        LET u == Waiter(t, i) IN
        /\ pc[u] \in WaitPoints
        /\ arg[u] = chain[t][i].lock
        /\ holder[arg[u]] = chain[t][i].owner
        /\ ~LockFails(u, arg[u])

\* lockdep_report_actual_deadlock: one site it prints beside the i-th hop.
ReadSite(t, a) ==
    LET i   == Len(chain[t]) - (Len(due[t]) - 1) \div 2
        hop == chain[t][i]
        shown == IF a.op = "read_wait" THEN waitPc[a.thread] ELSE ownerPc[a.lock]
        right == IF a.op = "read_wait" THEN site[Waiter(t, i)]
                                       ELSE lockedAt[hop.owner][hop.lock]
    IN  /\ a.op \in {"read_wait", "read_owner"}
        /\ wrong' = [wrong EXCEPT ![t] = @ \/ (ChainIsCurrent(t) /\ shown \notin {NoSite, right})]
        /\ UNCHANGED <<ownerPc, waitPc>>

SiteStep(t) ==
    /\ due[t] # << >>
    /\ StoreSite(t, Head(due[t])) \/ ReadSite(t, Head(due[t]))
    /\ due' = [due EXCEPT ![t] = Tail(@)]
    /\ UNCHANGED <<vars, sitesOn, site, lockedAt>>

SitesNext ==
    \/ /\ status = "running"
       /\ \E t \in Threads : LockStep(t) \/ SiteStep(t)
    \/ Exited /\ UNCHANGED siteVars

SitesSpec == SitesInit /\ [][SitesNext]_<<vars, siteVars>>

\* A thread inside a hook goes on; nothing is assumed of the application.
SitesFairness ==
    \A t \in Threads :
        WF_<<vars, siteVars>>(status = "running"
            /\ (SiteStep(t) \/ (Internal(t) /\ LockStep(t))))

FairSitesSpec == SitesSpec /\ SitesFairness

-----------------------------------------------------------------------------
(* Properties.                                                             *)

Due(t) == {due[t][i] : i \in 1..Len(due[t])}

\* A recorded site is never a wrong one.  Beside an owner record that names
\* the holder stands the site by which that thread locked the mutex, or none
\* (a previous owner's late clear has erased it); beside a wait stands its own
\* site, except between the two stores.
SitesRightOrUnknown ==
    /\ \A m \in Locks : \A t \in Threads :
          owner[m] = t /\ holder[m] = t =>
              ownerPc[m] \in {NoSite, lockedAt[t][m]}
    /\ \A t \in Threads :
          waiting[t] # NoLock =>
              \/ waitPc[t] = site[t]
              \/ StoreWait(t, site[t]) \in Due(t)

\* No site outlives the record it belongs to: a thread outside the hooks has
\* no waiting site, and a mutex nobody owns and nobody is acquiring or
\* releasing has no owner site.
NoSiteLeftBehind ==
    /\ \A t \in Threads : pc[t] = "idle" /\ due[t] = << >> => waitPc[t] = NoSite
    /\ \A m \in Locks :
          (/\ holder[m] = NoThread /\ owner[m] = NoThread
           /\ \A t \in Threads : StoreOwn(m, NoSite) \notin Due(t))
          => ownerPc[m] = NoSite

\* As long as the deadlock it reports exists, a report shows no wrong site: the
\* sites it reads one by one, while the process goes on, are those of the waits
\* and acquires in its chain, or unknown.
ReportShowsRightSites == \A t \in Threads : ~wrong[t]

=============================================================================
