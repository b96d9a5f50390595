----------------------------- MODULE PathSearch ------------------------------
(***************************************************************************)
(* The depth-first search of both potential-deadlock backends: before the  *)
(* edge from -> to is inserted it looks for a path of recorded edges back  *)
(* from to to from, and the chain for the report is read back from its     *)
(* parent pointers.  GlobalGraph and RbBackend take the outcome, "there is *)
(* a path", in one step; here each call, each turn of a loop is one.       *)
(*                                                                         *)
(* The graph does not change meanwhile: it belongs to the worker, or to    *)
(* whoever has the spin lock.  The number of lock slots may grow (in rb    *)
(* mode nothing keeps other threads from meeting new mutexes), and every   *)
(* call loads it anew.                                                     *)
(***************************************************************************)
EXTENDS Integers, Sequences

CONSTANT MaxLockSlots   \* LOCKDEP_MAX_LOCK_SLOTS

ASSUME SlotsAssumption == MaxLockSlots \in Nat \ {0}

Slots  == 0..(MaxLockSlots - 1)
NoSlot == -1            \* LOCKDEP_INVALID_SLOT

Orders == INSTANCE LockGraph WITH Locks <- Slots

VARIABLES
    graph,      \* the adjacency matrix, as edges
    count,      \* g_lock_slot_count
    root,       \* to_lock_slot of the new edge, where the search begins
    target,     \* from_lock_slot of the new edge
    phase,      \* "call", "loop", "chain", "turn", "done"
    calls,      \* the calls under way, the outermost first
    visited,    \* visited[]
    parent,     \* parent[]
    found,      \* what the outermost call returns
    cursor,     \* cur_lock_slot: of a call that begins, or of the walk back
    reverse,    \* reverse_chain
    chain       \* existing_chain

graphVars == <<graph, root, target>>
vars == <<graphVars, count, phase, calls, visited, parent, found, cursor, reverse, chain>>

\* A call of the search: its slot, how many slots it saw, where its loop is.
Call == [slot : Slots, limit : 0..MaxLockSlots, next : 0..MaxLockSlots]

\* Any graph on the slots there are, and an edge that is not in it.
Init ==
    /\ count \in 1..MaxLockSlots
    /\ root \in 0..(count - 1) /\ target \in 0..(count - 1) /\ root # target
    /\ graph \in SUBSET {e \in Orders!Edges : e[1] < count /\ e[2] < count}
    /\ <<target, root>> \notin graph
    /\ phase   = "call"
    /\ calls   = << >>
    /\ visited = {}
    /\ parent  = [s \in Slots |-> NoSlot]
    /\ found   = FALSE
    /\ cursor  = root
    /\ reverse = << >>
    /\ chain   = << >>

-----------------------------------------------------------------------------
(* lockdep_find_path_locked and lockdep_rb_find_path.                      *)

\* The target is reached: this call returns 1, and so does every call under way
\* without doing anything else.
FindTarget ==
    /\ phase = "call" /\ cursor = target
    /\ found' = TRUE
    /\ phase' = "chain"
    /\ UNCHANGED <<graphVars, count, calls, visited, parent, cursor, reverse, chain>>

\* Mutant: the slot is not marked.
MarkNothing(s) == visited

Mark(s) == visited \cup {s}

EnterCall ==
    /\ phase = "call" /\ cursor # target
    /\ calls' = Append(calls, [slot |-> cursor, limit |-> count, next |-> 0])
    /\ visited' = Mark(cursor)
    /\ phase' = "loop"
    /\ UNCHANGED <<graphVars, count, parent, found, cursor, reverse, chain>>

Innermost == calls[Len(calls)]

\* Mutant: the loop stands still.
SameTurn == UNCHANGED calls

NextTurn == calls' = [calls EXCEPT ![Len(calls)].next = @ + 1]

\* Mutant: the last slot is left out.
StopsShort(c) == c.next + 1 < c.limit

LoopGoesOn(c) == c.next < c.limit

MustVisit(c) == <<c.slot, c.next>> \in graph /\ c.next \notin visited

PassOver ==
    /\ phase = "loop" /\ LoopGoesOn(Innermost)
    /\ ~MustVisit(Innermost)
    /\ NextTurn
    /\ UNCHANGED <<graphVars, count, phase, visited, parent, found, cursor, reverse, chain>>

\* Mutant: the pointer goes the wrong way.
PointToChild(s, next) == parent' = [parent EXCEPT ![s] = next]

SetParent(s, next) == parent' = [parent EXCEPT ![next] = s]

Descend ==
    /\ phase = "loop" /\ LoopGoesOn(Innermost)
    /\ MustVisit(Innermost)
    /\ SetParent(Innermost.slot, Innermost.next)
    /\ cursor' = Innermost.next
    /\ phase' = "call"
    /\ NextTurn
    /\ UNCHANGED <<graphVars, count, visited, found, reverse, chain>>

\* The loop is over: the call returns 0, and its caller's loop goes on.
BackOut ==
    /\ phase = "loop" /\ ~LoopGoesOn(Innermost)
    /\ calls' = SubSeq(calls, 1, Len(calls) - 1)
    /\ phase' = IF Len(calls) = 1 THEN "done" ELSE "loop"
    /\ UNCHANGED <<graphVars, count, visited, parent, found, cursor, reverse, chain>>

-----------------------------------------------------------------------------
(* lockdep_add_edge_and_check_cycle and lockdep_rb_report_cycle_if_any:    *)
(* the chain, backwards from the target, and turned round.                 *)

ReadsOn(s, n) == s # NoSlot /\ n < MaxLockSlots

ReadParent ==
    /\ phase = "chain"
    /\ reverse' = Append(reverse, cursor)
    /\ IF cursor = root
       THEN phase' = "turn" /\ UNCHANGED cursor
       ELSE /\ cursor' = parent[cursor]
            /\ phase' = IF ReadsOn(parent[cursor], Len(reverse) + 1) THEN "chain" ELSE "turn"
    /\ UNCHANGED <<graphVars, count, calls, visited, parent, found, chain>>

\* A chain that does not lead back to the root is not used.
TurnRound ==
    /\ phase = "turn"
    /\ chain' = IF reverse[Len(reverse)] = root
                THEN [i \in 1..Len(reverse) |-> reverse[Len(reverse) + 1 - i]]
                ELSE << >>
    /\ phase' = "done"
    /\ UNCHANGED <<graphVars, count, calls, visited, parent, found, cursor, reverse>>

\* A thread meets a new mutex.
CreateSlot ==
    /\ count < MaxLockSlots
    /\ count' = count + 1
    /\ UNCHANGED <<graphVars, phase, calls, visited, parent, found, cursor, reverse, chain>>

Search == \/ FindTarget \/ EnterCall \/ PassOver \/ Descend \/ BackOut
          \/ ReadParent \/ TurnRound

Next == Search \/ CreateSlot

Spec == Init /\ [][Next]_vars

\* The searching thread goes on.
FairSpec == Spec /\ WF_vars(Search)

-----------------------------------------------------------------------------
(* Properties.                                                             *)

\* The types; no slot is entered twice at a time, so the calls nest no deeper
\* than there are slots, and the arrays of the chain do not overflow.
TypeOK ==
    /\ graph  \subseteq Orders!Edges
    /\ count  \in 1..MaxLockSlots
    /\ root \in Slots /\ target \in Slots
    /\ phase  \in {"call", "loop", "chain", "turn", "done"}
    /\ calls  \in Seq(Call)
    /\ Len(calls) < MaxLockSlots
    /\ visited \subseteq Slots
    /\ parent \in [Slots -> Slots \cup {NoSlot}]
    /\ found  \in BOOLEAN
    /\ cursor \in Slots
    /\ reverse \in Seq(Slots) /\ chain \in Seq(Slots)
    /\ Len(reverse) <= MaxLockSlots

\* The search finds a path exactly if there is one, however the numbers of the
\* slots lead it astray and whatever slots are created meanwhile.
SearchIsRight ==
    phase \in {"chain", "turn", "done"} => (found <=> Orders!Reaches(graph, root, target))

\* c is a path of E from a to b that visits no lock twice.
IsSimplePath(E, c, a, b) ==
    /\ c # << >> /\ c[1] = a /\ c[Len(c)] = b
    /\ \A i \in 1..(Len(c) - 1) : <<c[i], c[i + 1]>> \in E
    /\ \A i, j \in 1..Len(c) : c[i] = c[j] => i = j

\* What is read back from the pointers is a path of recorded edges from the new
\* edge's end to its start, whose edges have the information the report prints;
\* pointers of searches that backed out do not get into it.
ChainIsPath ==
    phase = "done" /\ found => IsSimplePath(graph, chain, root, target)

\* The search ends, also on a cyclic graph.
SearchEnds == <>(phase = "done")

=============================================================================
