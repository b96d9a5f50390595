----------------------------- MODULE EventQueues -----------------------------
(***************************************************************************)
(* What the rings and the worker of the rb backend promise together: every *)
(* thread has a queue of events, first in, first out, of at most Capacity  *)
(* events; an event leaves its queue once, into the batch; and a batch is  *)
(* not given up before each of its orders is recorded.                     *)
(***************************************************************************)
EXTENDS Naturals, Sequences

CONSTANTS
    Producers,   \* the threads with a queue
    Locks,       \* mutexes
    Capacity     \* the events a queue can hold

VARIABLES
    queue,       \* queue[t]: the events thread t has handed over, oldest first
    batch,       \* the orders taken from the queues
    recorded     \* the orders recorded so far

vars == <<queue, batch, recorded>>

Events == [to : Locks, from : SUBSET Locks]

OrdersIn(ev) == {<<l, ev.to>> : l \in ev.from}

Init == queue = [t \in Producers |-> << >>] /\ batch = {} /\ recorded = {}

\* A thread hands over an event.
Put(t, ev) ==
    /\ UNCHANGED <<batch, recorded>>
    /\ Len(queue[t]) < Capacity
    /\ queue' = [queue EXCEPT ![t] = Append(@, ev)]

Members(q) == {q[i] : i \in 1..Len(q)}

\* The event is one that is in the queue afterwards.
HandOver(t) == \E ev \in Events \cap Members(queue'[t]) : Put(t, ev)

\* The oldest event of a queue goes into the batch.
Take(t) ==
    /\ queue[t] # << >>
    /\ batch' = batch \cup OrdersIn(Head(queue[t]))
    /\ queue' = [queue EXCEPT ![t] = Tail(@)]
    /\ UNCHANGED recorded

\* An order of the batch is recorded.
Record(e) ==
    /\ e \in batch \ recorded
    /\ recorded' = recorded \cup {e}
    /\ UNCHANGED <<queue, batch>>

NewBatch ==
    /\ batch \subseteq recorded
    /\ batch' = {}
    /\ UNCHANGED <<queue, recorded>>

Next ==
    \/ \E t \in Producers : HandOver(t) \/ Take(t)
    \/ \E e \in batch : Record(e)
    \/ NewBatch

Spec == Init /\ [][Next]_vars

=============================================================================
