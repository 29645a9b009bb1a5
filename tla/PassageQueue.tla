---------------------------- MODULE PassageQueue ----------------------------
(***************************************************************************)
(* The upcoming queue as a state machine: every way core/src/queue.rs lets *)
(* the engine, the listener and the Director change it.                    *)
(***************************************************************************)
EXTENDS QueueOps

CONSTANTS
    Passages,       \* what may be queued
    MaxQid,         \* bound: identifiers given out
    MaxLen,         \* bound: length of the queue
    MaxBatch        \* bound: passages arriving in one command

ASSUME PassagesAssumption == Shutdown \notin Passages
ASSUME BoundsAssumption == MaxQid \in Nat /\ MaxLen \in Nat /\ MaxBatch \in Nat

VARIABLES
    queue,          \* Queue::entries
    nextQid         \* Queue::next_qid

vars == <<queue, nextQid>>

\* A passage and not the shutdown, which the listener cannot move.
IsPassage(e) == e.passage # Shutdown

Batches == UNION {[1..n -> Passages] : n \in 0..MaxBatch}

Entries == [qid : Nat, passage : Passages \cup {Shutdown}]

Init == queue = <<>> /\ nextQid = 1

\* The bounds a model checker needs: room for n more entries.
Room(n) == Len(queue) + n <= MaxLen /\ nextQid + n <= MaxQid

Enqueue(batch) ==
    /\ Room(Len(batch))
    /\ queue' = Push(queue, nextQid, batch)
    /\ nextQid' = nextQid + Len(batch)

EnqueueAt(at, batch) ==
    /\ Room(Len(batch))
    /\ queue' = InsertAt(queue, nextQid, at, batch)
    /\ nextQid' = nextQid + Len(batch)

EnqueueShutdown ==
    /\ Room(1)
    /\ ~HasShutdown(queue)
    /\ queue' = Push(queue, nextQid, <<Shutdown>>)
    /\ nextQid' = nextQid + 1

RemoveQueued(qid) ==
    /\ queue' = Remove(queue, qid)
    /\ UNCHANGED nextQid

ShiftQueued(qid, delta) ==
    /\ queue' = Shift(queue, qid, delta)
    /\ UNCHANGED nextQid

Advance ==
    /\ queue # <<>>
    /\ queue' = Tail(queue)
    /\ UNCHANGED nextQid

Clear ==
    /\ queue' = <<>>
    /\ UNCHANGED nextQid

ReplaceUpcoming(batch) ==
    /\ Len(batch) <= MaxLen /\ nextQid + Len(batch) <= MaxQid
    /\ queue' = Push(<<>>, nextQid, batch)
    /\ nextQid' = nextQid + Len(batch)

Next ==
    \/ \E batch \in Batches : Enqueue(batch)
    \/ \E batch \in Batches, at \in 0..(MaxLen + 1) : EnqueueAt(at, batch)
    \/ EnqueueShutdown
    \/ \E qid \in 1..MaxQid : RemoveQueued(qid)
    \/ \E qid \in 1..MaxQid, delta \in {-2, -1, 1, 2} : ShiftQueued(qid, delta)
    \/ Advance
    \/ Clear
    \/ \E batch \in Batches : ReplaceUpcoming(batch)

Spec == Init /\ [][Next]_vars

-----------------------------------------------------------------------------
(* A listener who names an entry names one: no two entries share an        *)
(* identifier, whatever was inserted, moved, removed or replaced.          *)
QidsDistinct ==
    \A i, j \in 1..Len(queue) : queue[i].qid = queue[j].qid => i = j

(* However often it is asked for, and whatever is queued around it, at     *)
(* most one shutdown waits (push_shutdown).                                *)
AtMostOneShutdown ==
    \A i, j \in 1..Len(queue) :
        queue[i].passage = Shutdown /\ queue[j].passage = Shutdown => i = j

(* Every entry carries an identifier of its own below the next one to be   *)
(* given out, and names a passage or the one shutdown.                     *)
TypeOK ==
    /\ queue \in Seq(Entries)
    /\ nextQid \in Nat
    /\ \A i \in 1..Len(queue) : queue[i].qid < nextQid
    /\ QidsDistinct
    /\ AtMostOneShutdown

\* The contract of identifiers, implemented.
Waiting == {queue[i] : i \in 1..Len(queue)}
Identity == INSTANCE EntryIdentity WITH entries <- Waiting, nextQid <- nextQid
IdentityKept == Identity!Spec
=============================================================================
