------------------------------ MODULE QueueOps ------------------------------
(***************************************************************************)
(* The upcoming queue as a value: core/src/queue.rs.                       *)
(*                                                                         *)
(* A queue is a sequence of entries [qid, passage].  The scheduled         *)
(* shutdown of a player is an entry like any other whose passage is the    *)
(* model value Shutdown (is_shutdown in the code).  What an entry says     *)
(* about its audio (leads, fades, naming) is left to the modules that      *)
(* need it.  Every operator is pure; the state machines own the state.     *)
(***************************************************************************)
EXTENDS Integers, Sequences

CONSTANT Shutdown       \* the passage of a scheduled shutdown entry

Least(a, b) == IF a < b THEN a ELSE b
Clamp(x, low, high) == IF x < low THEN low ELSE IF x > high THEN high ELSE x

\* Altered form of Stamped: every identifier one too late.
StampedLate(id, batch) ==
    [i \in 1..Len(batch) |-> [qid |-> id + i, passage |-> batch[i]]]

\* A batch of passages stamped with consecutive identifiers from `id` on.
Stamped(id, batch) ==
    [i \in 1..Len(batch) |-> [qid |-> id + i - 1, passage |-> batch[i]]]

\* The entries of `es` laid into q after its first `at`.
Splice(q, at, es) == SubSeq(q, 1, at) \o es \o SubSeq(q, at + 1, Len(q))

\* q without its i-th entry.
Cut(q, i) == SubSeq(q, 1, i - 1) \o SubSeq(q, i + 1, Len(q))

\* q without x, which is in it at most once.
Without(q, x) ==
    IF \E i \in 1..Len(q) : q[i] = x THEN Cut(q, CHOOSE i \in 1..Len(q) : q[i] = x)
    ELSE q

Push(q, id, batch) == q \o Stamped(id, batch)

InsertAt(q, id, at, batch) == Splice(q, Least(at, Len(q)), Stamped(id, batch))

HasShutdown(q) == \E i \in 1..Len(q) : q[i].passage = Shutdown

\* The places in q of the entry a listener named.
At(q, qid) == {i \in 1..Len(q) : q[i].qid = qid}

\* Remove keeps whatever does not carry the identifier; identifiers are
\* never reused, so at most one entry goes.
Remove(q, qid) ==
    IF At(q, qid) = {} THEN q ELSE Cut(q, CHOOSE i \in At(q, qid) : TRUE)

\* Where the entry at place i lands when moved `delta` places.
ShiftedTo(q, i, delta) == Clamp(i + delta, 1, Len(q))

\* Altered form of Moved: passages change places and identifiers stay.
PassagesSwapped(q, i, to) ==
    [q EXCEPT ![i].passage = q[to].passage, ![to].passage = q[i].passage]

\* The queue with its entry at place i moved to place `to`.
Moved(q, i, to) == Splice(Cut(q, i), to - 1, <<q[i]>>)

\* A move past an end stops there, and the shutdown itself is never moved.
Shift(q, qid, delta) ==
    IF At(q, qid) = {} THEN q
    ELSE LET i == CHOOSE i \in At(q, qid) : TRUE
         IN  IF q[i].passage = Shutdown THEN q
             ELSE Moved(q, i, ShiftedTo(q, i, delta))

-----------------------------------------------------------------------------
(* The timing rule: when the next passage is admitted.                     *)

\* The overlap two leads ask for, never longer than either passage.
Overlap(leadOut, leadIn, spanA, spanB) ==
    Least(Least(leadOut, leadIn), Least(spanA, spanB))

ShouldAdmit(spanA, played, overlap) ==
    (IF played < spanA THEN spanA - played ELSE 0) <= overlap
=============================================================================
