------------------------------ MODULE Rotation ------------------------------
(***************************************************************************)
(* What the Director remembers of what was last played, on the keys a      *)
(* passage is rotated by -- itself, its recording, its works, its artists  *)
(* -- and the marks of passages coming, which are stamped on the same keys *)
(* before anybody hears them and may have to be taken back.                *)
(*                                                                         *)
(* A time is one of three: never, long ago, or in this run.                *)
(***************************************************************************)
EXTENDS Naturals, FiniteSets

CONSTANTS
    Passages,
    Keys,           \* MarkKey: of passages, recordings, works and artists
    KeysOf          \* the keys of each passage

ASSUME KeysAssumption == KeysOf \in [Passages -> SUBSET Keys]

Never == 0
LongAgo == 1
Recent == 2
Times == {Never, LongAgo, Recent}

Latest(a, b) == IF a > b THEN a ELSE b

\* A Director as load builds it from the history read: it holds no mark.
Loaded(history) ==
    [built |-> TRUE, stamp |-> history.played, before |-> [k \in Keys |-> Never],
     open |-> [k \in Keys |-> 0], windows |-> history.rejected]

NoDirector ==
    [built |-> FALSE, stamp |-> [k \in Keys |-> Never], before |-> [k \in Keys |-> Never],
     open |-> [k \in Keys |-> 0], windows |-> {}]

\* Director::note_queued: what a key held before its first open mark is kept.
NoteQueued(d, p) ==
    [d EXCEPT
        !.before = [k \in Keys |-> IF k \in KeysOf[p] /\ d.open[k] = 0 THEN d.stamp[k] ELSE @[k]],
        !.open   = [k \in Keys |-> IF k \in KeysOf[p] THEN @[k] + 1 ELSE @[k]],
        !.stamp  = [k \in Keys |-> IF k \in KeysOf[p] THEN Latest(@[k], Recent) ELSE @[k]]]

\* What a key held before its marks, once one of them is closed.
BeforeOnceClosed(d, k, keep) == IF keep THEN Latest(d.before[k], Recent) ELSE d.before[k]

\* Director::resolve: recomputed from what was there before and what is still
\* open, and so exact in whatever order marks are closed.
Resolve(d, p, keep) ==
    [d EXCEPT
        !.open   = [k \in Keys |-> IF k \in KeysOf[p] THEN @[k] - 1 ELSE @[k]],
        !.before = [k \in Keys |-> IF k \notin KeysOf[p] THEN @[k]
                                   ELSE IF d.open[k] = 1 THEN Never
                                   ELSE BeforeOnceClosed(d, k, keep)],
        !.stamp  = [k \in Keys |-> IF k \notin KeysOf[p] THEN @[k]
                                   ELSE IF d.open[k] > 1 THEN Recent
                                   ELSE BeforeOnceClosed(d, k, keep)]]

\* Director::note_rejection
NoteRejection(d, p) == [d EXCEPT !.windows = @ \cup {p}]

\* decide: what rotation leaves in the running, and decide_relaxed: with
\* rotation set aside and the windows of what was declined kept.
Rotated(d, p) == \A k \in KeysOf[p] : d.stamp[k] # Recent
Running(d, skip) == {p \in Passages \ (skip \cup d.windows) : Rotated(d, p)}
Relaxed(d, skip) == Passages \ (skip \cup d.windows)
=============================================================================
