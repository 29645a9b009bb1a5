---------------------------- MODULE MarksProofs -----------------------------
(***************************************************************************)
(* What Director::resolve promises of marks, for any passages and keys:    *)
(* that it is exact, in whatever order marks are closed.  And what the     *)
(* session makes of it: every mark has the note that will close it, what   *)
(* was not heard leaves no trace, and what was heard or is coming is       *)
(* known, whatever the backend says and whenever the Director is replaced. *)
(*                                                                         *)
(* A refill goes through lists.  A fold is a function on the indices of    *)
(* its list, which exists (RunExists) and stays where its steps stay       *)
(* (RunStays): both by the least index where it would not.                 *)
(*                                                                         *)
(* The last part keeps accounts (KInv): of every passage, what may yet be  *)
(* told of it against the marks noted of it (Balanced).                    *)
(***************************************************************************)
EXTENDS Marks, SequenceTheorems, FiniteSetTheorems, TLAPS

Directors ==
    [built : BOOLEAN, stamp : [Keys -> Times], before : [Keys -> Times],
     open : [Keys -> Nat], windows : SUBSET Passages]

\* A Director whose marks add up: nothing is kept of a key without an open
\* mark, and a key with one is stamped.
Consistent(d) ==
    /\ d \in Directors
    /\ \A k \in Keys : d.open[k] = 0 => d.before[k] = Never
    /\ \A k \in Keys : d.open[k] > 0 => d.stamp[k] = Recent

\* A mark of the passage may be closed: each of its keys has one open.
Marked(d, p) == \A k \in KeysOf[p] : d.open[k] > 0

LEMMA KeysAreKeys == \A p \in Passages : KeysOf[p] \subseteq Keys
BY KeysAssumption

LEMMA LatestIsRecent == \A t \in Times : Latest(t, Recent) = Recent
BY DEF Times, Latest, Never, LongAgo, Recent

LEMMA QueuedFields ==
    ASSUME NEW d \in Directors, NEW p \in Passages
    PROVE  LET e == NoteQueued(d, p) IN
           /\ e \in Directors
           /\ e.built = d.built /\ e.windows = d.windows
           /\ \A k \in Keys \ KeysOf[p] :
                 e.stamp[k] = d.stamp[k] /\ e.before[k] = d.before[k] /\ e.open[k] = d.open[k]
           /\ \A k \in KeysOf[p] :
                 /\ e.stamp[k] = Recent /\ e.open[k] = d.open[k] + 1
                 /\ e.before[k] = IF d.open[k] = 0 THEN d.stamp[k] ELSE d.before[k]
<1> DEFINE e == NoteQueued(d, p)
           b == [k \in Keys |-> IF k \in KeysOf[p] /\ d.open[k] = 0 THEN d.stamp[k] ELSE d.before[k]]
           o == [k \in Keys |-> IF k \in KeysOf[p] THEN d.open[k] + 1 ELSE d.open[k]]
           s == [k \in Keys |-> IF k \in KeysOf[p] THEN Recent ELSE d.stamp[k]]
<1>1. \A k \in Keys : d.stamp[k] \in Times /\ d.before[k] \in Times /\ d.open[k] \in Nat
  BY DEF Directors
<1>2. s \in [Keys -> Times] /\ b \in [Keys -> Times] /\ o \in [Keys -> Nat]
  BY <1>1 DEF Times, Recent
<1>3. e = [d EXCEPT !.before = b, !.open = o, !.stamp = s]
  <2>1. s = [k \in Keys |-> IF k \in KeysOf[p] THEN Latest(d.stamp[k], Recent) ELSE d.stamp[k]]
    BY <1>1, LatestIsRecent
  <2>2. QED
    BY <2>1 DEF NoteQueued
<1> HIDE DEF e, b, o, s
<1>4. e \in Directors /\ e.stamp = s /\ e.before = b /\ e.open = o
      /\ e.built = d.built /\ e.windows = d.windows
  BY <1>2, <1>3 DEF Directors
<1>5. QED
  BY <1>4, KeysAreKeys DEF e, b, o, s

LEMMA ResolvedFields ==
    ASSUME NEW d \in Directors, NEW p \in Passages, NEW keep \in BOOLEAN, Marked(d, p)
    PROVE  LET e == Resolve(d, p, keep) IN
           /\ e \in Directors
           /\ e.built = d.built /\ e.windows = d.windows
           /\ \A k \in Keys \ KeysOf[p] :
                 e.stamp[k] = d.stamp[k] /\ e.before[k] = d.before[k] /\ e.open[k] = d.open[k]
           /\ \A k \in KeysOf[p] :
                 /\ e.open[k] = d.open[k] - 1
                 /\ e.before[k] = IF d.open[k] = 1 THEN Never
                                  ELSE IF keep THEN Recent ELSE d.before[k]
                 /\ e.stamp[k] = IF d.open[k] > 1 \/ keep THEN Recent ELSE d.before[k]
<1> DEFINE e == Resolve(d, p, keep)
           once(k) == IF keep THEN Recent ELSE d.before[k]
           o == [k \in Keys |-> IF k \in KeysOf[p] THEN d.open[k] - 1 ELSE d.open[k]]
           b == [k \in Keys |-> IF k \notin KeysOf[p] THEN d.before[k]
                                ELSE IF d.open[k] = 1 THEN Never ELSE once(k)]
           s == [k \in Keys |-> IF k \notin KeysOf[p] THEN d.stamp[k]
                                ELSE IF d.open[k] > 1 THEN Recent ELSE once(k)]
<1>1. \A k \in Keys : d.stamp[k] \in Times /\ d.before[k] \in Times /\ d.open[k] \in Nat
  BY DEF Directors
<1>2. \A k \in Keys : BeforeOnceClosed(d, k, keep) = once(k) /\ once(k) \in Times
  BY <1>1, LatestIsRecent DEF BeforeOnceClosed, Times, Recent
<1>3. s \in [Keys -> Times] /\ b \in [Keys -> Times] /\ o \in [Keys -> Nat]
  <2>1. \A k \in KeysOf[p] : d.open[k] - 1 \in Nat
    BY <1>1, KeysAreKeys DEF Marked
  <2>2. Recent \in Times /\ Never \in Times
    BY DEF Times
  <2> HIDE DEF once
  <2>3. QED
    BY <1>1, <1>2, <2>1, <2>2
<1>4. e = [d EXCEPT !.open = o, !.before = b, !.stamp = s]
  <2>1. b = [k \in Keys |-> IF k \notin KeysOf[p] THEN d.before[k]
                            ELSE IF d.open[k] = 1 THEN Never ELSE BeforeOnceClosed(d, k, keep)]
    BY <1>2
  <2>2. s = [k \in Keys |-> IF k \notin KeysOf[p] THEN d.stamp[k]
                            ELSE IF d.open[k] > 1 THEN Recent ELSE BeforeOnceClosed(d, k, keep)]
    BY <1>2
  <2> HIDE DEF b, s
  <2>3. QED
    BY <2>1, <2>2 DEF Resolve
<1> HIDE DEF e, b, o, s
<1>5. e \in Directors /\ e.stamp = s /\ e.before = b /\ e.open = o
      /\ e.built = d.built /\ e.windows = d.windows
  BY <1>3, <1>4 DEF Directors
<1>6. ASSUME NEW k \in KeysOf[p]
      PROVE  /\ k \in Keys
             /\ o[k] = d.open[k] - 1
             /\ b[k] = IF d.open[k] = 1 THEN Never ELSE IF keep THEN Recent ELSE d.before[k]
             /\ s[k] = IF d.open[k] > 1 \/ keep THEN Recent ELSE d.before[k]
  BY KeysAreKeys DEF b, o, s
<1>7. \A k \in Keys \ KeysOf[p] : s[k] = d.stamp[k] /\ b[k] = d.before[k] /\ o[k] = d.open[k]
  BY DEF b, o, s
<1>8. QED
  BY <1>5, <1>6, <1>7 DEF e

\* Two Directors with the same stamps, marks and windows are one.
LEMMA SameDirector ==
    ASSUME NEW d \in Directors, NEW e \in Directors,
           d.built = e.built, d.windows = e.windows,
           \A k \in Keys : d.stamp[k] = e.stamp[k] /\ d.before[k] = e.before[k] /\ d.open[k] = e.open[k]
    PROVE  d = e
<1>1. d.stamp = e.stamp /\ d.before = e.before /\ d.open = e.open
  BY DEF Directors
<1>2. QED
  BY <1>1 DEF Directors

-----------------------------------------------------------------------------
\* Marking, closing and declining leave a Director whose marks add up.
THEOREM MarksAddUp ==
    ASSUME NEW d, Consistent(d), NEW p \in Passages
    PROVE  /\ Consistent(NoteQueued(d, p))
           /\ Marked(NoteQueued(d, p), p)
           /\ \A keep \in BOOLEAN : Marked(d, p) => Consistent(Resolve(d, p, keep))
           /\ Consistent(NoteRejection(d, p))
<1>1. d \in Directors /\ \A k \in Keys : d.open[k] \in Nat
  BY DEF Consistent, Directors
<1>2. Consistent(NoteQueued(d, p)) /\ Marked(NoteQueued(d, p), p)
  <2> DEFINE e == NoteQueued(d, p)
  <2>1. /\ e \in Directors
        /\ \A k \in Keys \ KeysOf[p] :
              e.stamp[k] = d.stamp[k] /\ e.before[k] = d.before[k] /\ e.open[k] = d.open[k]
        /\ \A k \in KeysOf[p] : e.stamp[k] = Recent /\ e.open[k] = d.open[k] + 1
    BY <1>1, QueuedFields
  <2> HIDE DEF e
  <2>2. \A k \in KeysOf[p] : e.open[k] > 0 /\ e.stamp[k] = Recent
    BY <1>1, <2>1, KeysAreKeys
  <2>3. ASSUME NEW k \in Keys
        PROVE  (e.open[k] = 0 => e.before[k] = Never) /\ (e.open[k] > 0 => e.stamp[k] = Recent)
    <3>1. CASE k \in KeysOf[p]
      BY <2>2, <3>1
    <3>2. CASE k \notin KeysOf[p]
      BY <2>1, <3>2 DEF Consistent
    <3>3. QED
      BY <3>1, <3>2
  <2>4. QED
    BY <2>1, <2>2, <2>3 DEF Consistent, Marked, e
<1>3. ASSUME NEW keep \in BOOLEAN, Marked(d, p)
      PROVE  Consistent(Resolve(d, p, keep))
  <2> DEFINE e == Resolve(d, p, keep)
  <2>1. /\ e \in Directors
        /\ \A k \in Keys \ KeysOf[p] :
              e.stamp[k] = d.stamp[k] /\ e.before[k] = d.before[k] /\ e.open[k] = d.open[k]
        /\ \A k \in KeysOf[p] :
              /\ e.open[k] = d.open[k] - 1
              /\ d.open[k] = 1 => e.before[k] = Never
              /\ d.open[k] > 1 => e.stamp[k] = Recent
    BY <1>1, <1>3, ResolvedFields
  <2> HIDE DEF e
  <2>2. \A k \in KeysOf[p] : d.open[k] \in Nat /\ d.open[k] > 0
    BY <1>1, <1>3, KeysAreKeys DEF Marked
  <2>3. ASSUME NEW k \in Keys
        PROVE  (e.open[k] = 0 => e.before[k] = Never) /\ (e.open[k] > 0 => e.stamp[k] = Recent)
    <3>1. CASE k \in KeysOf[p]
      BY <2>1, <2>2, <3>1
    <3>2. CASE k \notin KeysOf[p]
      BY <2>1, <3>2 DEF Consistent
    <3>3. QED
      BY <3>1, <3>2
  <2>4. QED
    BY <2>1, <2>3 DEF Consistent, e
<1>4. Consistent(NoteRejection(d, p))
  <2>1. NoteRejection(d, p) = [d EXCEPT !.windows = d.windows \cup {p}]
    BY DEF NoteRejection
  <2>2. d.windows \cup {p} \in SUBSET Passages
    BY <1>1 DEF Directors
  <2>3. QED
    BY <1>1, <2>1, <2>2 DEF Consistent, Directors
<1>5. QED
  BY <1>2, <1>3, <1>4

\* A passage queued and taken back unheard leaves the Director as it was: no
\* stamp, no mark, however many marks others hold on the same keys.
THEOREM TakenBackUnheard ==
    ASSUME NEW d, Consistent(d), NEW p \in Passages
    PROVE  Resolve(NoteQueued(d, p), p, FALSE) = d
<1> DEFINE e == NoteQueued(d, p)
           no == FALSE
           f == Resolve(e, p, no)
<1>1. d \in Directors /\ \A k \in Keys : d.open[k] \in Nat
  BY DEF Consistent, Directors
<1>2. e \in Directors /\ Marked(e, p)
  BY MarksAddUp DEF Consistent
<1>3. /\ e.built = d.built /\ e.windows = d.windows
      /\ \A k \in Keys \ KeysOf[p] :
            e.stamp[k] = d.stamp[k] /\ e.before[k] = d.before[k] /\ e.open[k] = d.open[k]
      /\ \A k \in KeysOf[p] :
            /\ e.stamp[k] = Recent /\ e.open[k] = d.open[k] + 1
            /\ e.before[k] = IF d.open[k] = 0 THEN d.stamp[k] ELSE d.before[k]
  BY <1>1, QueuedFields
<1>3a. no \in BOOLEAN /\ ~no
  OBVIOUS
<1> HIDE DEF e, no
<1>4. /\ f \in Directors
      /\ f.built = e.built /\ f.windows = e.windows
      /\ \A k \in Keys \ KeysOf[p] :
            f.stamp[k] = e.stamp[k] /\ f.before[k] = e.before[k] /\ f.open[k] = e.open[k]
      /\ \A k \in KeysOf[p] :
            /\ f.open[k] = e.open[k] - 1
            /\ f.before[k] = IF e.open[k] = 1 THEN Never ELSE e.before[k]
            /\ f.stamp[k] = IF e.open[k] > 1 THEN Recent ELSE e.before[k]
  BY <1>2, <1>3a, ResolvedFields
<1> HIDE DEF f
<1>5. ASSUME NEW k \in Keys
      PROVE  f.stamp[k] = d.stamp[k] /\ f.before[k] = d.before[k] /\ f.open[k] = d.open[k]
  <2>1. CASE k \notin KeysOf[p]
    BY <1>3, <1>4, <2>1
  <2>2. CASE k \in KeysOf[p] /\ d.open[k] = 0
    BY <1>1, <1>3, <1>4, <2>2 DEF Consistent
  <2>3. CASE k \in KeysOf[p] /\ d.open[k] > 0
    BY <1>1, <1>3, <1>4, <2>3 DEF Consistent
  <2>4. QED
    BY <1>1, <2>1, <2>2, <2>3
<1>6. f = d
  BY <1>1, <1>3, <1>4, <1>5, SameDirector
<1>7. QED
  BY <1>6 DEF e, f, no

\* Closing two marks comes to the same in either order, whichever of the two
\* was played and however their keys overlap.
THEOREM EitherOrder ==
    ASSUME NEW d, Consistent(d), NEW p \in Passages, NEW q \in Passages,
           NEW playedP \in BOOLEAN, NEW playedQ \in BOOLEAN,
           Marked(d, p), Marked(d, q),
           \A k \in KeysOf[p] \cap KeysOf[q] : d.open[k] > 1
    PROVE  Resolve(Resolve(d, p, playedP), q, playedQ) = Resolve(Resolve(d, q, playedQ), p, playedP)
<1>1. d \in Directors /\ (\A k \in Keys : d.open[k] \in Nat) /\ KeysOf[p] \subseteq Keys /\ KeysOf[q] \subseteq Keys
  BY KeysAreKeys DEF Consistent, Directors
<1> DEFINE
      Closed(a, b, r, kept) ==
        /\ b \in Directors
        /\ b.built = a.built /\ b.windows = a.windows
        /\ \A k \in Keys \ KeysOf[r] :
              b.stamp[k] = a.stamp[k] /\ b.before[k] = a.before[k] /\ b.open[k] = a.open[k]
        /\ \A k \in KeysOf[r] :
              /\ b.open[k] = a.open[k] - 1
              /\ b.before[k] = IF a.open[k] = 1 THEN Never ELSE IF kept THEN Recent ELSE a.before[k]
              /\ b.stamp[k] = IF a.open[k] > 1 \/ kept THEN Recent ELSE a.before[k]
      dp == Resolve(d, p, playedP)
      dq == Resolve(d, q, playedQ)
      pq == Resolve(dp, q, playedQ)
      qp == Resolve(dq, p, playedP)
<1>2. Closed(d, dp, p, playedP) /\ Closed(d, dq, q, playedQ)
  BY <1>1, ResolvedFields
<1> HIDE DEF dp, dq
<1>3. Marked(dp, q) /\ Marked(dq, p)
  <2>1. ASSUME NEW k \in KeysOf[q]
        PROVE  dp.open[k] > 0
    <3>1. CASE k \in KeysOf[p]
      BY <1>1, <1>2, <3>1
    <3>2. CASE k \notin KeysOf[p]
      BY <1>1, <1>2, <3>2 DEF Marked
    <3>3. QED
      BY <3>1, <3>2
  <2>2. ASSUME NEW k \in KeysOf[p]
        PROVE  dq.open[k] > 0
    <3>1. CASE k \in KeysOf[q]
      BY <1>1, <1>2, <3>1
    <3>2. CASE k \notin KeysOf[q]
      BY <1>1, <1>2, <3>2 DEF Marked
    <3>3. QED
      BY <3>1, <3>2
  <2>3. QED
    BY <2>1, <2>2 DEF Marked
<1>4. Closed(dp, pq, q, playedQ) /\ Closed(dq, qp, p, playedP)
  BY <1>2, <1>3, ResolvedFields
<1> HIDE DEF pq, qp
<1>5. ASSUME NEW k \in Keys
      PROVE  pq.stamp[k] = qp.stamp[k] /\ pq.before[k] = qp.before[k] /\ pq.open[k] = qp.open[k]
  <2>1. CASE k \notin KeysOf[p] /\ k \notin KeysOf[q]
    BY <1>2, <1>4, <2>1
  <2>2. CASE k \in KeysOf[p] /\ k \notin KeysOf[q]
    BY <1>2, <1>4, <2>2
  <2>3. CASE k \notin KeysOf[p] /\ k \in KeysOf[q]
    BY <1>2, <1>4, <2>3
  <2>4. CASE k \in KeysOf[p] /\ k \in KeysOf[q]
    <3>1. d.open[k] \in Nat /\ d.open[k] > 1
      BY <1>1, <2>4
    <3>2. /\ dp.open[k] = d.open[k] - 1 /\ dq.open[k] = d.open[k] - 1
          /\ dp.before[k] = IF playedP THEN Recent ELSE d.before[k]
          /\ dq.before[k] = IF playedQ THEN Recent ELSE d.before[k]
      BY <1>2, <2>4, <3>1
    <3>3. /\ pq.open[k] = dp.open[k] - 1 /\ qp.open[k] = dq.open[k] - 1
          /\ pq.before[k] = IF dp.open[k] = 1 THEN Never ELSE IF playedQ THEN Recent ELSE dp.before[k]
          /\ qp.before[k] = IF dq.open[k] = 1 THEN Never ELSE IF playedP THEN Recent ELSE dq.before[k]
          /\ pq.stamp[k] = IF dp.open[k] > 1 \/ playedQ THEN Recent ELSE dp.before[k]
          /\ qp.stamp[k] = IF dq.open[k] > 1 \/ playedP THEN Recent ELSE dq.before[k]
      BY <1>4, <2>4
    <3>4. QED
      BY <3>1, <3>2, <3>3
  <2>5. QED
    BY <2>1, <2>2, <2>3, <2>4
<1>6. pq = qp
  BY <1>2, <1>4, <1>5, SameDirector
<1>7. QED
  BY <1>6 DEF pq, qp, dp, dq
-----------------------------------------------------------------------------
(* A fold, step by step.                                                   *)

LEMMA LeastOfAny ==
    ASSUME NEW T, T \subseteq Nat, T # {}
    PROVE  \E x \in T : \A y \in T : x <= y
<1> DEFINE R == StrictSubsetOrdering(Nat)
           below == {1..x : x \in T}
<1>1. IsWellFoundedOn(R, FiniteSubsetsOf(Nat))
  BY FS_StrictSubsetOrderingWellFounded
<1>2. below \subseteq FiniteSubsetsOf(Nat) /\ below # {}
  <2>1. \A x \in T : 1..x \in SUBSET Nat /\ IsFiniteSet(1..x)
    BY FS_Interval
  <2>2. QED
    BY <2>1 DEF FiniteSubsetsOf
<1> HIDE DEF R, below
<1>3. PICK b \in below : \A c \in below : ~(<<c, b>> \in R)
  BY <1>1, <1>2, WFMin
<1>4. PICK x \in T : b = 1..x
  BY DEF below
<1>5. ASSUME NEW y \in T, ~(x <= y)
      PROVE  FALSE
  <2>1. x \in Nat /\ y \in Nat
    OBVIOUS
  <2>2. 1..y \subseteq 1..x /\ 1..y # 1..x
    <3>1. x \in 1..x /\ x \notin 1..y
      BY <1>5, <2>1
    <3>2. \A k \in 1..y : k \in 1..x
      BY <1>5, <2>1
    <3>3. QED
      BY <3>1, <3>2
  <2>3. <<1..y, 1..x>> \in R
    BY <2>1, <2>2 DEF R, StrictSubsetOrdering
  <2>4. 1..y \in below
    BY DEF below
  <2>5. QED
    BY <1>3, <1>4, <2>3, <2>4
<1>6. QED
  BY <1>5

\* What holds of 0, and of each after the one before it, holds of all.
LEMMA UpTo ==
    ASSUME NEW n \in Nat, NEW A, 0 \in A, \A i \in 1..n : i - 1 \in A => i \in A
    PROVE  \A i \in 0..n : i \in A
<1> DEFINE T == {i \in 0..n : i \notin A}
<1>1. SUFFICES ASSUME T # {} PROVE FALSE
  OBVIOUS
<1>2. T \subseteq Nat
  OBVIOUS
<1>3. PICK x \in T : \A y \in T : x <= y
  <2> HIDE DEF T
  <2>1. QED
    BY <1>1, <1>2, LeastOfAny
<1>4. x \in 1..n /\ x - 1 \in 0..n
  OBVIOUS
<1>5. x - 1 \in A
  BY <1>3, <1>4
<1>6. QED
  BY <1>4, <1>5

Runnable(S, E, g, base, n, seq) ==
    g \in [S -> [E -> S]] /\ base \in S /\ n \in Nat /\ seq \in [1..n -> E]

RunOf(g, base, n, seq, f) == f[0] = base /\ \A i \in 1..n : f[i] = g[f[i - 1]][seq[i]]

\* A fold that stays in a set has all its steps.
LEMMA RunExists ==
    ASSUME NEW S, NEW E, NEW g, NEW base, NEW n, NEW seq, Runnable(S, E, g, base, n, seq)
    PROVE  \E f \in [0..n -> S] : RunOf(g, base, n, seq, f)
<1> USE DEF Runnable, RunOf
<1> DEFINE Runs(m, f) == f[0] = base /\ \A i \in 1..m : f[i] = g[f[i - 1]][seq[i]]
           A == {m \in 0..n : \E f \in [0..m -> S] : Runs(m, f)}
<1>1. 0 \in A
  <2> DEFINE f == [i \in 0..0 |-> base]
  <2>1. f \in [0..0 -> S] /\ Runs(0, f)
    OBVIOUS
  <2> HIDE DEF f, Runs
  <2>2. QED
    BY <2>1
<1>2. ASSUME NEW m \in 1..n, m - 1 \in A
      PROVE  m \in A
  <2>1. PICK f \in [0..(m - 1) -> S] : Runs(m - 1, f)
    BY <1>2
  <2> DEFINE h == [i \in 0..m |-> IF i = m THEN g[f[m - 1]][seq[m]] ELSE f[i]]
  <2>2. m - 1 \in 0..(m - 1) /\ \A i \in 0..m : i # m => i \in 0..(m - 1)
    OBVIOUS
  <2>3. f[m - 1] \in S /\ seq[m] \in E
    BY <2>2
  <2>4. g[f[m - 1]][seq[m]] \in S
    BY <2>3
  <2>5. h \in [0..m -> S]
    BY <2>2, <2>4
  <2>6. ASSUME NEW i \in 1..m
        PROVE  h[i] = g[h[i - 1]][seq[i]]
    <3>1. i - 1 \in 0..(m - 1) /\ h[i - 1] = f[i - 1]
      OBVIOUS
    <3>2. CASE i = m
      BY <3>1, <3>2
    <3>3. CASE i # m
      <4>1. i \in 1..(m - 1) /\ h[i] = f[i]
        BY <3>3
      <4>2. QED
        BY <2>1, <3>1, <4>1
    <3>4. QED
      BY <3>2, <3>3
  <2>7. h[0] = base
    BY <2>1
  <2>8. Runs(m, h)
    BY <2>6, <2>7
  <2> HIDE DEF h, Runs
  <2>9. QED
    BY <2>5, <2>8
<1> HIDE DEF A
<1>3. \A m \in 0..n : m \in A
  BY <1>1, <1>2, UpTo
<1>4. n \in A
  BY <1>3
<1>5. QED
  BY <1>4 DEF A

\* What a run stays in: steps, and where they begin.
LEMMA RunStays ==
    ASSUME NEW S, NEW n \in Nat, NEW f, f[0] \in S,
           \A i \in 1..n : f[i - 1] \in S => f[i] \in S
    PROVE  \A i \in 0..n : f[i] \in S
<1> DEFINE A == {i \in 0..n : f[i] \in S}
<1>1. 0 \in A /\ \A i \in 1..n : i - 1 \in A => i \in A
  OBVIOUS
<1> HIDE DEF A
<1>2. \A i \in 0..n : i \in A
  BY <1>1, UpTo
<1>3. QED
  BY <1>2 DEF A

ThoseSteps(E, seq, T) ==
    \E f \in [0..Len(seq) -> Seq(E \cap T)] :
        /\ f[0] = <<>>
        /\ \A i \in 1..Len(seq) : f[i] = IF seq[i] \in T THEN Append(f[i - 1], seq[i]) ELSE f[i - 1]
        /\ Those(seq, T) = f[Len(seq)]

LEMMA ThoseRun ==
    ASSUME NEW E, NEW seq \in Seq(E), NEW T
    PROVE  ThoseSteps(E, seq, T)
<1> DEFINE S == Seq(E \cap T)
           n == Len(seq)
           Step(kept, x) == IF x \in T THEN Append(kept, x) ELSE kept
           g == [s \in S |-> [x \in E |-> Step(s, x)]]
           IsRun(f) == f = [i \in 0..n |-> IF i = 0 THEN <<>> ELSE Step(f[i - 1], seq[i])]
           after == CHOOSE f : IsRun(f)
<1>1. n \in Nat /\ seq \in [1..n -> E] /\ <<>> \in S
  BY LenProperties, EmptySeq
<1>2. \A s \in S, x \in E : Step(s, x) \in S
  BY AppendProperties
<1>3. g \in [S -> [E -> S]]
  BY <1>2
<1>4. Runnable(S, E, g, <<>>, n, seq)
  BY <1>1, <1>3 DEF Runnable
<1> HIDE DEF g, S, n
<1>5. PICK f \in [0..n -> S] : RunOf(g, <<>>, n, seq, f)
  BY <1>4, RunExists
<1>6. ASSUME NEW i \in 1..n
      PROVE  f[i] = Step(f[i - 1], seq[i])
  <2>1. f[i - 1] \in S /\ seq[i] \in E
    BY <1>1
  <2>2. QED
    BY <1>5, <2>1 DEF RunOf, g
<1> HIDE DEF Step
<1>7. IsRun(f)
  BY <1>5, <1>6 DEF RunOf
<1>8. IsRun(after)
  BY <1>7
<1> HIDE DEF after
<1>9. after[0] = <<>> /\ \A i \in 1..n : after[i] = Step(after[i - 1], seq[i])
  BY <1>1, <1>8
<1>10. \A i \in 1..n : after[i - 1] \in S => after[i] \in S
  BY <1>1, <1>2, <1>9
<1>11. \A i \in 0..n : after[i] \in S
  BY <1>1, <1>9, <1>10, RunStays
<1>12. after \in [0..n -> S]
  BY <1>8, <1>11
<1>13. Those(seq, T) = after[n]
  BY DEF Those, InTurn, Step, after, n
<1>14. QED
  BY <1>12, <1>13, <1>9 DEF S, n, Step, ThoseSteps

LEMMA ThoseKept ==
    ASSUME NEW E, NEW seq \in Seq(E), NEW T
    PROVE  Those(seq, T) \in Seq(E \cap T)
<1>0. ThoseSteps(E, seq, T)
  BY ThoseRun
<1>1. PICK f \in [0..Len(seq) -> Seq(E \cap T)] : Those(seq, T) = f[Len(seq)]
  BY <1>0 DEF ThoseSteps
<1>2. QED
  BY <1>1, LenProperties

-----------------------------------------------------------------------------
(* The marks noted on a key.                                               *)

LEMMA NotedWhere ==
    ASSUME NEW noted \in [Passages -> Nat], NEW k \in Keys, NEW q, NEW i
    PROVE  <<q, i>> \in NotedOn(noted, k)
             <=> q \in Passages /\ k \in KeysOf[q] /\ i \in 1..noted[q]
BY DEF NotedOn

LEMMA NotedArePairs ==
    ASSUME NEW noted \in [Passages -> Nat], NEW k \in Keys, NEW x \in NotedOn(noted, k)
    PROVE  x = <<x[1], x[2]>>
BY DEF NotedOn

LEMMA NotedNone ==
    ASSUME NEW k \in Keys
    PROVE  NotedOn(NoMarks, k) = {}
<1>1. NoMarks \in [Passages -> Nat] /\ \A q \in Passages : 1..NoMarks[q] = {}
  BY DEF NoMarks
<1>2. QED
  BY <1>1 DEF NotedOn

\* A note more, and the key of its passage has a mark more.
LEMMA NotedMore ==
    ASSUME NEW noted \in [Passages -> Nat], NEW p \in Passages, NEW k \in Keys,
           IsFiniteSet(NotedOn(noted, k))
    PROVE  LET more == [noted EXCEPT ![p] = @ + 1] IN
           /\ IsFiniteSet(NotedOn(more, k))
           /\ Cardinality(NotedOn(more, k))
                = IF k \in KeysOf[p] THEN Cardinality(NotedOn(noted, k)) + 1
                  ELSE Cardinality(NotedOn(noted, k))
<1> DEFINE more == [noted EXCEPT ![p] = @ + 1]
           x == <<p, noted[p] + 1>>
<1>1. more \in [Passages -> Nat] /\ more[p] = noted[p] + 1
      /\ \A q \in Passages : q # p => more[q] = noted[q]
  OBVIOUS
<1> HIDE DEF more
<1>2. CASE k \in KeysOf[p]
  <2>1. x \notin NotedOn(noted, k)
    BY NotedWhere
  <2>2. ASSUME NEW q, NEW i
        PROVE  <<q, i>> \in NotedOn(more, k) <=> <<q, i>> \in NotedOn(noted, k) \cup {x}
    <3>1. q = p => (i \in 1..more[q] <=> i \in 1..noted[q] \/ i = noted[p] + 1)
      BY <1>1
    <3>2. q \in Passages /\ q # p => (i \in 1..more[q] <=> i \in 1..noted[q])
      BY <1>1
    <3>3. <<q, i>> = x <=> q = p /\ i = noted[p] + 1
      OBVIOUS
    <3>4. <<q, i>> \in NotedOn(more, k) <=> q \in Passages /\ k \in KeysOf[q] /\ i \in 1..more[q]
      BY <1>1, NotedWhere
    <3>5. <<q, i>> \in NotedOn(noted, k) <=> q \in Passages /\ k \in KeysOf[q] /\ i \in 1..noted[q]
      BY NotedWhere
    <3>6. QED
      BY <1>2, <3>1, <3>2, <3>3, <3>4, <3>5
  <2>3. NotedOn(more, k) = NotedOn(noted, k) \cup {x}
    <3>1. \A y \in NotedOn(more, k) : y \in NotedOn(noted, k) \cup {x}
      BY <1>1, <2>2, NotedArePairs
    <3>2. \A y \in NotedOn(noted, k) \cup {x} : y \in NotedOn(more, k)
      BY <2>2, NotedArePairs
    <3>3. QED
      BY <3>1, <3>2
  <2> HIDE DEF x
  <2>4. IsFiniteSet(NotedOn(noted, k) \cup {x})
        /\ Cardinality(NotedOn(noted, k) \cup {x}) = Cardinality(NotedOn(noted, k)) + 1
    BY <2>1, FS_AddElement
  <2>5. QED
    BY <1>2, <2>3, <2>4 DEF more
<1>3. CASE k \notin KeysOf[p]
  <2>1. \A q \in Passages : k \in KeysOf[q] => more[q] = noted[q]
    BY <1>1, <1>3
  <2>2. NotedOn(more, k) = NotedOn(noted, k)
    <3>1. \A q, i : <<q, i>> \in NotedOn(more, k) <=> <<q, i>> \in NotedOn(noted, k)
      BY <1>1, <2>1, NotedWhere
    <3>2. (\A y \in NotedOn(more, k) : y \in NotedOn(noted, k))
          /\ \A y \in NotedOn(noted, k) : y \in NotedOn(more, k)
      BY <1>1, <3>1, NotedArePairs
    <3>3. QED
      BY <3>2
  <2>3. QED
    BY <1>3, <2>2 DEF more
<1>4. QED
  BY <1>2, <1>3

\* A note is of a mark on each key of its passage.
LEMMA NotedSome ==
    ASSUME NEW noted \in [Passages -> Nat], NEW p \in Passages, NEW k \in KeysOf[p],
           noted[p] > 0, IsFiniteSet(NotedOn(noted, k))
    PROVE  Cardinality(NotedOn(noted, k)) \in Nat /\ Cardinality(NotedOn(noted, k)) > 0
<1>1. k \in Keys
  BY KeysAreKeys
<1>2. 1 \in 1..noted[p]
  OBVIOUS
<1>3. <<p, 1>> \in NotedOn(noted, k)
  BY <1>1, <1>2, NotedWhere
<1>4. QED
  BY <1>3, FS_CardinalityType, FS_EmptySet

\* The converse of NotedMore.
LEMMA NotedLess ==
    ASSUME NEW noted \in [Passages -> Nat], NEW p \in Passages, NEW k \in Keys,
           noted[p] > 0, IsFiniteSet(NotedOn(noted, k))
    PROVE  LET less == [noted EXCEPT ![p] = @ - 1] IN
           /\ less \in [Passages -> Nat]
           /\ IsFiniteSet(NotedOn(less, k))
           /\ Cardinality(NotedOn(less, k))
                = IF k \in KeysOf[p] THEN Cardinality(NotedOn(noted, k)) - 1
                  ELSE Cardinality(NotedOn(noted, k))
<1> DEFINE less == [noted EXCEPT ![p] = @ - 1]
<1>1. less \in [Passages -> Nat] /\ less[p] = noted[p] - 1
      /\ \A q \in Passages : less[q] <= noted[q]
  OBVIOUS
<1>2. [less EXCEPT ![p] = @ + 1] = noted
  <2>1. noted[p] - 1 + 1 = noted[p]
    OBVIOUS
  <2>2. QED
    BY <2>1
<1> HIDE DEF less
<1>3. NotedOn(less, k) \subseteq NotedOn(noted, k)
  <2>1. \A q \in Passages : 1..less[q] \subseteq 1..noted[q]
    BY <1>1
  <2>2. QED
    BY <2>1 DEF NotedOn
<1>4. IsFiniteSet(NotedOn(less, k))
  BY <1>3, FS_Subset
<1>5. Cardinality(NotedOn(less, k)) \in Nat
  BY <1>4, FS_CardinalityType
<1>6. Cardinality(NotedOn(noted, k))
        = IF k \in KeysOf[p] THEN Cardinality(NotedOn(less, k)) + 1
          ELSE Cardinality(NotedOn(less, k))
  BY <1>1, <1>2, <1>4, NotedMore
<1>7. QED
  BY <1>1, <1>4, <1>5, <1>6 DEF less

-----------------------------------------------------------------------------
(* What a key holds beside its open marks.                                 *)

Base(d, k) == IF d.open[k] = 0 THEN d.stamp[k] ELSE d.before[k]

LEMMA BaseWhenQueued ==
    ASSUME NEW d, Consistent(d), NEW p \in Passages, NEW k \in Keys
    PROVE  Base(NoteQueued(d, p), k) = Base(d, k)
<1> DEFINE e == NoteQueued(d, p)
<1>1. d \in Directors /\ d.open[k] \in Nat
  BY DEF Consistent, Directors
<1>2. /\ \A j \in Keys \ KeysOf[p] :
            e.stamp[j] = d.stamp[j] /\ e.before[j] = d.before[j] /\ e.open[j] = d.open[j]
      /\ \A j \in KeysOf[p] :
            /\ e.open[j] = d.open[j] + 1
            /\ e.before[j] = IF d.open[j] = 0 THEN d.stamp[j] ELSE d.before[j]
  BY <1>1, QueuedFields
<1> HIDE DEF e
<1>3. CASE k \in KeysOf[p]
  BY <1>1, <1>2, <1>3 DEF Base, e
<1>4. CASE k \notin KeysOf[p]
  BY <1>2, <1>4 DEF Base, e
<1>5. QED
  BY <1>3, <1>4

LEMMA BaseWhenResolved ==
    ASSUME NEW d, Consistent(d), NEW p \in Passages, NEW keep \in BOOLEAN, Marked(d, p),
           NEW k \in Keys
    PROVE  Base(Resolve(d, p, keep), k) = IF k \in KeysOf[p] /\ keep THEN Recent ELSE Base(d, k)
<1> DEFINE e == Resolve(d, p, keep)
<1>1. d \in Directors /\ d.open[k] \in Nat
  BY DEF Consistent, Directors
<1>2. /\ \A j \in Keys \ KeysOf[p] :
            e.stamp[j] = d.stamp[j] /\ e.before[j] = d.before[j] /\ e.open[j] = d.open[j]
      /\ \A j \in KeysOf[p] :
            /\ e.open[j] = d.open[j] - 1
            /\ e.before[j] = IF d.open[j] = 1 THEN Never ELSE IF keep THEN Recent ELSE d.before[j]
            /\ e.stamp[j] = IF d.open[j] > 1 \/ keep THEN Recent ELSE d.before[j]
  BY <1>1, ResolvedFields
<1> HIDE DEF e
<1>3. CASE k \in KeysOf[p]
  <2>1. d.open[k] > 0
    BY <1>3 DEF Marked
  <2>2. CASE d.open[k] = 1
    BY <1>2, <1>3, <2>2 DEF Base, e
  <2>3. CASE d.open[k] > 1
    BY <1>1, <1>2, <1>3, <2>3 DEF Base, e
  <2>4. QED
    BY <1>1, <2>1, <2>2, <2>3
<1>4. CASE k \notin KeysOf[p]
  BY <1>2, <1>4 DEF Base, e
<1>5. QED
  BY <1>3, <1>4

-----------------------------------------------------------------------------
(* What a refill works on: the Director, the notes of its marks, and what   *)
(* was heard while another is built.                                        *)

Outcomes == [what : {"queued", "played", "rejected"}, p : Passages]
Verdict == [what : {"played", "rejected"}, p : Passages]
Sights == {"seen", "since", "long"}

Sessions ==
    [d : Directors, notes : [Passages -> Nat], unseen : [Passages -> Sights],
     heard : Seq(Verdict), settled : SUBSET Keys, missed : SUBSET Passages, forgot : BOOLEAN]

Matched(noted, d) ==
    \A k \in Keys :
        IsFiniteSet(NotedOn(noted, k)) /\ d.open[k] = Cardinality(NotedOn(noted, k))

HeardOn(k, told) == \E o \in told : o.what = "played" /\ k \in KeysOf[o.p]

\* Beside its open marks a key holds what it held before this run, or what was
\* heard in it.
Earned(d, k, told, played) ==
    \/ Base(d, k) = FirstPlayed[k]
    \/ Base(d, k) = Recent /\ (played[k] = Recent \/ HeardOn(k, told))

Directed(d, noted, settled, told, played) ==
    /\ Consistent(d)
    /\ ~d.built => noted = NoMarks
    /\ Matched(noted, d)
    /\ d.built => \A k \in Keys \ settled : Earned(d, k, told, played)

Honest(told, played) ==
    {s \in Sessions :
        /\ Directed(s.d, s.notes, s.settled, told, played)
        /\ Len(s.heard) <= HeardMax /\ ToSet(s.heard) \subseteq told}

With(s, d, noted, sights) == [s EXCEPT !.d = d, !.notes = noted, !.unseen = sights]

\* A session with another Director, other notes, and sights of its own.
LEMMA HonestWith ==
    ASSUME NEW told, NEW played, NEW s \in Honest(told, played),
           NEW d, NEW noted \in [Passages -> Nat], NEW sights \in [Passages -> Sights],
           Directed(d, noted, s.settled, told, played)
    PROVE  With(s, d, noted, sights) \in Honest(told, played)
<1> DEFINE t == With(s, d, noted, sights)
<1>1. s \in Sessions /\ d \in Directors /\ Len(s.heard) <= HeardMax /\ ToSet(s.heard) \subseteq told
  BY DEF Honest, Directed, Consistent
<1>2. /\ t \in Sessions
      /\ t.d = d /\ t.notes = noted /\ t.heard = s.heard /\ t.settled = s.settled
  BY <1>1 DEF Sessions, With
<1> HIDE DEF t
<1>3. Directed(t.d, t.notes, t.settled, told, played)
  BY <1>2
<1>4. QED
  BY <1>1, <1>2, <1>3 DEF Honest, t

LEMMA HonestFacts ==
    ASSUME NEW told, NEW played, NEW s \in Honest(told, played)
    PROVE  /\ s \in Sessions /\ s.d \in Directors /\ Consistent(s.d)
           /\ s.notes \in [Passages -> Nat] /\ s.unseen \in [Passages -> Sights]
           /\ s.heard \in Seq(Verdict) /\ Len(s.heard) <= HeardMax /\ ToSet(s.heard) \subseteq told
           /\ s.settled \subseteq Keys /\ s.missed \subseteq Passages /\ s.forgot \in BOOLEAN
           /\ ~s.d.built => s.notes = NoMarks
           /\ Matched(s.notes, s.d)
           /\ s.d.built => \A k \in Keys \ s.settled : Earned(s.d, k, told, played)
BY DEF Honest, Directed, Sessions, Consistent

\* The Director and the notes once a passage is marked.
LEMMA MarkedMatch ==
    ASSUME NEW d, Consistent(d), NEW noted \in [Passages -> Nat], Matched(noted, d),
           NEW p \in Passages
    PROVE  Matched([noted EXCEPT ![p] = @ + 1], NoteQueued(d, p))
<1> DEFINE e == NoteQueued(d, p)
           more == [noted EXCEPT ![p] = @ + 1]
<1>1. /\ \A j \in Keys \ KeysOf[p] : e.open[j] = d.open[j]
      /\ \A j \in KeysOf[p] : e.open[j] = d.open[j] + 1
  BY QueuedFields DEF Consistent
<1>2. ASSUME NEW k \in Keys
      PROVE  IsFiniteSet(NotedOn(more, k)) /\ e.open[k] = Cardinality(NotedOn(more, k))
  <2>1. IsFiniteSet(NotedOn(noted, k)) /\ d.open[k] = Cardinality(NotedOn(noted, k))
    BY DEF Matched
  <2>2. /\ IsFiniteSet(NotedOn(more, k))
        /\ Cardinality(NotedOn(more, k))
             = IF k \in KeysOf[p] THEN Cardinality(NotedOn(noted, k)) + 1
               ELSE Cardinality(NotedOn(noted, k))
    BY <2>1, NotedMore
  <2> HIDE DEF more, e
  <2>3. QED
    BY <1>1, <2>1, <2>2
<1> HIDE DEF more, e
<1>3. Matched(more, e)
  BY <1>2 DEF Matched
<1>4. QED
  BY <1>3 DEF more, e

\* A passage noted may be closed; and once it is, the notes still match.
LEMMA ResolvedMatch ==
    ASSUME NEW d, Consistent(d), NEW noted \in [Passages -> Nat], Matched(noted, d),
           NEW p \in Passages, noted[p] > 0, NEW keep \in BOOLEAN
    PROVE  /\ Marked(d, p)
           /\ [noted EXCEPT ![p] = @ - 1] \in [Passages -> Nat]
           /\ Matched([noted EXCEPT ![p] = @ - 1], Resolve(d, p, keep))
<1> DEFINE e == Resolve(d, p, keep)
           less == [noted EXCEPT ![p] = @ - 1]
<1>1. Marked(d, p)
  <2>1. \A k \in KeysOf[p] :
            IsFiniteSet(NotedOn(noted, k)) /\ d.open[k] = Cardinality(NotedOn(noted, k))
    BY KeysAreKeys DEF Matched
  <2>2. QED
    BY <2>1, NotedSome DEF Marked
<1>2. /\ \A j \in Keys \ KeysOf[p] : e.open[j] = d.open[j]
      /\ \A j \in KeysOf[p] : e.open[j] = d.open[j] - 1
  BY <1>1, ResolvedFields DEF Consistent
<1>3. ASSUME NEW k \in Keys
      PROVE  IsFiniteSet(NotedOn(less, k)) /\ e.open[k] = Cardinality(NotedOn(less, k))
  <2>1. IsFiniteSet(NotedOn(noted, k)) /\ d.open[k] = Cardinality(NotedOn(noted, k))
    BY DEF Matched
  <2>2. /\ IsFiniteSet(NotedOn(less, k))
        /\ Cardinality(NotedOn(less, k))
             = IF k \in KeysOf[p] THEN Cardinality(NotedOn(noted, k)) - 1
               ELSE Cardinality(NotedOn(noted, k))
    <3> HIDE DEF e
    <3>1. QED
      BY <2>1, NotedLess
  <2> HIDE DEF less, e
  <2>3. QED
    BY <1>2, <2>1, <2>2
<1>4. less \in [Passages -> Nat]
  OBVIOUS
<1> HIDE DEF less, e
<1>5. Matched(less, e)
  BY <1>3 DEF Matched
<1>6. QED
  BY <1>1, <1>4, <1>5 DEF less, e

LEMMA MarkKeeps ==
    ASSUME NEW told, NEW played, NEW s \in Honest(told, played), NEW p \in Passages
    PROVE  Mark(s, p) \in Honest(told, played) /\ Mark(s, p).d.built = s.d.built
<1>1. CASE ~s.d.built
  BY <1>1 DEF Mark
<1>2. CASE s.d.built
  <2> DEFINE e == NoteQueued(s.d, p)
             more == [s.notes EXCEPT ![p] = @ + 1]
  <2>1. Consistent(s.d) /\ s.notes \in [Passages -> Nat] /\ Matched(s.notes, s.d)
        /\ s \in Sessions /\ s.unseen \in [Passages -> Sights]
        /\ \A k \in Keys \ s.settled : Earned(s.d, k, told, played)
    BY <1>2, HonestFacts
  <2>2. more \in [Passages -> Nat] /\ Matched(more, e)
    BY <2>1, MarkedMatch
  <2>3. Consistent(e)
    BY <2>1, MarksAddUp
  <2>4. e.built
    BY <1>2, <2>1, QueuedFields DEF Consistent
  <2>5. \A k \in Keys \ s.settled : Earned(e, k, told, played)
    BY <2>1, BaseWhenQueued DEF Earned
  <2>6. Mark(s, p) = With(s, e, more, s.unseen)
    BY <1>2, <2>1 DEF Mark, Sessions, With
  <2> HIDE DEF e, more
  <2>7. Directed(e, more, s.settled, told, played)
    BY <2>2, <2>3, <2>4, <2>5 DEF Directed
  <2>8. Mark(s, p) \in Honest(told, played)
    BY <2>1, <2>2, <2>6, <2>7, HonestWith
  <2>9. Mark(s, p).d = e
    BY <2>1, <2>6 DEF Sessions, With
  <2>10. QED
    BY <1>2, <2>4, <2>8, <2>9
<1>3. QED
  BY <1>1, <1>2

\* What is closed as played was heard, or is taken for it.
LEMMA ResolveKeeps ==
    ASSUME NEW told, NEW played, NEW s \in Honest(told, played), NEW p \in Passages,
           NEW keep \in BOOLEAN,
           keep => \A k \in KeysOf[p] \ s.settled : HeardOn(k, told)
    PROVE  /\ ResolveMark(s, p, keep) \in Honest(told, played)
           /\ ResolveMark(s, p, keep).d.built = s.d.built
           /\ ResolveMark(s, p, keep).settled = s.settled
<1>1. CASE s.notes[p] = 0
  BY <1>1 DEF ResolveMark
<1>2. CASE s.notes[p] # 0
  <2> DEFINE e == Resolve(s.d, p, keep)
             less == [s.notes EXCEPT ![p] = @ - 1]
             seen == [s.unseen EXCEPT ![p] = IF s.notes[p] = 1 THEN "seen" ELSE @]
  <2>1. /\ Consistent(s.d) /\ s.notes \in [Passages -> Nat] /\ Matched(s.notes, s.d)
        /\ s \in Sessions /\ s.unseen \in [Passages -> Sights]
        /\ ~s.d.built => s.notes = NoMarks
    BY HonestFacts
  <2>2. s.notes[p] > 0 /\ s.notes # NoMarks
    BY <1>2, <2>1 DEF NoMarks
  <2>3. \A k \in Keys \ s.settled : Earned(s.d, k, told, played)
    BY <2>1, <2>2, HonestFacts
  <2>4. Marked(s.d, p) /\ less \in [Passages -> Nat] /\ Matched(less, e)
    BY <2>1, <2>2, ResolvedMatch
  <2>5. Consistent(e)
    BY <2>1, <2>4, MarksAddUp
  <2>6. e.built = s.d.built
    BY <2>1, <2>4, ResolvedFields DEF Consistent
  <2>7. ASSUME NEW k \in Keys \ s.settled
        PROVE  Earned(e, k, told, played)
    <3>1. Base(e, k) = IF k \in KeysOf[p] /\ keep THEN Recent ELSE Base(s.d, k)
      BY <2>1, <2>4, BaseWhenResolved
    <3>2. k \in KeysOf[p] /\ keep => HeardOn(k, told)
      OBVIOUS
    <3> HIDE DEF e
    <3>3. QED
      BY <2>3, <3>1, <3>2 DEF Earned
  <2>8. seen \in [Passages -> Sights]
    BY <2>1 DEF Sights
  <2>9. ResolveMark(s, p, keep) = With(s, e, less, seen)
    BY <1>2, <2>1 DEF ResolveMark, Sessions, With
  <2>10. ~e.built => less = NoMarks
    BY <2>1, <2>2, <2>6
  <2> HIDE DEF e, less, seen
  <2>11. Directed(e, less, s.settled, told, played)
    BY <2>4, <2>5, <2>7, <2>10 DEF Directed
  <2>12. ResolveMark(s, p, keep) \in Honest(told, played)
    BY <2>4, <2>8, <2>9, <2>11, HonestWith
  <2>13. ResolveMark(s, p, keep).d = e /\ ResolveMark(s, p, keep).settled = s.settled
    BY <2>1, <2>9 DEF Sessions, With
  <2>14. QED
    BY <2>6, <2>12, <2>13
<1>3. QED
  BY <1>1, <1>2

\* A passage marked and closed as played holds no mark of it, and keeps its keys.
LEMMA ReplayedFields ==
    ASSUME NEW d, Consistent(d), NEW p \in Passages
    PROVE  LET e == Resolve(NoteQueued(d, p), p, TRUE) IN
           /\ Consistent(e) /\ e.built = d.built
           /\ \A k \in Keys : e.open[k] = d.open[k]
           /\ \A k \in Keys : Base(e, k) = IF k \in KeysOf[p] THEN Recent ELSE Base(d, k)
<1> DEFINE q == NoteQueued(d, p)
           e == Resolve(q, p, TRUE)
<1>1. d \in Directors /\ \A k \in Keys : d.open[k] \in Nat
  BY DEF Consistent, Directors
<1>2. Consistent(q) /\ Marked(q, p)
  BY MarksAddUp
<1>3. /\ q \in Directors /\ q.built = d.built
      /\ \A j \in Keys \ KeysOf[p] : q.open[j] = d.open[j]
      /\ \A j \in KeysOf[p] : q.open[j] = d.open[j] + 1
  BY <1>1, QueuedFields
<1>4. \A k \in Keys : Base(q, k) = Base(d, k)
  BY BaseWhenQueued
<1> HIDE DEF q
<1>5. Consistent(e)
  BY <1>2, MarksAddUp
<1>6. /\ e.built = q.built
      /\ \A j \in Keys \ KeysOf[p] : e.open[j] = q.open[j]
      /\ \A j \in KeysOf[p] : e.open[j] = q.open[j] - 1
  <2>1. PICK keep \in BOOLEAN : keep = TRUE
    OBVIOUS
  <2>2. q \in Directors /\ Marked(q, p)
    BY <1>2, <1>3
  <2> DEFINE x == Resolve(q, p, keep)
  <2>3. /\ x.built = q.built
        /\ \A j \in Keys \ KeysOf[p] : x.open[j] = q.open[j]
        /\ \A j \in KeysOf[p] : x.open[j] = q.open[j] - 1
    BY <2>2, ResolvedFields
  <2>4. x = e
    BY <2>1
  <2> HIDE DEF x, e
  <2>5. QED
    BY <2>3, <2>4
<1>7. \A k \in Keys : Base(e, k) = IF k \in KeysOf[p] THEN Recent ELSE Base(q, k)
  BY <1>2, BaseWhenResolved
<1> HIDE DEF e
<1>8. ASSUME NEW k \in Keys
      PROVE  e.open[k] = d.open[k]
  <2>1. CASE k \in KeysOf[p]
    BY <1>1, <1>3, <1>6, <2>1
  <2>2. CASE k \notin KeysOf[p]
    BY <1>3, <1>6, <2>2
  <2>3. QED
    BY <2>1, <2>2
<1>9. QED
  BY <1>3, <1>4, <1>5, <1>6, <1>7, <1>8 DEF e, q

\* What is noted of a passage heard or declined, in a Director that holds the
\* same marks.
LEMMA ReplayKeeps ==
    ASSUME NEW told, NEW played, NEW s \in Honest(told, played), NEW o \in Verdict, s.d.built,
           o.what = "played" => \A k \in KeysOf[o.p] : HeardOn(k, told)
    PROVE  Replay(s, o) \in Honest(told, played) /\ Replay(s, o).d.built
<1> DEFINE p == o.p
           e == Resolve(NoteQueued(s.d, p), p, TRUE)
           r == NoteRejection(s.d, p)
<1>1. /\ p \in Passages /\ Consistent(s.d) /\ s.notes \in [Passages -> Nat] /\ Matched(s.notes, s.d)
      /\ s \in Sessions /\ s.unseen \in [Passages -> Sights]
      /\ \A k \in Keys \ s.settled : Earned(s.d, k, told, played)
  BY HonestFacts DEF Verdict
<1> HIDE DEF p
<1>2. CASE o.what = "played"
  <2>1. /\ Consistent(e) /\ e.built = s.d.built
        /\ \A k \in Keys : e.open[k] = s.d.open[k]
        /\ \A k \in Keys : Base(e, k) = IF k \in KeysOf[p] THEN Recent ELSE Base(s.d, k)
    BY <1>1, ReplayedFields
  <2> HIDE DEF e
  <2>2. Matched(s.notes, e)
    BY <1>1, <2>1 DEF Matched
  <2>3. \A k \in Keys \ s.settled : Earned(e, k, told, played)
    BY <1>1, <1>2, <2>1 DEF Earned, p
  <2>4. Directed(e, s.notes, s.settled, told, played)
    BY <2>1, <2>2, <2>3 DEF Directed
  <2>5. Replay(s, o) = With(s, e, s.notes, s.unseen)
    BY <1>1, <1>2 DEF Replay, Sessions, With, e, p
  <2>6. Replay(s, o).d = e
    BY <1>1, <2>5 DEF Sessions, With
  <2>7. With(s, e, s.notes, s.unseen) \in Honest(told, played)
    BY <1>1, <2>4, HonestWith
  <2>8. QED
    BY <2>1, <2>5, <2>6, <2>7
<1>3. CASE o.what # "played"
  <2>1. Consistent(r)
    BY <1>1, MarksAddUp
  <2>2. r.open = s.d.open /\ r.stamp = s.d.stamp /\ r.before = s.d.before /\ r.built = s.d.built
    BY <1>1 DEF NoteRejection, Consistent, Directors
  <2>3. Replay(s, o) = With(s, r, s.notes, s.unseen)
    BY <1>1, <1>3 DEF Replay, Sessions, r, p, With
  <2> HIDE DEF r
  <2>4. Matched(s.notes, r)
    BY <1>1, <2>2 DEF Matched
  <2>5. \A k \in Keys \ s.settled : Earned(r, k, told, played)
    BY <1>1, <2>2 DEF Earned, Base
  <2>6. Replay(s, o).d = r
    BY <1>1, <2>3 DEF Sessions, With
  <2>7. Directed(r, s.notes, s.settled, told, played)
    BY <1>1, <2>1, <2>2, <2>4, <2>5 DEF Directed
  <2>8. QED
    BY <1>1, <2>2, <2>3, <2>6, <2>7, HonestWith
<1>4. QED
  BY <1>2, <1>3

-----------------------------------------------------------------------------
(* The parts of a refill.                                                  *)

LEMMA TailsAndAppends ==
    ASSUME NEW E, NEW q \in Seq(E), NEW x \in E
    PROVE  /\ ToSet(Append(q, x)) = ToSet(q) \cup {x}
           /\ q # <<>> => ToSet(Tail(q)) \subseteq ToSet(q)
<1>1. ToSet(Append(q, x)) = ToSet(q) \cup {x}
  <2> DEFINE r == Append(q, x)
  <2>1. r \in Seq(E) /\ Len(r) = Len(q) + 1 /\ r[Len(q) + 1] = x
        /\ (\A i \in 1..Len(q) : r[i] = q[i]) /\ Len(q) \in Nat
    BY AppendProperties, LenProperties
  <2> HIDE DEF r
  <2>2. DOMAIN r = 1..(Len(q) + 1) /\ DOMAIN q = 1..Len(q)
    BY <2>1, LenProperties
  <2>3. \A i \in 1..(Len(q) + 1) : i \in 1..Len(q) \/ i = Len(q) + 1
    BY <2>1
  <2>4. \A y \in ToSet(r) : y \in ToSet(q) \cup {x}
    BY <2>1, <2>2, <2>3 DEF ToSet
  <2>5. \A y \in ToSet(q) \cup {x} : y \in ToSet(r)
    <3>1. \A i \in 1..Len(q) : i \in 1..(Len(q) + 1)
      BY <2>1
    <3>2. Len(q) + 1 \in 1..(Len(q) + 1)
      BY <2>1
    <3>3. QED
      BY <2>1, <2>2, <3>1, <3>2 DEF ToSet
  <2>6. QED
    BY <2>4, <2>5 DEF r
<1>2. ASSUME q # <<>>
      PROVE  ToSet(Tail(q)) \subseteq ToSet(q)
  <2>1. /\ Tail(q) \in Seq(E) /\ Len(Tail(q)) = Len(q) - 1
        /\ \A i \in 1..Len(Tail(q)) : Tail(q)[i] = q[i + 1]
    BY <1>2, HeadTailProperties
  <2>2. DOMAIN Tail(q) = 1..Len(Tail(q)) /\ DOMAIN q = 1..Len(q) /\ Len(q) \in Nat
    BY <2>1, LenProperties
  <2>3. \A i \in 1..Len(Tail(q)) : i + 1 \in 1..Len(q)
    BY <2>1, <2>2
  <2>4. QED
    BY <2>1, <2>2, <2>3 DEF ToSet
<1>3. QED
  BY <1>1, <1>2

WithHeard(s, kept, forgot) == [s EXCEPT !.heard = kept, !.forgot = forgot]

LEMMA HonestWithHeard ==
    ASSUME NEW told, NEW played, NEW s \in Honest(told, played),
           NEW kept \in Seq(Verdict), Len(kept) <= HeardMax, ToSet(kept) \subseteq told,
           NEW forgot \in BOOLEAN
    PROVE  /\ WithHeard(s, kept, forgot) \in Honest(told, played)
           /\ WithHeard(s, kept, forgot).d = s.d
<1> DEFINE t == WithHeard(s, kept, forgot)
<1>1. s \in Sessions /\ Directed(s.d, s.notes, s.settled, told, played)
  BY DEF Honest
<1>2. t \in Sessions /\ t.d = s.d /\ t.notes = s.notes /\ t.settled = s.settled /\ t.heard = kept
  BY <1>1 DEF Sessions, WithHeard
<1> HIDE DEF t
<1>3. t \in Honest(told, played)
  BY <1>1, <1>2 DEF Honest
<1>4. QED
  BY <1>2, <1>3 DEF t

\* What is kept while a build runs is bounded, and was heard.
LEMMA KeepHeardKeeps ==
    ASSUME NEW told, NEW played, NEW s \in Honest(told, played), NEW o \in Verdict, o \in told,
           NEW keeping \in BOOLEAN
    PROVE  /\ KeepHeard(s, o, keeping) \in Honest(told, played)
           /\ KeepHeard(s, o, keeping).d = s.d
<1>1. CASE ~keeping
  BY <1>1 DEF KeepHeard
<1>2. CASE keeping
  <2> DEFINE room == IF Len(s.heard) < HeardMax THEN s.heard ELSE Tail(s.heard)
             kept == Append(room, o)
             forgot == s.forgot \/ Len(s.heard) >= HeardMax
  <2>1. /\ s \in Sessions /\ s.heard \in Seq(Verdict) /\ Len(s.heard) <= HeardMax
        /\ ToSet(s.heard) \subseteq told /\ s.forgot \in BOOLEAN
    BY HonestFacts
  <2>2. HeardMax \in Nat /\ HeardMax > 0 /\ Len(s.heard) \in Nat
    BY <2>1, BoundsAssumption, LenProperties
  <2>3. /\ room \in Seq(Verdict) /\ Len(room) \in Nat /\ Len(room) + 1 <= HeardMax
        /\ ToSet(room) \subseteq told
    <3>1. CASE Len(s.heard) < HeardMax
      BY <2>1, <2>2, <3>1
    <3>2. CASE ~(Len(s.heard) < HeardMax)
      <4>1. s.heard # <<>> /\ Len(s.heard) = HeardMax
        BY <2>1, <2>2, <3>2, EmptySeq
      <4>2. Tail(s.heard) \in Seq(Verdict) /\ Len(Tail(s.heard)) = Len(s.heard) - 1
        BY <2>1, <4>1, HeadTailProperties
      <4>3. ToSet(Tail(s.heard)) \subseteq ToSet(s.heard)
        BY <2>1, <4>1, TailsAndAppends
      <4>4. QED
        BY <2>1, <2>2, <3>2, <4>1, <4>2, <4>3
    <3>3. QED
      BY <3>1, <3>2
  <2> HIDE DEF room
  <2>4. kept \in Seq(Verdict) /\ Len(kept) = Len(room) + 1 /\ ToSet(kept) = ToSet(room) \cup {o}
    BY <2>3, AppendProperties, TailsAndAppends
  <2>5. forgot \in BOOLEAN
    BY <2>1
  <2>6. KeepHeard(s, o, keeping) = WithHeard(s, kept, forgot)
    BY <1>2, <2>1 DEF KeepHeard, WithHeard, Sessions, room
  <2> HIDE DEF kept, forgot
  <2>7. Len(kept) <= HeardMax /\ ToSet(kept) \subseteq told
    BY <2>2, <2>3, <2>4
  <2>8. QED
    BY <2>4, <2>5, <2>6, <2>7, HonestWithHeard
<1>3. QED
  BY <1>1, <1>2

LEMMA ForgettingKeeps ==
    ASSUME NEW told, NEW played, NEW s \in Honest(told, played)
    PROVE  Forgetting(s) \in Honest(told, played)
<1>1. s \in Sessions /\ s.forgot \in BOOLEAN
  BY HonestFacts
<1>2. <<>> \in Seq(Verdict) /\ Len(<<>>) = 0 /\ ToSet(<<>>) = {} /\ 0 <= HeardMax
  BY BoundsAssumption, EmptySeq DEF ToSet
<1>3. [s EXCEPT !.heard = <<>>] = WithHeard(s, <<>>, s.forgot)
  BY <1>1 DEF WithHeard, Sessions
<1> DEFINE none == <<>>
<1>4. none \in Seq(Verdict) /\ Len(none) <= HeardMax /\ ToSet(none) \subseteq told
  BY <1>2
<1>5. Forgetting(s) = IF history.written THEN WithHeard(s, none, s.forgot) ELSE s
  BY <1>3 DEF Forgetting
<1> HIDE DEF none
<1>6. QED
  BY <1>1, <1>4, <1>5, HonestWithHeard

MarksSteps(told, played, s, seq) ==
    \E f \in [0..Len(seq) -> {t \in Honest(told, played) : t.d.built = s.d.built}] :
        /\ f[0] = s
        /\ \A i \in 1..Len(seq) : f[i] = Mark(f[i - 1], seq[i])
        /\ InTurn(Mark, s, seq) = f[Len(seq)]

\* Marking all that is coming.
LEMMA MarksRun ==
    ASSUME NEW told, NEW played, NEW s \in Honest(told, played), NEW seq \in Seq(Passages)
    PROVE  MarksSteps(told, played, s, seq)
<1> DEFINE S == {t \in Honest(told, played) : t.d.built = s.d.built}
           E == Passages
           n == Len(seq)
           Step(t, x) == Mark(t, x)
           g == [t \in S |-> [x \in E |-> Step(t, x)]]
           IsRun(f) == f = [i \in 0..n |-> IF i = 0 THEN s ELSE Step(f[i - 1], seq[i])]
           after == CHOOSE f : IsRun(f)
<1>1. n \in Nat /\ seq \in [1..n -> E]
  BY LenProperties
<1>2. s \in S
  OBVIOUS
<1>3. ASSUME NEW s2 \in S, NEW x \in E
      PROVE  Step(s2, x) \in S
  BY MarkKeeps
<1> HIDE DEF S, E, n
<1>4. g \in [S -> [E -> S]]
  <2> HIDE DEF Step
  <2>1. QED
    BY <1>3
<1>5. Runnable(S, E, g, s, n, seq)
  BY <1>1, <1>2, <1>4 DEF Runnable
<1> HIDE DEF g, Step
<1>6. PICK f \in [0..n -> S] : RunOf(g, s, n, seq, f)
  BY <1>5, RunExists
<1>7. ASSUME NEW i \in 1..n
      PROVE  f[i] = Step(f[i - 1], seq[i])
  <2>1. f[i - 1] \in S /\ seq[i] \in E
    BY <1>1
  <2>2. QED
    BY <1>6, <2>1 DEF RunOf, g
<1>8. IsRun(f)
  BY <1>6, <1>7 DEF RunOf
<1>9. IsRun(after)
  BY <1>8
<1> HIDE DEF after
<1>10. after[0] = s /\ \A i \in 1..n : after[i] = Step(after[i - 1], seq[i])
  BY <1>1, <1>9
<1>11. \A i \in 1..n : after[i - 1] \in S => after[i] \in S
  BY <1>1, <1>3, <1>10
<1>12. \A i \in 0..n : after[i] \in S
  BY <1>1, <1>2, <1>10, <1>11, RunStays
<1>13. after \in [0..n -> S]
  BY <1>9, <1>12
<1>14. InTurn(Mark, s, seq) = after[n]
  BY DEF InTurn, Step, after, n
<1>15. QED
  BY <1>13, <1>14, <1>10 DEF S, n, Step, MarksSteps

LEMMA MarksKeep ==
    ASSUME NEW told, NEW played, NEW s \in Honest(told, played), NEW seq \in Seq(Passages)
    PROVE  /\ InTurn(Mark, s, seq) \in Honest(told, played)
           /\ InTurn(Mark, s, seq).d.built = s.d.built
<1>0. MarksSteps(told, played, s, seq)
  BY MarksRun
<1> DEFINE S == {t \in Honest(told, played) : t.d.built = s.d.built}
<1>1. PICK f \in [0..Len(seq) -> S] : InTurn(Mark, s, seq) = f[Len(seq)]
  BY <1>0 DEF MarksSteps
<1>2. f[Len(seq)] \in S
  BY LenProperties
<1>3. QED
  BY <1>1, <1>2

\* A function on an interval from one is a sequence.
LEMMA ListOf ==
    ASSUME NEW E, NEW n \in Nat, NEW f \in [1..n -> E]
    PROVE  f \in Seq(E) /\ Len(f) = n
<1>1. f = [i \in 1..n |-> f[i]] /\ \A i \in 1..n : f[i] \in E
  OBVIOUS
<1>2. [i \in 1..n |-> f[i]] \in Seq(E) /\ Len([i \in 1..n |-> f[i]]) = n
  BY <1>1
<1>3. QED
  BY <1>1, <1>2

ReplaysSteps(told, played, s, seq) ==
    \E f \in [0..Len(seq) -> {t \in Honest(told, played) : t.d.built}] :
        /\ f[0] = s
        /\ \A i \in 1..Len(seq) : f[i] = Replay(f[i - 1], seq[i])
        /\ InTurn(Replay, s, seq) = f[Len(seq)]

\* Making up for all that was heard meanwhile.
LEMMA ReplaysRun ==
    ASSUME NEW told, NEW played, NEW s \in Honest(told, played), s.d.built,
           NEW seq \in Seq(Verdict), ToSet(seq) \subseteq told
    PROVE  ReplaysSteps(told, played, s, seq)
<1> DEFINE S == {t \in Honest(told, played) : t.d.built}
           E == {o \in Verdict : o \in told}
           n == Len(seq)
           Step(t, x) == Replay(t, x)
           g == [t \in S |-> [x \in E |-> Step(t, x)]]
           IsRun(f) == f = [i \in 0..n |-> IF i = 0 THEN s ELSE Step(f[i - 1], seq[i])]
           after == CHOOSE f : IsRun(f)
<1>1. n \in Nat /\ seq \in [1..n -> E]
  <2>1. n \in Nat /\ DOMAIN seq = 1..n /\ \A i \in 1..n : seq[i] \in Verdict
    BY LenProperties
  <2>2. \A i \in 1..n : seq[i] \in ToSet(seq)
    BY <2>1 DEF ToSet
  <2> HIDE DEF n
  <2>3. \A i \in 1..n : seq[i] \in E
    BY <2>1, <2>2
  <2>4. seq = [i \in 1..n |-> seq[i]]
    BY LenProperties DEF n
  <2>5. QED
    BY <2>1, <2>3, <2>4
<1>2. s \in S
  OBVIOUS
<1>3. ASSUME NEW s2 \in S, NEW x \in E
      PROVE  Step(s2, x) \in S
  <2>1. x.what = "played" => \A k \in KeysOf[x.p] : HeardOn(k, told)
    BY DEF HeardOn
  <2>2. QED
    BY <2>1, ReplayKeeps
<1> HIDE DEF S, E, n
<1>4. g \in [S -> [E -> S]]
  <2> HIDE DEF Step
  <2>1. QED
    BY <1>3
<1>5. Runnable(S, E, g, s, n, seq)
  BY <1>1, <1>2, <1>4 DEF Runnable
<1> HIDE DEF g, Step
<1>6. PICK f \in [0..n -> S] : RunOf(g, s, n, seq, f)
  BY <1>5, RunExists
<1>7. ASSUME NEW i \in 1..n
      PROVE  f[i] = Step(f[i - 1], seq[i])
  <2>1. f[i - 1] \in S /\ seq[i] \in E
    BY <1>1
  <2>2. QED
    BY <1>6, <2>1 DEF RunOf, g
<1>8. IsRun(f)
  BY <1>6, <1>7 DEF RunOf
<1>9. IsRun(after)
  BY <1>8
<1> HIDE DEF after
<1>10. after[0] = s /\ \A i \in 1..n : after[i] = Step(after[i - 1], seq[i])
  BY <1>1, <1>9
<1>11. \A i \in 1..n : after[i - 1] \in S => after[i] \in S
  BY <1>1, <1>3, <1>10
<1>12. \A i \in 0..n : after[i] \in S
  BY <1>1, <1>2, <1>10, <1>11, RunStays
<1>13. after \in [0..n -> S]
  BY <1>9, <1>12
<1>14. InTurn(Replay, s, seq) = after[n]
  BY DEF InTurn, Step, after, n
<1>15. QED
  BY <1>13, <1>14, <1>10 DEF S, n, Step, ReplaysSteps

LEMMA ReplaysKeep ==
    ASSUME NEW told, NEW played, NEW s \in Honest(told, played), s.d.built,
           NEW seq \in Seq(Verdict), ToSet(seq) \subseteq told
    PROVE  InTurn(Replay, s, seq) \in Honest(told, played)
<1>0. ReplaysSteps(told, played, s, seq)
  BY ReplaysRun
<1> DEFINE S == {t \in Honest(told, played) : t.d.built}
<1>1. PICK f \in [0..Len(seq) -> S] : InTurn(Replay, s, seq) = f[Len(seq)]
  BY <1>0 DEF ReplaysSteps
<1>2. f[Len(seq)] \in S
  BY LenProperties
<1>3. QED
  BY <1>1, <1>2

LEMMA UnheardKeeps ==
    ASSUME NEW told, NEW played, NEW s \in Honest(told, played), NEW p \in Passages
    PROVE  /\ ResolveMark(s, p, FALSE) \in Honest(told, played)
           /\ ResolveMark(s, p, FALSE).d.built = s.d.built
           /\ ResolveMark(s, p, FALSE).settled = s.settled
<1> DEFINE no == FALSE
<1>1. no \in BOOLEAN /\ ~no
  OBVIOUS
<1> HIDE DEF no
<1>2. /\ ResolveMark(s, p, no) \in Honest(told, played)
      /\ ResolveMark(s, p, no).d.built = s.d.built
      /\ ResolveMark(s, p, no).settled = s.settled
  BY <1>1, ResolveKeeps
<1>3. QED
  BY <1>2 DEF no

DropsSteps(told, played, s, seq) ==
    \E f \in [0..Len(seq) -> {t \in Honest(told, played) : t.settled = s.settled}] :
        /\ f[0] = s
        /\ \A i \in 1..Len(seq) : f[i] = NeverPlayed(f[i - 1], seq[i])
        /\ InTurn(NeverPlayed, s, seq) = f[Len(seq)]

\* Taking back all that nobody heard.
LEMMA DropsRun ==
    ASSUME NEW told, NEW played, NEW s \in Honest(told, played), NEW seq \in Seq(Passages)
    PROVE  DropsSteps(told, played, s, seq)
<1> DEFINE S == {t \in Honest(told, played) : t.settled = s.settled}
           E == Passages
           n == Len(seq)
           Step(t, x) == NeverPlayed(t, x)
           g == [t \in S |-> [x \in E |-> Step(t, x)]]
           IsRun(f) == f = [i \in 0..n |-> IF i = 0 THEN s ELSE Step(f[i - 1], seq[i])]
           after == CHOOSE f : IsRun(f)
<1>1. n \in Nat /\ seq \in [1..n -> E]
  BY LenProperties
<1>2. s \in S
  OBVIOUS
<1>3. ASSUME NEW s2 \in S, NEW x \in E
      PROVE  Step(s2, x) \in S
  <2>1. s2 \in Honest(told, played) /\ s2.settled = s.settled
    OBVIOUS
  <2>2. /\ ResolveMark(s2, x, FALSE) \in Honest(told, played)
        /\ ResolveMark(s2, x, FALSE).settled = s2.settled
    BY <2>1, UnheardKeeps
  <2>3. Step(s2, x) = ResolveMark(s2, x, FALSE)
    BY DEF NeverPlayed
  <2> HIDE DEF Step
  <2>4. QED
    BY <2>1, <2>2, <2>3
<1> HIDE DEF S, E, n
<1>4. g \in [S -> [E -> S]]
  <2> HIDE DEF Step
  <2>1. QED
    BY <1>3
<1>5. Runnable(S, E, g, s, n, seq)
  BY <1>1, <1>2, <1>4 DEF Runnable
<1> HIDE DEF g, Step
<1>6. PICK f \in [0..n -> S] : RunOf(g, s, n, seq, f)
  BY <1>5, RunExists
<1>7. ASSUME NEW i \in 1..n
      PROVE  f[i] = Step(f[i - 1], seq[i])
  <2>1. f[i - 1] \in S /\ seq[i] \in E
    BY <1>1
  <2>2. QED
    BY <1>6, <2>1 DEF RunOf, g
<1>8. IsRun(f)
  BY <1>6, <1>7 DEF RunOf
<1>9. IsRun(after)
  BY <1>8
<1> HIDE DEF after
<1>10. after[0] = s /\ \A i \in 1..n : after[i] = Step(after[i - 1], seq[i])
  BY <1>1, <1>9
<1>11. \A i \in 1..n : after[i - 1] \in S => after[i] \in S
  BY <1>1, <1>3, <1>10
<1>12. \A i \in 0..n : after[i] \in S
  BY <1>1, <1>2, <1>10, <1>11, RunStays
<1>13. after \in [0..n -> S]
  BY <1>9, <1>12
<1>14. InTurn(NeverPlayed, s, seq) = after[n]
  BY DEF InTurn, Step, after, n
<1>15. QED
  BY <1>13, <1>14, <1>10 DEF S, n, Step, DropsSteps

LEMMA DropsKeep ==
    ASSUME NEW told, NEW played, NEW s \in Honest(told, played), NEW seq \in Seq(Passages)
    PROVE  /\ InTurn(NeverPlayed, s, seq) \in Honest(told, played)
           /\ InTurn(NeverPlayed, s, seq).settled = s.settled
<1>0. DropsSteps(told, played, s, seq)
  BY DropsRun
<1> DEFINE S == {t \in Honest(told, played) : t.settled = s.settled}
<1>1. PICK f \in [0..Len(seq) -> S] : InTurn(NeverPlayed, s, seq) = f[Len(seq)]
  BY <1>0 DEF DropsSteps
<1>2. f[Len(seq)] \in S
  BY LenProperties
<1>3. QED
  BY <1>1, <1>2

\* What the backend says of a passage, told once.
LEMMA ToldKeeps ==
    ASSUME NEW told, NEW played, NEW s \in Honest(told, played), NEW o \in Outcomes,
           o.what # "queued" => o \in told, NEW keeping \in BOOLEAN
    PROVE  Told(s, o, keeping) \in Honest(told, played)
<1>1. o.p \in Passages /\ o.what \in {"queued", "played", "rejected"}
      /\ (o.what # "queued" => o \in Verdict)
  BY DEF Outcomes, Verdict
<1>2. CASE o.what = "queued"
  BY <1>1, <1>2, MarkKeeps DEF Told
<1>3. CASE o.what = "played"
  <2>1. \A k \in KeysOf[o.p] : HeardOn(k, told)
    BY <1>3 DEF HeardOn
  <2> DEFINE back == ResolveMark(s, o.p, TRUE)
  <2>2. back \in Honest(told, played)
    BY <1>1, <2>1, ResolveKeeps
  <2> HIDE DEF back
  <2>3. KeepHeard(back, o, keeping) \in Honest(told, played)
    BY <1>1, <1>3, <2>2, KeepHeardKeeps
  <2>4. QED
    BY <1>3, <2>3 DEF Told, back
<1>4. CASE o.what = "rejected"
  <2> DEFINE back == ResolveMark(s, o.p, FALSE)
             noted == IF s.d.built THEN Replay(back, o) ELSE back
  <2>1. back \in Honest(told, played) /\ back.d.built = s.d.built
    BY <1>1, UnheardKeeps
  <2> HIDE DEF back
  <2>2. noted \in Honest(told, played)
    <3>1. CASE s.d.built
      BY <1>1, <1>4, <2>1, <3>1, ReplayKeeps
    <3>2. CASE ~s.d.built
      BY <2>1, <3>2
    <3>3. QED
      BY <3>1, <3>2
  <2>3. noted = IF s.d.built THEN [back EXCEPT !.d = NoteRejection(@, o.p)] ELSE back
    BY <1>4 DEF Replay
  <2> HIDE DEF noted
  <2>4. KeepHeard(noted, o, keeping) \in Honest(told, played)
    BY <1>1, <1>4, <2>2, KeepHeardKeeps
  <2>5. Told(s, o, keeping) = KeepHeard(noted, o, keeping)
    BY <1>4, <2>3 DEF Told, back
  <2>6. QED
    BY <2>4, <2>5
<1>5. QED
  BY <1>1, <1>2, <1>3, <1>4

TellingsSteps(told, played, s, keeping, seq) ==
    \E f \in [0..Len(seq) -> Honest(told, played)] :
        /\ f[0] = s
        /\ \A i \in 1..Len(seq) : f[i] = Told(f[i - 1], seq[i], keeping)
        /\ InTurn(LAMBDA t, o : Told(t, o, keeping), s, seq) = f[Len(seq)]

\* And all that it says.
LEMMA TellingsRun ==
    ASSUME NEW told, NEW played, NEW s \in Honest(told, played), NEW keeping \in BOOLEAN,
           NEW seq \in Seq(Outcomes), \A i \in 1..Len(seq) : seq[i].what # "queued" => seq[i] \in told
    PROVE  TellingsSteps(told, played, s, keeping, seq)
<1> DEFINE S == Honest(told, played)
           E == {o \in Outcomes : o.what # "queued" => o \in told}
           n == Len(seq)
           Step(t, x) == Told(t, x, keeping)
           g == [t \in S |-> [x \in E |-> Step(t, x)]]
           IsRun(f) == f = [i \in 0..n |-> IF i = 0 THEN s ELSE Step(f[i - 1], seq[i])]
           after == CHOOSE f : IsRun(f)
<1>1. n \in Nat /\ seq \in [1..n -> E]
  <2>1. n \in Nat /\ \A i \in 1..n : seq[i] \in Outcomes
    BY LenProperties
  <2>2. \A i \in 1..n : seq[i] \in E
    BY <2>1
  <2>3. seq = [i \in 1..n |-> seq[i]]
    BY LenProperties
  <2> HIDE DEF n, E
  <2>4. QED
    BY <2>1, <2>2, <2>3
<1>2. s \in S
  OBVIOUS
<1>3. ASSUME NEW s2 \in S, NEW x \in E
      PROVE  Step(s2, x) \in S
  BY ToldKeeps
<1> HIDE DEF S, E, n
<1>4. g \in [S -> [E -> S]]
  <2> HIDE DEF Step
  <2>1. QED
    BY <1>3
<1>5. Runnable(S, E, g, s, n, seq)
  BY <1>1, <1>2, <1>4 DEF Runnable
<1> HIDE DEF g, Step
<1>6. PICK f \in [0..n -> S] : RunOf(g, s, n, seq, f)
  BY <1>5, RunExists
<1>7. ASSUME NEW i \in 1..n
      PROVE  f[i] = Step(f[i - 1], seq[i])
  <2>1. f[i - 1] \in S /\ seq[i] \in E
    BY <1>1
  <2>2. QED
    BY <1>6, <2>1 DEF RunOf, g
<1>8. IsRun(f)
  BY <1>6, <1>7 DEF RunOf
<1>9. IsRun(after)
  BY <1>8
<1> HIDE DEF after
<1>10. after[0] = s /\ \A i \in 1..n : after[i] = Step(after[i - 1], seq[i])
  BY <1>1, <1>9
<1>11. \A i \in 1..n : after[i - 1] \in S => after[i] \in S
  BY <1>1, <1>3, <1>10
<1>12. \A i \in 0..n : after[i] \in S
  BY <1>1, <1>2, <1>10, <1>11, RunStays
<1>13. after \in [0..n -> S]
  BY <1>9, <1>12
<1>14. InTurn(LAMBDA t, o : Told(t, o, keeping), s, seq) = after[n]
  BY DEF InTurn, Step, after, n
<1>15. QED
  BY <1>13, <1>14, <1>10 DEF S, n, Step, TellingsSteps

LEMMA TellingsKeep ==
    ASSUME NEW told, NEW played, NEW s \in Honest(told, played), NEW keeping \in BOOLEAN,
           NEW seq \in Seq(Outcomes), \A i \in 1..Len(seq) : seq[i].what # "queued" => seq[i] \in told
    PROVE  InTurn(LAMBDA t, o : Told(t, o, keeping), s, seq) \in Honest(told, played)
<1>0. TellingsSteps(told, played, s, keeping, seq)
  BY TellingsRun
<1>1. PICK f \in [0..Len(seq) -> Honest(told, played)] :
          InTurn(LAMBDA t, o : Told(t, o, keeping), s, seq) = f[Len(seq)]
  BY <1>0 DEF TellingsSteps
<1>2. f[Len(seq)] \in Honest(told, played)
  BY LenProperties
<1>3. QED
  BY <1>1, <1>2

Settling(s, settled) == [s EXCEPT !.settled = settled]

LEMMA SettlingKeeps ==
    ASSUME NEW told, NEW played, NEW s \in Honest(told, played), NEW p \in Passages
    PROVE  /\ Settling(s, s.settled \cup KeysOf[p]) \in Honest(told, played)
           /\ Settling(s, s.settled \cup KeysOf[p]).settled = s.settled \cup KeysOf[p]
           /\ Settling(s, s.settled \cup KeysOf[p]).notes = s.notes
<1> DEFINE settled == s.settled \cup KeysOf[p]
           t == Settling(s, settled)
<1>1. s \in Sessions /\ s.settled \subseteq Keys /\ Directed(s.d, s.notes, s.settled, told, played)
      /\ Len(s.heard) <= HeardMax /\ ToSet(s.heard) \subseteq told
  BY HonestFacts DEF Honest
<1>2. settled \in SUBSET Keys
  BY <1>1, KeysAreKeys
<1>3. s.settled \subseteq settled
  OBVIOUS
<1> HIDE DEF settled
<1>4. t \in Sessions /\ t.d = s.d /\ t.notes = s.notes /\ t.settled = settled /\ t.heard = s.heard
  BY <1>1, <1>2 DEF Sessions, Settling
<1> HIDE DEF t
<1>5. Directed(s.d, s.notes, settled, told, played)
  BY <1>1, <1>3 DEF Directed
<1>6. t \in Honest(told, played)
  BY <1>1, <1>4, <1>5 DEF Honest
<1>7. QED
  BY <1>4, <1>6 DEF t, settled


SettledSteps(told, played, s, p) ==
    \E f \in [0..s.notes[p] -> {t \in Honest(told, played) : KeysOf[p] \subseteq t.settled}] :
        /\ f[0] = Settling(s, s.settled \cup KeysOf[p])
        /\ \A i \in 1..s.notes[p] : f[i] = ResolveMark(f[i - 1], p, TRUE)
        /\ SettledAsPlayed(s, p) = f[s.notes[p]]

\* Every mark of a passage out of sight for too long is closed as played.
LEMMA SettledRun ==
    ASSUME NEW told, NEW played, NEW s \in Honest(told, played), NEW p \in Passages
    PROVE  SettledSteps(told, played, s, p)
<1> DEFINE seq == [i \in 1..s.notes[p] |-> p]
           base == [s EXCEPT !.settled = @ \cup KeysOf[p]]
           S == {t \in Honest(told, played) : KeysOf[p] \subseteq t.settled}
           E == {p}
           n == Len(seq)
           Step(t, x) == ResolveMark(t, x, TRUE)
           g == [t \in S |-> [x \in E |-> Step(t, x)]]
           IsRun(f) == f = [i \in 0..n |-> IF i = 0 THEN base ELSE Step(f[i - 1], seq[i])]
           after == CHOOSE f : IsRun(f)
<1>1. n \in Nat /\ seq \in [1..n -> E]
  <2>1. s.notes[p] \in Nat
    BY HonestFacts
  <2>2. seq \in Seq({p}) /\ Len(seq) = s.notes[p]
    <3> HIDE DEF seq
    <3>1. seq \in [1..s.notes[p] -> {p}]
      BY DEF seq
    <3>2. QED
      BY <2>1, <3>1, ListOf
  <2> HIDE DEF seq
  <2>3. QED
    BY <2>1, <2>2, LenProperties
<1>2. base \in S
  <2>1. base = Settling(s, s.settled \cup KeysOf[p])
    BY DEF Settling
  <2>2. base \in Honest(told, played) /\ base.settled = s.settled \cup KeysOf[p]
    BY <2>1, SettlingKeeps
  <2> HIDE DEF base
  <2>3. QED
    BY <2>2
<1>3. ASSUME NEW s2 \in S, NEW x \in E
      PROVE  Step(s2, x) \in S
  <2>1. s2 \in Honest(told, played) /\ KeysOf[p] \subseteq s2.settled /\ x = p
    OBVIOUS
  <2> DEFINE yes == TRUE
  <2>2. yes \in BOOLEAN /\ \A k \in KeysOf[p] \ s2.settled : HeardOn(k, told)
    BY <2>1
  <2> HIDE DEF yes
  <2>3. /\ ResolveMark(s2, p, yes) \in Honest(told, played)
        /\ ResolveMark(s2, p, yes).settled = s2.settled
    BY <2>1, <2>2, ResolveKeeps
  <2>4. QED
    BY <2>1, <2>3 DEF yes
<1> HIDE DEF S, E, n, seq, base
<1>4. g \in [S -> [E -> S]]
  <2> HIDE DEF Step
  <2>1. QED
    BY <1>3
<1>5. Runnable(S, E, g, base, n, seq)
  BY <1>1, <1>2, <1>4 DEF Runnable
<1> HIDE DEF g, Step
<1>6. PICK f \in [0..n -> S] : RunOf(g, base, n, seq, f)
  BY <1>5, RunExists
<1>7. ASSUME NEW i \in 1..n
      PROVE  f[i] = Step(f[i - 1], seq[i])
  <2>1. f[i - 1] \in S /\ seq[i] \in E
    BY <1>1
  <2>2. QED
    BY <1>6, <2>1 DEF RunOf, g
<1>8. IsRun(f)
  BY <1>6, <1>7 DEF RunOf
<1>9. IsRun(after)
  BY <1>8
<1> HIDE DEF after
<1>10. after[0] = base /\ \A i \in 1..n : after[i] = Step(after[i - 1], seq[i])
  BY <1>1, <1>9
<1>11. \A i \in 1..n : after[i - 1] \in S => after[i] \in S
  BY <1>1, <1>3, <1>10
<1>12. \A i \in 0..n : after[i] \in S
  BY <1>1, <1>2, <1>10, <1>11, RunStays
<1>13. after \in [0..n -> S]
  BY <1>9, <1>12
<1>14. SettledAsPlayed(s, p) = after[n]
  BY DEF SettledAsPlayed, seq, base, InTurn, Step, after, n
<1>15. n = s.notes[p] /\ base = Settling(s, s.settled \cup KeysOf[p]) /\ \A i \in 1..n : seq[i] = p
  <2>1. s.notes[p] \in Nat
    BY HonestFacts
  <2>2. seq = [i \in 1..s.notes[p] |-> p]
    BY DEF seq
  <2>3. seq \in Seq({p}) /\ Len(seq) = s.notes[p]
    <3>1. seq \in [1..s.notes[p] -> {p}]
      BY <2>2
    <3>2. QED
      BY <2>1, <3>1, ListOf
  <2>4. QED
    BY <2>2, <2>3 DEF base, Settling, n
<1>16. QED
  BY <1>13, <1>14, <1>15, <1>10 DEF S, Step, SettledSteps

LEMMA SettledKeep ==
    ASSUME NEW told, NEW played, NEW s \in Honest(told, played), NEW p \in Passages
    PROVE  SettledAsPlayed(s, p) \in Honest(told, played)
<1>0. SettledSteps(told, played, s, p)
  BY SettledRun
<1> DEFINE S == {t \in Honest(told, played) : KeysOf[p] \subseteq t.settled}
<1>1. PICK f \in [0..s.notes[p] -> S] : SettledAsPlayed(s, p) = f[s.notes[p]]
  BY <1>0 DEF SettledSteps
<1>2. s.notes[p] \in Nat
  BY HonestFacts
<1>3. f[s.notes[p]] \in S
  BY <1>2
<1>4. QED
  BY <1>1, <1>3

AllSettledSteps(told, played, s, seq) ==
    \E f \in [0..Len(seq) -> Honest(told, played)] :
        /\ f[0] = s
        /\ \A i \in 1..Len(seq) : f[i] = SettledAsPlayed(f[i - 1], seq[i])
        /\ InTurn(SettledAsPlayed, s, seq) = f[Len(seq)]

\* And so for each of them.
LEMMA AllSettledRun ==
    ASSUME NEW told, NEW played, NEW s \in Honest(told, played), NEW seq \in Seq(Passages)
    PROVE  AllSettledSteps(told, played, s, seq)
<1> DEFINE S == Honest(told, played)
           E == Passages
           n == Len(seq)
           Step(t, x) == SettledAsPlayed(t, x)
           g == [t \in S |-> [x \in E |-> Step(t, x)]]
           IsRun(f) == f = [i \in 0..n |-> IF i = 0 THEN s ELSE Step(f[i - 1], seq[i])]
           after == CHOOSE f : IsRun(f)
<1>1. n \in Nat /\ seq \in [1..n -> E]
  BY LenProperties
<1>2. s \in S
  OBVIOUS
<1>3. ASSUME NEW s2 \in S, NEW x \in E
      PROVE  Step(s2, x) \in S
  BY SettledKeep
<1> HIDE DEF S, E, n
<1>4. g \in [S -> [E -> S]]
  <2> HIDE DEF Step
  <2>1. QED
    BY <1>3
<1>5. Runnable(S, E, g, s, n, seq)
  BY <1>1, <1>2, <1>4 DEF Runnable
<1> HIDE DEF g, Step
<1>6. PICK f \in [0..n -> S] : RunOf(g, s, n, seq, f)
  BY <1>5, RunExists
<1>7. ASSUME NEW i \in 1..n
      PROVE  f[i] = Step(f[i - 1], seq[i])
  <2>1. f[i - 1] \in S /\ seq[i] \in E
    BY <1>1
  <2>2. QED
    BY <1>6, <2>1 DEF RunOf, g
<1>8. IsRun(f)
  BY <1>6, <1>7 DEF RunOf
<1>9. IsRun(after)
  BY <1>8
<1> HIDE DEF after
<1>10. after[0] = s /\ \A i \in 1..n : after[i] = Step(after[i - 1], seq[i])
  BY <1>1, <1>9
<1>11. \A i \in 1..n : after[i - 1] \in S => after[i] \in S
  BY <1>1, <1>3, <1>10
<1>12. \A i \in 0..n : after[i] \in S
  BY <1>1, <1>2, <1>10, <1>11, RunStays
<1>13. after \in [0..n -> S]
  BY <1>9, <1>12
<1>14. InTurn(SettledAsPlayed, s, seq) = after[n]
  BY DEF InTurn, Step, after, n
<1>15. QED
  BY <1>13, <1>14, <1>10 DEF S, n, Step, AllSettledSteps

LEMMA AllSettledKeep ==
    ASSUME NEW told, NEW played, NEW s \in Honest(told, played), NEW seq \in Seq(Passages)
    PROVE  InTurn(SettledAsPlayed, s, seq) \in Honest(told, played)
<1>0. AllSettledSteps(told, played, s, seq)
  BY AllSettledRun
<1>1. PICK f \in [0..Len(seq) -> Honest(told, played)] : InTurn(SettledAsPlayed, s, seq) = f[Len(seq)]
  BY <1>0 DEF AllSettledSteps
<1>2. f[Len(seq)] \in Honest(told, played)
  BY LenProperties
<1>3. QED
  BY <1>1, <1>2

-----------------------------------------------------------------------------
(* What a refill makes of the session.                                     *)

Entries == [p : Passages, by : {"user", "director", "restored"}]
OutEntries == [p : Passages, mixing : BOOLEAN, counted : BOOLEAN]
Backends ==
    [queue : Seq(Entries), out : Seq(OutEntries), dropped : Seq(Passages), outcomes : Seq(Outcomes)]
Reads == [played : [Keys -> Times], rejected : SUBSET Passages]
Builds ==
    [asked : BOOLEAN, phase : {"none", "started", "read", "sent", "failed"}, read : Reads]
Histories == [played : [Keys -> Times], rejected : SUBSET Passages, written : Writing]
Pasts ==
    [queued : Nat, builds : Nat, upsets : Nat, told : SUBSET Verdict, settled : SUBSET Keys,
     missed : SUBSET Passages, forgot : BOOLEAN, handed : BOOLEAN]

\* Read of the history, a key has what it had before this run, or what the
\* history says was heard in it.
ReadFrom(read, played) ==
    \A k \in Keys :
        read.played[k] = FirstPlayed[k] \/ (read.played[k] = Recent /\ played[k] = Recent)

LEMMA IdsArePassages ==
    ASSUME NEW E, NEW q \in Seq(E), \A e \in E : e.p \in Passages
    PROVE  Ids(q) \in Seq(Passages) /\ Len(Ids(q)) = Len(q)
<1>1. Len(q) \in Nat /\ DOMAIN q = 1..Len(q) /\ \A i \in 1..Len(q) : q[i].p \in Passages
  BY LenProperties
<1>2. Ids(q) \in [1..Len(q) -> Passages]
  BY <1>1 DEF Ids
<1>3. QED
  BY <1>1, <1>2, ListOf

LEMMA MixingIsOut ==
    ASSUME backend \in Backends
    PROVE  Mixing \in Seq(OutEntries)
<1>1. backend.out \in Seq(OutEntries)
  BY DEF Backends
<1> DEFINE T == {x \in ToSet(backend.out) : x.mixing}
<1>2. Those(backend.out, T) \in Seq(OutEntries \cap T)
  BY <1>1, ThoseKept
<1> HIDE DEF T
<1>3. OutEntries \cap T \subseteq OutEntries
  OBVIOUS
<1>4. Those(backend.out, T) \in Seq(OutEntries)
  BY <1>2, <1>3, SeqMonotonic
<1>5. QED
  BY <1>4 DEF Mixing, T

LEMMA OnAirIsOne ==
    ASSUME backend \in Backends
    PROVE  /\ OnAir \subseteq Passages
           /\ Mixing # <<>> => Mixing[1].p \in Passages /\ OnAir = {Mixing[1].p}
<1>1. Mixing \in Seq(OutEntries)
  BY MixingIsOut
<1>2. ASSUME Mixing # <<>>
      PROVE  Mixing[1].p \in Passages
  <2>1. Mixing[1] \in OutEntries
    BY <1>1, <1>2, EmptySeq, ElementOfSeq
  <2>2. QED
    BY <2>1 DEF OutEntries
<1>3. QED
  BY <1>2 DEF OnAir

LEMMA ProjectedArePassages ==
    ASSUME backend \in Backends
    PROVE  Projected \in Seq(Passages) /\ Ids(backend.queue) \in Seq(Passages)
<1>1. Ids(backend.queue) \in Seq(Passages)
  <2>1. backend.queue \in Seq(Entries) /\ \A e \in Entries : e.p \in Passages
    BY DEF Backends, Entries
  <2>2. QED
    BY <2>1, IdsArePassages
<1> DEFINE queued == Ids(backend.queue)
           one == <<Mixing[1].p>>
<1>2. CASE OnAir = {} \/ (queued # <<>> /\ OnAir = {queued[1]})
  BY <1>1, <1>2 DEF Projected
<1>3. CASE ~(OnAir = {} \/ (queued # <<>> /\ OnAir = {queued[1]}))
  <2>1. Mixing[1].p \in Passages
    BY <1>3, OnAirIsOne DEF OnAir
  <2>2. one \in Seq(Passages)
    BY <2>1
  <2>3. Projected = one \o queued
    BY <1>3 DEF Projected
  <2> HIDE DEF one, queued
  <2>4. queued \in Seq(Passages)
    BY <1>1 DEF queued
  <2>5. QED
    BY <1>1, <2>2, <2>3, <2>4, ConcatProperties
<1>4. QED
  BY <1>2, <1>3

LEMMA NothingNoted ==
    ASSUME NEW d, \A k \in Keys : d.open[k] = 0
    PROVE  Matched(NoMarks, d)
<1>1. \A k \in Keys : NotedOn(NoMarks, k) = {}
  BY NotedNone
<1>2. IsFiniteSet({}) /\ Cardinality({}) = 0
  BY FS_EmptySet
<1>3. QED
  BY <1>1, <1>2 DEF Matched

LEMMA NewSession ==
    /\ NoMarks \in [Passages -> Nat] /\ AllSeen \in [Passages -> Sights]
    /\ NoDirector \in Directors /\ Consistent(NoDirector) /\ ~NoDirector.built
    /\ Matched(NoMarks, NoDirector)
<1>1. NoMarks \in [Passages -> Nat] /\ AllSeen \in [Passages -> Sights]
  BY DEF NoMarks, AllSeen, Sights
<1>2. /\ NoDirector \in Directors /\ ~NoDirector.built
      /\ \A k \in Keys : NoDirector.open[k] = 0 /\ NoDirector.before[k] = Never
  BY DEF NoDirector, Directors, Times
<1>3. Consistent(NoDirector)
  BY <1>2 DEF Consistent
<1>4. QED
  BY <1>1, <1>2, <1>3, NothingNoted

\* A Director just built holds no mark, and on each key what was read.
LEMMA LoadedFields ==
    ASSUME NEW read \in Reads, NEW played, ReadFrom(read, played), NEW told
    PROVE  Loaded(read).built /\ Directed(Loaded(read), NoMarks, {}, told, played)
<1> DEFINE d == Loaded(read)
<1>1. /\ d \in Directors /\ d.built
      /\ \A k \in Keys : d.open[k] = 0 /\ d.before[k] = Never /\ d.stamp[k] = read.played[k]
  BY DEF Loaded, Directors, Reads, Times
<1> HIDE DEF d
<1>2. Consistent(d)
  BY <1>1 DEF Consistent
<1>3. Matched(NoMarks, d)
  BY <1>1, NothingNoted
<1>4. \A k \in Keys : Earned(d, k, told, played)
  BY <1>1 DEF Earned, Base, ReadFrom
<1>5. Directed(d, NoMarks, {}, told, played)
  BY <1>1, <1>2, <1>3, <1>4 DEF Directed
<1>6. QED
  BY <1>1, <1>5 DEF d

Missing(s, missed) == [s EXCEPT !.missed = missed]

LEMMA MissingKeeps ==
    ASSUME NEW told, NEW played, NEW s \in Honest(told, played), NEW missed \in SUBSET Passages
    PROVE  Missing(s, missed) \in Honest(told, played) /\ Missing(s, missed).d = s.d
           /\ Missing(s, missed).heard = s.heard
<1> DEFINE t == Missing(s, missed)
<1>1. s \in Sessions /\ Directed(s.d, s.notes, s.settled, told, played)
      /\ Len(s.heard) <= HeardMax /\ ToSet(s.heard) \subseteq told
  BY DEF Honest
<1>2. t \in Sessions /\ t.d = s.d /\ t.notes = s.notes /\ t.settled = s.settled /\ t.heard = s.heard
  BY <1>1 DEF Sessions, Missing
<1> HIDE DEF t
<1>3. t \in Honest(told, played)
  BY <1>1, <1>2 DEF Honest
<1>4. QED
  BY <1>2, <1>3 DEF t

Fresh(s) ==
    [s EXCEPT !.d = Loaded(rebuild.read), !.notes = NoMarks, !.unseen = AllSeen, !.settled = {}]

LEMMA FreshKeeps ==
    ASSUME NEW told, NEW played, NEW s \in Honest(told, played),
           rebuild.read \in Reads, ReadFrom(rebuild.read, played)
    PROVE  Fresh(s) \in Honest(told, played) /\ Fresh(s).d.built
<1> DEFINE t == Fresh(s)
           d == Loaded(rebuild.read)
<1>1. s \in Sessions /\ Len(s.heard) <= HeardMax /\ ToSet(s.heard) \subseteq told
  BY DEF Honest
<1>2. d.built /\ Directed(d, NoMarks, {}, told, played)
  BY LoadedFields
<1>3. d \in Directors
  BY <1>2 DEF Directed, Consistent
<1> HIDE DEF d
<1>4. /\ t \in Sessions /\ t.d = d /\ t.notes = NoMarks /\ t.settled = {} /\ t.heard = s.heard
  BY <1>1, <1>3, NewSession DEF Sessions, Fresh, d
<1> HIDE DEF t
<1>5. t \in Honest(told, played)
  BY <1>1, <1>2, <1>4 DEF Honest
<1>6. QED
  BY <1>2, <1>4, <1>5 DEF t

\* Session::adopt: all that is coming is marked, all that was heard meanwhile
\* is made up for.
LEMMA AdoptedKeeps ==
    ASSUME NEW told, NEW played, NEW s \in Honest(told, played), backend \in Backends,
           rebuild.read \in Reads, ReadFrom(rebuild.read, played)
    PROVE  Adopted(s) \in Honest(told, played)
<1> DEFINE fresh == Fresh(s)
           marked == InTurn(Mark, fresh, Projected)
           looked == Missing(marked, OutOfSight)
           made == InTurn(Replay, looked, s.heard)
<1>1. fresh \in Honest(told, played) /\ fresh.d.built
  BY FreshKeeps
<1> HIDE DEF fresh
<1>2. marked \in Honest(told, played) /\ marked.d.built
  BY <1>1, ProjectedArePassages, MarksKeep
<1> HIDE DEF marked
<1>3. looked \in Honest(told, played) /\ looked.d.built
  <2>1. OutOfSight \in SUBSET Passages
    BY DEF OutOfSight
  <2>2. QED
    BY <1>2, <2>1, MissingKeeps
<1> HIDE DEF looked
<1>4. made \in Honest(told, played)
  <2>1. s.heard \in Seq(Verdict) /\ ToSet(s.heard) \subseteq told
    BY HonestFacts
  <2>2. QED
    BY <1>3, <2>1, ReplaysKeep
<1> HIDE DEF made
<1>5. Forgetting(made) \in Honest(told, played)
  BY <1>4, ForgettingKeeps
<1>6. Adopted(s) = Forgetting(made)
  BY DEF Adopted, made, looked, marked, fresh, Fresh, Missing
<1>7. QED
  BY <1>5, <1>6

LEMMA TendedKeeps ==
    ASSUME NEW told, NEW played, NEW enough \in BOOLEAN, Now \in Honest(told, played),
           backend \in Backends, rebuild \in Builds, ReadFrom(rebuild.read, played)
    PROVE  /\ Tended(enough).s \in Honest(told, played)
           /\ Tended(enough).rebuild \in Builds
           /\ ReadFrom(Tended(enough).rebuild.read, played)
<1> DEFINE r(asked, phase) == Build(asked, phase, NothingRead)
<1>1. rebuild.read \in Reads /\ rebuild.asked \in BOOLEAN
      /\ rebuild.phase \in {"none", "started", "read", "sent", "failed"}
  BY DEF Builds
<1>2. /\ \A asked \in BOOLEAN, phase \in {"none", "started"} : r(asked, phase) \in Builds
      /\ \A asked, phase : ReadFrom(r(asked, phase).read, played)
  <2>1. NothingRead \in Reads /\ \A k \in Keys : NothingRead.played[k] = FirstPlayed[k]
    BY HistoryAssumption DEF NothingRead, Reads, Times, Never, LongAgo
  <2>2. QED
    BY <2>1 DEF Build, Builds, ReadFrom
<1>3. Adopted(Now) \in Honest(told, played) /\ Forgetting(Now) \in Honest(told, played)
  BY <1>1, AdoptedKeeps, ForgettingKeeps
<1> HIDE DEF r
<1>4. \/ Tended(enough) = [s |-> Now, rebuild |-> rebuild]
      \/ Tended(enough) = [s |-> Adopted(Now), rebuild |-> r(rebuild.asked, "none")]
      \/ Tended(enough) = [s |-> Now, rebuild |-> r(rebuild.asked, "none")]
      \/ Tended(enough) = [s |-> Forgetting(Now), rebuild |-> r(FALSE, "started")]
  <2> HIDE DEF r
  <2>1. CASE Building
    BY <2>1 DEF Tended, Building
  <2>2. CASE rebuild.phase = "sent"
    BY <2>2 DEF Tended, Building, r
  <2>3. CASE rebuild.phase = "failed"
    BY <2>3 DEF Tended, Building, r
  <2>4. CASE rebuild.phase = "none" /\ rebuild.asked /\ (enough \/ ~Short)
    BY <2>4 DEF Tended, Building, r
  <2>5. CASE rebuild.phase = "none" /\ ~(rebuild.asked /\ (enough \/ ~Short))
    BY <2>5 DEF Tended, Building
  <2>6. QED
    BY <1>1, <2>1, <2>2, <2>3, <2>4, <2>5 DEF Building
<1>5. QED
  <2> DEFINE t == Tended(enough)
             now == Now
             new == Adopted(Now)
             fresh == Forgetting(Now)
             ended == r(rebuild.asked, "none")
             begun == r(FALSE, "started")
  <2>0. \/ t = [s |-> now, rebuild |-> rebuild]
        \/ t = [s |-> new, rebuild |-> ended]
        \/ t = [s |-> now, rebuild |-> ended]
        \/ t = [s |-> fresh, rebuild |-> begun]
    BY <1>4
  <2> HIDE DEF t, now, new, fresh, ended, begun
  <2>1. \/ t.s = now /\ t.rebuild = rebuild
        \/ t.s = new /\ t.rebuild = ended
        \/ t.s = now /\ t.rebuild = ended
        \/ t.s = fresh /\ t.rebuild = begun
    BY <2>0
  <2>2. /\ ended \in Builds /\ begun \in Builds
        /\ ReadFrom(ended.read, played) /\ ReadFrom(begun.read, played)
    BY <1>1, <1>2 DEF ended, begun
  <2>3. {now, new, fresh} \subseteq Honest(told, played)
    BY <1>3 DEF now, new, fresh
  <2>4. t.s \in Honest(told, played) /\ t.rebuild \in Builds /\ ReadFrom(t.rebuild.read, played)
    BY <2>1, <2>2, <2>3
  <2>5. QED
    BY <2>4 DEF t

\* Session::hear_outcomes
LEMMA OutcomesKeep ==
    ASSUME NEW told, NEW played, NEW s \in Honest(told, played), NEW keeping \in BOOLEAN,
           backend \in Backends, {o \in ToSet(backend.outcomes) : o.what # "queued"} \subseteq told
    PROVE  HeardOutcomes(s, keeping) \in Honest(told, played)
<1> DEFINE back == InTurn(NeverPlayed, s, backend.dropped)
<1>1. backend.dropped \in Seq(Passages) /\ backend.outcomes \in Seq(Outcomes)
  BY DEF Backends
<1>2. back \in Honest(told, played)
  BY <1>1, DropsKeep
<1>3. \A i \in 1..Len(backend.outcomes) :
          backend.outcomes[i].what # "queued" => backend.outcomes[i] \in told
  <2>1. DOMAIN backend.outcomes = 1..Len(backend.outcomes)
    BY <1>1, LenProperties
  <2>2. QED
    BY <2>1 DEF ToSet
<1> HIDE DEF back
<1>4. InTurn(LAMBDA t, o : Told(t, o, keeping), back, backend.outcomes) \in Honest(told, played)
  BY <1>1, <1>2, <1>3, TellingsKeep
<1>5. QED
  BY <1>4 DEF HeardOutcomes, back

LEMMA SetToSeqLists ==
    ASSUME NEW T \in SUBSET Passages
    PROVE  SetToSeq(T) \in Seq(Passages)
<1>1. IsFiniteSet(T)
  BY LibraryAssumption, FS_Subset
<1> DEFINE n == Cardinality(T)
<1>2. n \in Nat /\ ExistsBijection(1..n, T)
  BY <1>1, FS_CardinalityType
<1>3. \E f \in [1..n -> T] : IsInjective(f)
  <2>1. PICK f : f \in Bijection(1..n, T)
    BY <1>2 DEF ExistsBijection
  <2>2. f \in [1..n -> T] /\ IsInjective(f)
    BY <2>1 DEF Bijection, Injection, IsInjective
  <2>3. QED
    BY <2>2
<1>4. SetToSeq(T) \in [1..n -> T]
  BY <1>3 DEF SetToSeq
<1> HIDE DEF n
<1>5. SetToSeq(T) \in [1..n -> Passages]
  BY <1>4
<1>6. QED
  BY <1>2, <1>5, ListOf

\* Session::settle_unseen
LEMMA UnseenKeeps ==
    ASSUME NEW told, NEW played, NEW s \in Honest(told, played)
    PROVE  SettleUnseen(s) \in Honest(told, played)
<1> DEFINE seen == InQueue \cup OnAir
           gone == {p \in Passages : s.notes[p] > 0 /\ p \notin seen /\ s.unseen[p] = "long"}
           looked == [p \in Passages |->
                         IF s.notes[p] = 0 \/ p \in seen THEN "seen"
                         ELSE IF s.unseen[p] = "seen" THEN "since" ELSE s.unseen[p]]
           t == With(s, s.d, s.notes, looked)
<1>1. /\ s \in Sessions /\ s.unseen \in [Passages -> Sights] /\ s.notes \in [Passages -> Nat]
      /\ Directed(s.d, s.notes, s.settled, told, played)
  BY HonestFacts DEF Honest
<1>2. looked \in [Passages -> Sights]
  BY <1>1 DEF Sights
<1>3. gone \in SUBSET Passages
  OBVIOUS
<1>4. SettleUnseen(s) = InTurn(SettledAsPlayed, [s EXCEPT !.unseen = looked], SetToSeq(gone))
  BY DEF SettleUnseen
<1> HIDE DEF looked, gone
<1>5. [s EXCEPT !.unseen = looked] = t
  BY <1>1 DEF With, Sessions
<1> HIDE DEF t
<1>6. t \in Honest(told, played)
  BY <1>1, <1>2, HonestWith DEF t
<1>7. InTurn(SettledAsPlayed, t, SetToSeq(gone)) \in Honest(told, played)
  BY <1>3, <1>6, SetToSeqLists, AllSettledKeep
<1>8. QED
  BY <1>4, <1>5, <1>7

-----------------------------------------------------------------------------
(* The inductive invariant.                                                *)

PlayedHere(h) == \A k \in Keys : h.played[k] \in {FirstPlayed[k], Recent}

\* What the history says was heard it says from then on.
Grown(h, h2) ==
    /\ h2 \in Histories /\ PlayedHere(h2) /\ h2.written = h.written
    /\ \A k \in Keys : h.played[k] = Recent => h2.played[k] = Recent
    /\ h.rejected \subseteq h2.rejected

Typed ==
    /\ backend \in Backends /\ history \in Histories /\ rebuild \in Builds /\ past \in Pasts
    /\ choosing \in {"idle", "choosing", "resting"}

IInv ==
    /\ Typed
    /\ PlayedHere(history) /\ ReadFrom(rebuild.read, history.played)
    /\ Now \in Honest(past.told, history.played)

LEMMA HonestGrows ==
    ASSUME NEW told, NEW told2, told \subseteq told2, NEW played, NEW played2,
           \A k \in Keys : played[k] = Recent => played2[k] = Recent,
           NEW s \in Honest(told, played)
    PROVE  s \in Honest(told2, played2)
<1>1. s \in Sessions /\ Directed(s.d, s.notes, s.settled, told, played)
      /\ Len(s.heard) <= HeardMax /\ ToSet(s.heard) \subseteq told
  BY DEF Honest
<1>2. \A k \in Keys : Earned(s.d, k, told, played) => Earned(s.d, k, told2, played2)
  BY DEF Earned, HeardOn
<1>3. s.settled \subseteq Keys
  BY HonestFacts
<1>4. Directed(s.d, s.notes, s.settled, told2, played2)
  BY <1>1, <1>2, <1>3 DEF Directed
<1>5. QED
  BY <1>1, <1>4 DEF Honest

LEMMA GrownToo ==
    ASSUME NEW h, NEW h2, NEW h3, Grown(h, h2), Grown(h2, h3)
    PROVE  Grown(h, h3)
BY DEF Grown

\* One verdict, written or not.
LEMMA OneWritten ==
    ASSUME NEW h \in Histories, PlayedHere(h), NEW o \in Verdict
    PROVE  Grown(h, Written(h, o))
<1>1. /\ h.played \in [Keys -> Times] /\ h.rejected \subseteq Passages /\ h.written \in BOOLEAN
      /\ o.p \in Passages /\ o.what \in {"played", "rejected"}
  BY WritingAssumption DEF Histories, Verdict
<1>2. CASE ~h.written
  <2>1. Written(h, o) = h
    BY <1>2 DEF Written
  <2>2. QED
    BY <2>1 DEF Grown
<1>3. CASE h.written /\ o.what = "played"
  <2> DEFINE played == [k \in Keys |-> IF k \in KeysOf[o.p] THEN Recent ELSE h.played[k]]
  <2>1. played \in [Keys -> Times]
    BY <1>1 DEF Times
  <2>2. Written(h, o) = [h EXCEPT !.played = played]
    BY <1>3 DEF Written
  <2>3. \A k \in Keys : played[k] \in {h.played[k], Recent}
    OBVIOUS
  <2>4. \A k \in Keys : h.played[k] = Recent => played[k] = Recent
    BY <2>3
  <2> HIDE DEF played
  <2>5. Written(h, o) \in Histories /\ Written(h, o).played = played
        /\ Written(h, o).written = h.written /\ Written(h, o).rejected = h.rejected
    BY <2>1, <2>2 DEF Histories
  <2>6. QED
    BY <2>3, <2>4, <2>5 DEF Grown, PlayedHere
<1>4. CASE h.written /\ o.what = "rejected"
  <2>1. Written(h, o) = [h EXCEPT !.rejected = h.rejected \cup {o.p}]
    BY <1>4 DEF Written
  <2>2. h.rejected \cup {o.p} \in SUBSET Passages
    BY <1>1
  <2>3. Written(h, o) \in Histories /\ Written(h, o).played = h.played
        /\ Written(h, o).written = h.written /\ Written(h, o).rejected = h.rejected \cup {o.p}
    BY <2>1, <2>2 DEF Histories
  <2>4. QED
    BY <2>3 DEF Grown, PlayedHere
<1>5. QED
  BY <1>1, <1>2, <1>3, <1>4

WrittenSteps(h, seq) ==
    \E f \in [0..Len(seq) -> {h2 \in Histories : Grown(h, h2)}] :
        /\ f[0] = h
        /\ \A i \in 1..Len(seq) : f[i] = Written(f[i - 1], seq[i])
        /\ InTurn(Written, h, seq) = f[Len(seq)]

\* And all of them.
LEMMA WrittenRun ==
    ASSUME NEW h \in Histories, PlayedHere(h), NEW seq \in Seq(Verdict)
    PROVE  WrittenSteps(h, seq)
<1> DEFINE S == {h2 \in Histories : Grown(h, h2)}
           E == Verdict
           n == Len(seq)
           Step(t, x) == Written(t, x)
           g == [t \in S |-> [x \in E |-> Step(t, x)]]
           IsRun(f) == f = [i \in 0..n |-> IF i = 0 THEN h ELSE Step(f[i - 1], seq[i])]
           after == CHOOSE f : IsRun(f)
<1>1. n \in Nat /\ seq \in [1..n -> E]
  BY LenProperties
<1>2. h \in S
  BY DEF Grown
<1>3. ASSUME NEW s2 \in S, NEW x \in E
      PROVE  Step(s2, x) \in S
  <2>1. Grown(s2, Written(s2, x))
    BY OneWritten DEF Grown
  <2>2. Grown(h, Written(s2, x))
    BY <2>1, GrownToo
  <2>3. QED
    BY <2>2 DEF Grown
<1> HIDE DEF S, E, n
<1>4. g \in [S -> [E -> S]]
  <2> HIDE DEF Step
  <2>1. QED
    BY <1>3
<1>5. Runnable(S, E, g, h, n, seq)
  BY <1>1, <1>2, <1>4 DEF Runnable
<1> HIDE DEF g, Step
<1>6. PICK f \in [0..n -> S] : RunOf(g, h, n, seq, f)
  BY <1>5, RunExists
<1>7. ASSUME NEW i \in 1..n
      PROVE  f[i] = Step(f[i - 1], seq[i])
  <2>1. f[i - 1] \in S /\ seq[i] \in E
    BY <1>1
  <2>2. QED
    BY <1>6, <2>1 DEF RunOf, g
<1>8. IsRun(f)
  BY <1>6, <1>7 DEF RunOf
<1>9. IsRun(after)
  BY <1>8
<1> HIDE DEF after
<1>10. after[0] = h /\ \A i \in 1..n : after[i] = Step(after[i - 1], seq[i])
  BY <1>1, <1>9
<1>11. \A i \in 1..n : after[i - 1] \in S => after[i] \in S
  BY <1>1, <1>3, <1>10
<1>12. \A i \in 0..n : after[i] \in S
  BY <1>1, <1>2, <1>10, <1>11, RunStays
<1>13. after \in [0..n -> S]
  BY <1>9, <1>12
<1>14. InTurn(Written, h, seq) = after[n]
  BY DEF InTurn, Step, after, n
<1>15. QED
  BY <1>13, <1>14, <1>10 DEF S, n, Step, WrittenSteps

LEMMA AllWritten ==
    ASSUME NEW h \in Histories, PlayedHere(h), NEW seq \in Seq(Verdict)
    PROVE  Grown(h, InTurn(Written, h, seq))
<1>0. WrittenSteps(h, seq)
  BY WrittenRun
<1> DEFINE S == {h2 \in Histories : Grown(h, h2)}
<1>1. PICK f \in [0..Len(seq) -> S] : InTurn(Written, h, seq) = f[Len(seq)]
  BY <1>0 DEF WrittenSteps
<1>2. f[Len(seq)] \in S
  BY LenProperties
<1>3. QED
  BY <1>1, <1>2

\* A step that leaves the session to itself.
LEMMA SessionStays ==
    ASSUME IInv, director' = director, notes' = notes, unseen' = unseen, heard' = heard,
           past' \in Pasts, past'.told = past.told, past'.settled = past.settled,
           past'.missed = past.missed, past'.forgot = past.forgot,
           Grown(history, history'), backend' \in Backends, rebuild' \in Builds,
           ReadFrom(rebuild'.read, history'.played),
           choosing' \in {"idle", "choosing", "resting"}
    PROVE  IInv'
<1>1. Now' = Now
  BY DEF Now
<1>2. Now \in Honest(past.told, history.played)
  BY DEF IInv
<1>3. Now \in Honest(past'.told, history'.played)
  <2> DEFINE told == past.told
             played == history.played
             played2 == history'.played
             s == Now
  <2>1. s \in Honest(told, played) /\ \A k \in Keys : played[k] = Recent => played2[k] = Recent
    BY <1>2 DEF Grown
  <2> HIDE DEF told, played, played2, s
  <2>2. s \in Honest(told, played2)
    BY <2>1, HonestGrows
  <2>3. QED
    BY <2>2 DEF told, played2, s
<1>4. PlayedHere(history') /\ history' \in Histories
  BY DEF Grown
<1> DEFINE honest == Honest(past.told, history.played)
<1>5. Now' \in honest'
  BY <1>1, <1>3
<1> HIDE DEF honest
<1>6. Typed'
  BY <1>4 DEF Typed
<1>7. (PlayedHere(history) /\ ReadFrom(rebuild.read, history.played))'
  BY <1>4 DEF PlayedHere, ReadFrom
<1>8. QED
  BY <1>5, <1>6, <1>7 DEF IInv, honest

\* Nor does the backend alone disturb it, whatever it judges.
LEMMA BackendMoves ==
    ASSUME IInv, UNCHANGED session, UNCHANGED past, backend' \in Backends,
           Grown(history, history')
    PROVE  IInv'
<1>1. past \in Pasts /\ rebuild \in Builds /\ ReadFrom(rebuild.read, history.played)
      /\ choosing \in {"idle", "choosing", "resting"}
  BY DEF IInv, Typed
<1>2. ReadFrom(rebuild.read, history'.played)
  BY <1>1 DEF ReadFrom, Grown
<1>3. QED
  BY <1>1, <1>2, SessionStays DEF session

LEMMA JudgedKeeps ==
    ASSUME IInv, NEW said \in Seq(Verdict), NEW b \in Backends, Judged(said, b)
    PROVE  backend' \in Backends /\ Grown(history, history')
<1>1. b.outcomes \in Seq(Outcomes)
  BY DEF Backends
<1>2. Verdict \subseteq Outcomes
  BY DEF Verdict, Outcomes
<1>3. said \in Seq(Outcomes)
  BY <1>2, SeqMonotonic
<1> DEFINE all == b.outcomes \o said
<1>4. all \in Seq(Outcomes)
  BY <1>1, <1>3, ConcatProperties
<1>5. backend' = [b EXCEPT !.outcomes = all] /\ history' = InTurn(Written, history, said)
  BY DEF Judged
<1> HIDE DEF all
<1>6. backend' \in Backends
  BY <1>4, <1>5 DEF Backends
<1>7. history \in Histories /\ PlayedHere(history)
  BY DEF IInv, Typed
<1>8. QED
  BY <1>5, <1>6, <1>7, AllWritten

LEMMA BackendParts ==
    ASSUME IInv
    PROVE  /\ backend \in Backends
           /\ backend.queue \in Seq(Entries) /\ backend.out \in Seq(OutEntries)
           /\ backend.dropped \in Seq(Passages) /\ backend.outcomes \in Seq(Outcomes)
           /\ past \in Pasts /\ rebuild \in Builds /\ history \in Histories
           /\ ReadFrom(rebuild.read, history.played) /\ PlayedHere(history)
           /\ choosing \in {"idle", "choosing", "resting"}
           /\ Grown(history, history)
BY DEF IInv, Typed, Backends, Grown

LEMMA OtherParts ==
    ASSUME NEW b \in Backends, NEW q \in Seq(Entries), NEW o \in Seq(OutEntries),
           NEW d \in Seq(Passages), NEW m \in Seq(Outcomes)
    PROVE  /\ [b EXCEPT !.queue = q] \in Backends
           /\ [b EXCEPT !.out = o] \in Backends
           /\ [b EXCEPT !.dropped = d] \in Backends
           /\ [b EXCEPT !.queue = q, !.out = o] \in Backends
           /\ [b EXCEPT !.queue = q, !.dropped = d] \in Backends
           /\ [b EXCEPT !.out = o, !.dropped = d] \in Backends
           /\ [b EXCEPT !.queue = q, !.outcomes = m] \in Backends
BY DEF Backends

-----------------------------------------------------------------------------
(* The backend's steps.                                                    *)

LEMMA Counting ==
    ASSUME NEW c \in Pasts, NEW d,
           \/ d = [c EXCEPT !.queued = @ + 1]
           \/ d = [c EXCEPT !.builds = @ + 1]
           \/ d = [c EXCEPT !.upsets = @ + 1]
    PROVE  /\ d \in Pasts /\ d.told = c.told /\ d.settled = c.settled
           /\ d.missed = c.missed /\ d.forgot = c.forgot
<1>1. CASE d = [c EXCEPT !.queued = @ + 1]
  <2>1. c.queued + 1 \in Nat
    BY DEF Pasts
  <2>2. QED
    BY <1>1, <2>1 DEF Pasts
<1>2. CASE d = [c EXCEPT !.builds = @ + 1]
  <2>1. c.builds + 1 \in Nat
    BY DEF Pasts
  <2>2. QED
    BY <1>2, <2>1 DEF Pasts
<1>3. CASE d = [c EXCEPT !.upsets = @ + 1]
  <2>1. c.upsets + 1 \in Nat
    BY DEF Pasts
  <2>2. QED
    BY <1>3, <2>1 DEF Pasts
<1>4. QED
  BY <1>1, <1>2, <1>3

LEMMA PersonQueuesKeeps ==
    ASSUME IInv, NEW p \in Passages, PersonQueues(p)
    PROVE  IInv'
<1> DEFINE q == Append(backend.queue, [p |-> p, by |-> "user"])
           m == Append(backend.outcomes, Outcome("queued", p))
<1>1. [p |-> p, by |-> "user"] \in Entries /\ Outcome("queued", p) \in Outcomes
  BY DEF Entries, Outcomes, Outcome
<1>2. q \in Seq(Entries) /\ m \in Seq(Outcomes)
  BY <1>1, BackendParts, AppendProperties
<1>3. backend' = [backend EXCEPT !.queue = q, !.outcomes = m]
  BY DEF PersonQueues
<1> HIDE DEF q, m
<1>4. backend' \in Backends
  BY <1>2, <1>3, BackendParts, OtherParts
<1>5. past' = [past EXCEPT !.queued = @ + 1] /\ UNCHANGED <<session, history>>
  BY DEF PersonQueues
<1>6. past' \in Pasts /\ past'.told = past.told /\ past'.settled = past.settled
      /\ past'.missed = past.missed /\ past'.forgot = past.forgot
  BY <1>5, BackendParts, Counting
<1>7. QED
  BY <1>4, <1>5, <1>6, BackendParts, SessionStays DEF session

LEMMA ShorterQueue ==
    ASSUME IInv, NEW i \in DOMAIN backend.queue
    PROVE  RemoveAt(backend.queue, i) \in Seq(Entries) /\ backend.queue[i] \in Entries
<1> DEFINE q == backend.queue
<1>1. q \in Seq(Entries)
  BY BackendParts
<1> HIDE DEF q
<1>2. Len(q) \in Nat /\ DOMAIN q = 1..Len(q) /\ i \in 1..Len(q)
  BY <1>1, LenProperties DEF q
<1>3. SubSeq(q, 1, i - 1) \in Seq(Entries) /\ SubSeq(q, i + 1, Len(q)) \in Seq(Entries)
  BY <1>1, <1>2, SubSeqProperties
<1>4. RemoveAt(q, i) \in Seq(Entries)
  BY <1>3, ConcatProperties DEF RemoveAt
<1>5. q[i] \in Entries
  BY <1>1, <1>2, ElementOfSeq
<1>6. QED
  BY <1>4, <1>5 DEF q

LEMMA VerdictOf ==
    ASSUME NEW p \in Passages, NEW what \in {"played", "rejected"}
    PROVE  <<Outcome(what, p)>> \in Seq(Verdict)
<1>1. Outcome(what, p) \in Verdict
  BY DEF Outcome, Verdict
<1>2. QED
  BY <1>1

LEMMA PersonRemovesKeeps ==
    ASSUME IInv, NEW i, PersonRemoves(i)
    PROVE  IInv'
<1> DEFINE e == backend.queue[i]
           b == [backend EXCEPT !.queue = RemoveAt(@, i)]
           c == [b EXCEPT !.dropped = Append(@, e.p)]
           said == <<Outcome("rejected", e.p)>>
<1>1. i \in DOMAIN backend.queue
  BY DEF PersonRemoves
<1>2. e \in Entries /\ b \in Backends
  BY <1>1, ShorterQueue, BackendParts, OtherParts
<1>3. Judged(<<>>, c) \/ Judged(said, b)
  BY DEF PersonRemoves
<1>4. UNCHANGED <<session, past>>
  BY DEF PersonRemoves
<1> HIDE DEF e, b
<1>5. e.p \in Passages
  BY <1>2 DEF Entries
<1>6. said \in Seq(Verdict)
  BY <1>5, VerdictOf
<1>7. c \in Backends
  <2>1. b.dropped \in Seq(Passages)
    BY <1>2 DEF Backends
  <2> DEFINE d == Append(b.dropped, e.p)
  <2>2. d \in Seq(Passages)
    BY <1>5, <2>1, AppendProperties
  <2>3. c = [b EXCEPT !.dropped = d]
    OBVIOUS
  <2> HIDE DEF c, d
  <2>4. QED
    BY <1>2, <2>2, <2>3 DEF Backends
<1>8. <<>> \in Seq(Verdict)
  BY EmptySeq
<1> DEFINE none == <<>>
<1>9. none \in Seq(Verdict) /\ (Judged(none, c) \/ Judged(said, b))
  BY <1>3, <1>8
<1> HIDE DEF c, said, none
<1>10. backend' \in Backends /\ Grown(history, history')
  BY <1>2, <1>6, <1>7, <1>9, JudgedKeeps
<1>11. QED
  BY <1>4, <1>10, BackendMoves

LEMMA AdmitKeeps ==
    ASSUME IInv, Admit
    PROVE  IInv'
<1> DEFINE p == Head(backend.queue).p
           q == Tail(backend.queue)
           o == Append(backend.out, [p |-> p, mixing |-> TRUE, counted |-> FALSE])
           d == Append(backend.dropped, p)
<1>1. backend.queue \in Seq(Entries) /\ backend.queue # <<>>
  BY BackendParts DEF Admit
<1>2. q \in Seq(Entries) /\ p \in Passages
  <2>1. Head(backend.queue) \in Entries /\ Tail(backend.queue) \in Seq(Entries)
    BY <1>1, HeadTailProperties
  <2>2. QED
    BY <2>1 DEF Entries
<1>3. \/ backend' = [backend EXCEPT !.queue = q, !.out = o]
      \/ backend' = [backend EXCEPT !.queue = q, !.dropped = d]
  BY BackendParts DEF Admit, Backends
<1>4. UNCHANGED <<session, history, past>>
  BY DEF Admit
<1> HIDE DEF p, q
<1>5. o \in Seq(OutEntries) /\ d \in Seq(Passages)
  <2>1. [p |-> p, mixing |-> TRUE, counted |-> FALSE] \in OutEntries
    BY <1>2 DEF OutEntries
  <2>2. QED
    BY <1>2, <2>1, BackendParts, AppendProperties
<1> HIDE DEF o, d
<1>6. backend' \in Backends
  <2>1. /\ [backend EXCEPT !.queue = q, !.out = o] \in Backends
        /\ [backend EXCEPT !.queue = q, !.dropped = d] \in Backends
    BY <1>2, <1>5, BackendParts DEF Backends
  <2>2. QED
    BY <1>3, <2>1
<1>7. QED
  BY <1>4, <1>6, BackendParts, BackendMoves

LEMMA MixedOutKeeps ==
    ASSUME IInv, MixedOut
    PROVE  IInv'
<1>1. PICK i \in DOMAIN backend.out : backend' = [backend EXCEPT !.out[i].mixing = FALSE]
  BY DEF MixedOut
<1>2. UNCHANGED <<session, history, past>>
  BY DEF MixedOut
<1> DEFINE x == [backend.out[i] EXCEPT !.mixing = FALSE]
           o == [backend.out EXCEPT ![i] = x]
<1>3. backend.out \in Seq(OutEntries) /\ i \in 1..Len(backend.out)
  BY BackendParts, LenProperties
<1>4. x \in OutEntries
  <2>1. backend.out[i] \in OutEntries
    BY <1>3, ElementOfSeq
  <2>2. QED
    BY <2>1 DEF OutEntries
<1>5. backend' = [backend EXCEPT !.out = o]
  BY <1>1
<1> HIDE DEF x
<1>6. o \in Seq(OutEntries)
  BY <1>3, <1>4, ExceptSeq
<1> HIDE DEF o
<1>7. backend' \in Backends
  BY <1>5, <1>6, BackendParts, OtherParts
<1>8. QED
  BY <1>2, <1>7, BackendParts, BackendMoves

LEMMA HeardFirst ==
    ASSUME IInv, backend.out # <<>>
    PROVE  /\ 1 \in 1..Len(backend.out) /\ backend.out[1] \in OutEntries
           /\ backend.out[1].p \in Passages
           /\ Tail(backend.out) \in Seq(OutEntries)
           /\ Verdicts(backend.out[1]) \in Seq(Verdict)
<1>1. backend.out \in Seq(OutEntries) /\ 1 \in 1..Len(backend.out)
  BY BackendParts, EmptySeq
<1>2. backend.out[1] \in OutEntries /\ Tail(backend.out) \in Seq(OutEntries)
  BY <1>1, ElementOfSeq, HeadTailProperties
<1>3. backend.out[1].p \in Passages
  BY <1>2 DEF OutEntries
<1>4. Verdicts(backend.out[1]) \in Seq(Verdict)
  <2>1. <<Outcome("rejected", backend.out[1].p)>> \in Seq(Verdict)
    BY <1>3, VerdictOf
  <2>2. <<>> \in Seq(Verdict)
    BY EmptySeq
  <2>3. QED
    BY <2>1, <2>2 DEF Verdicts
<1>5. QED
  BY <1>1, <1>2, <1>3, <1>4

LEMMA CountedKeeps ==
    ASSUME IInv, Counted
    PROVE  IInv'
<1> DEFINE x == [backend.out[1] EXCEPT !.counted = TRUE]
           o == [backend.out EXCEPT ![1] = x]
           b == [backend EXCEPT !.out = o]
           said == <<Outcome("played", backend.out[1].p)>>
<1>1. backend.out # <<>> /\ UNCHANGED <<session, past>>
      /\ Judged(<<Outcome("played", backend.out[1].p)>>, [backend EXCEPT !.out[1].counted = TRUE])
  BY DEF Counted
<1>2. /\ 1 \in 1..Len(backend.out) /\ backend.out[1] \in OutEntries
      /\ backend.out[1].p \in Passages /\ backend.out \in Seq(OutEntries)
  BY <1>1, HeardFirst, BackendParts
<1>3. said \in Seq(Verdict)
  BY <1>2, VerdictOf
<1>4. x \in OutEntries
  BY <1>2 DEF OutEntries
<1>5. Judged(said, b)
  <2>1. [backend EXCEPT !.out[1].counted = TRUE] = b
    OBVIOUS
  <2>2. QED
    BY <1>1, <2>1
<1> HIDE DEF x
<1>6. o \in Seq(OutEntries)
  BY <1>2, <1>4, ExceptSeq
<1> HIDE DEF o, said
<1>7. b \in Backends
  BY <1>6, BackendParts, OtherParts
<1> HIDE DEF b
<1>8. backend' \in Backends /\ Grown(history, history')
  BY <1>3, <1>5, <1>7, JudgedKeeps
<1>9. QED
  BY <1>1, <1>8, BackendMoves

LEMMA DepartsKeeps ==
    ASSUME IInv, Departs
    PROVE  IInv'
<1> DEFINE b == [backend EXCEPT !.out = Tail(@)]
           said == Verdicts(backend.out[1])
<1>1. backend.out # <<>> /\ UNCHANGED <<session, past>> /\ Judged(said, b)
  BY DEF Departs
<1>2. Tail(backend.out) \in Seq(OutEntries) /\ said \in Seq(Verdict)
  BY <1>1, HeardFirst
<1>3. b \in Backends
  BY <1>2, BackendParts, OtherParts
<1> HIDE DEF b, said
<1>4. backend' \in Backends /\ Grown(history, history')
  BY <1>1, <1>2, <1>3, JudgedKeeps
<1>5. QED
  BY <1>1, <1>4, BackendMoves

LEMMA SkipKeeps ==
    ASSUME IInv, Skip
    PROVE  IInv'
<1> DEFINE none == <<>>
           d == backend.dropped \o Ids(Tail(backend.out))
           b == [backend EXCEPT !.out = none, !.dropped = d]
           said == Verdicts(backend.out[1])
<1>1. backend.out # <<>> /\ UNCHANGED <<session, past>> /\ Judged(said, b)
  BY DEF Skip
<1>2. Tail(backend.out) \in Seq(OutEntries) /\ said \in Seq(Verdict)
  BY <1>1, HeardFirst
<1>3. Ids(Tail(backend.out)) \in Seq(Passages)
  <2>1. \A x \in OutEntries : x.p \in Passages
    BY DEF OutEntries
  <2>2. QED
    BY <1>2, <2>1, IdsArePassages
<1>4. d \in Seq(Passages) /\ none \in Seq(OutEntries)
  BY <1>3, BackendParts, ConcatProperties, EmptySeq
<1> HIDE DEF d, none
<1>5. b \in Backends
  BY <1>4, BackendParts, OtherParts
<1> HIDE DEF b, said
<1>6. backend' \in Backends /\ Grown(history, history')
  BY <1>1, <1>2, <1>5, JudgedKeeps
<1>7. QED
  BY <1>1, <1>6, BackendMoves

-----------------------------------------------------------------------------
(* The other thread's, and time's.                                         *)

LEMMA ThreadKeeps ==
    ASSUME IInv, Ask \/ BuildReads \/ BuildEnds
    PROVE  IInv'
<1>1. CASE Ask
  <2>1. past' = [past EXCEPT !.builds = @ + 1] /\ rebuild' = [rebuild EXCEPT !.asked = TRUE]
        /\ UNCHANGED <<backend, director, notes, unseen, heard, history, choosing>>
    BY <1>1 DEF Ask
  <2>2. past' \in Pasts /\ past'.told = past.told /\ past'.settled = past.settled
        /\ past'.missed = past.missed /\ past'.forgot = past.forgot
    BY <2>1, BackendParts, Counting
  <2>3. rebuild' \in Builds /\ rebuild'.read = rebuild.read
    BY <2>1, BackendParts DEF Builds
  <2>4. QED
    BY <2>1, <2>2, <2>3, BackendParts, SessionStays
<1>2. CASE BuildReads
  <2> DEFINE read == [played |-> history.played, rejected |-> history.rejected]
  <2>1. rebuild' = [rebuild EXCEPT !.phase = "read", !.read = read]
        /\ UNCHANGED <<backend, director, notes, unseen, heard, history, choosing, past>>
    BY <1>2 DEF BuildReads
  <2>2. read \in Reads
    BY BackendParts DEF Reads, Histories
  <2>3. ReadFrom(read, history.played)
    BY BackendParts DEF ReadFrom, PlayedHere
  <2> HIDE DEF read
  <2>4. rebuild' \in Builds /\ rebuild'.read = read
    BY <2>1, <2>2, BackendParts DEF Builds
  <2>5. QED
    BY <2>1, <2>3, <2>4, BackendParts, SessionStays
<1>3. CASE BuildEnds
  <2>1. PICK how \in {"sent", "failed"} : rebuild' = [rebuild EXCEPT !.phase = how]
    BY <1>3 DEF BuildEnds
  <2>2. UNCHANGED <<backend, director, notes, unseen, heard, history, choosing, past>>
    BY <1>3 DEF BuildEnds
  <2>3. rebuild' \in Builds /\ rebuild'.read = rebuild.read
    BY <2>1, BackendParts DEF Builds
  <2>4. QED
    BY <2>2, <2>3, BackendParts, SessionStays
<1>4. QED
  BY <1>1, <1>2, <1>3

LEMMA RestsKeep ==
    ASSUME IInv, Chosen \/ RestOver
    PROVE  IInv'
<1>1. UNCHANGED <<backend, director, notes, unseen, heard, rebuild, history, past>>
      /\ choosing' \in {"idle", "choosing", "resting"}
  BY DEF Chosen, RestOver
<1>2. QED
  BY <1>1, BackendParts, SessionStays

-----------------------------------------------------------------------------
(* The session's own.                                                      *)

\* A step that leaves the session as one that is honest.
LEMMA SessionBecomes ==
    ASSUME NEW t, t \in Honest(past'.told, history'.played),
           director' = t.d, notes' = t.notes, unseen' = t.unseen, heard' = t.heard,
           past' \in Pasts, past'.settled = t.settled, past'.missed = t.missed,
           past'.forgot = t.forgot,
           history' \in Histories, PlayedHere(history'), backend' \in Backends,
           rebuild' \in Builds, ReadFrom(rebuild'.read, history'.played),
           choosing' \in {"idle", "choosing", "resting"}
    PROVE  IInv'
<1>1. t \in Sessions
  BY DEF Honest
<1>2. t = [d |-> t.d, notes |-> t.notes, unseen |-> t.unseen, heard |-> t.heard,
           settled |-> t.settled, missed |-> t.missed, forgot |-> t.forgot]
  BY <1>1 DEF Sessions
<1>3. Now' = t
  BY <1>2 DEF Now
<1> DEFINE honest == Honest(past.told, history.played)
<1>4. Now' \in honest'
  BY <1>3
<1> HIDE DEF honest
<1>5. Typed'
  BY DEF Typed
<1>6. (PlayedHere(history) /\ ReadFrom(rebuild.read, history.played))'
  BY DEF PlayedHere, ReadFrom
<1>7. QED
  BY <1>4, <1>5, <1>6 DEF IInv, honest

LEMMA NowIs ==
    ASSUME IInv
    PROVE  /\ Now \in Honest(past.told, history.played) /\ Now \in Sessions
           /\ Now.d = director /\ Now.notes = notes /\ Now.unseen = unseen /\ Now.heard = heard
           /\ Now.settled = past.settled /\ Now.missed = past.missed /\ Now.forgot = past.forgot
BY DEF IInv, Now, Honest

LEMMA SameHistory ==
    ASSUME IInv, history' = history
    PROVE  history' \in Histories /\ PlayedHere(history') /\ history'.played = history.played
BY DEF IInv, Typed

LEMMA GraceOverKeeps ==
    ASSUME IInv, GraceOver
    PROVE  IInv'
<1> DEFINE u == [p \in Passages |-> IF unseen[p] = "since" THEN "long" ELSE unseen[p]]
<1>1. UNCHANGED <<backend, director, notes, heard, rebuild, history, choosing, past>>
      /\ unseen' = u
  BY DEF GraceOver
<1>2. Now \in Honest(past.told, history.played) /\ unseen \in [Passages -> Sights]
      /\ notes \in [Passages -> Nat] /\ Directed(director, notes, past.settled, past.told, history.played)
  <2>1. PICK s : s = Now
    OBVIOUS
  <2>2. s \in Honest(past.told, history.played)
    BY <2>1, NowIs
  <2>3. s.unseen \in [Passages -> Sights] /\ s.notes \in [Passages -> Nat]
    BY <2>2, HonestFacts
  <2>4. Directed(s.d, s.notes, s.settled, past.told, history.played)
    BY <2>2 DEF Honest
  <2>5. QED
    BY <2>1, <2>2, <2>3, <2>4, NowIs
<1>3. u \in [Passages -> Sights]
  BY <1>2 DEF Sights
<1> HIDE DEF u
<1>4. PICK t : t = With(Now, director, notes, u)
  OBVIOUS
<1>5. t \in Honest(past.told, history.played)
  BY <1>2, <1>3, <1>4, NowIs, HonestWith
<1>6. /\ t.d = director /\ t.notes = notes /\ t.unseen = u /\ t.heard = heard
      /\ t.settled = past.settled /\ t.missed = past.missed /\ t.forgot = past.forgot
  BY <1>4, NowIs DEF With, Sessions
<1>7. t \in Honest(past'.told, history'.played)
  BY <1>1, <1>5
<1>8. QED
  BY <1>1, <1>6, <1>7, SameHistory, BackendParts, SessionBecomes

LEMMA PickKeeps ==
    ASSUME IInv, NEW p \in Passages, Pick(p)
    PROVE  IInv'
<1> DEFINE e == [p |-> p, by |-> "director"]
           q == Append(backend.queue, e)
<1>1. /\ backend' = [backend EXCEPT !.queue = q]
      /\ past' = [past EXCEPT !.queued = @ + 1]
      /\ UNCHANGED <<unseen, heard, rebuild, history, choosing>>
      /\ IF director.built
         THEN director' = NoteQueued(director, p) /\ notes' = [notes EXCEPT ![p] = @ + 1]
         ELSE UNCHANGED <<director, notes>>
  BY DEF Pick
<1>2. backend' \in Backends
  <2>1. e \in Entries
    BY DEF Entries
  <2>2. q \in Seq(Entries)
    BY <2>1, BackendParts, AppendProperties
  <2> HIDE DEF q
  <2>3. QED
    BY <1>1, <2>2, BackendParts, OtherParts
<1>3. past' \in Pasts /\ past'.told = past.told /\ past'.settled = past.settled
      /\ past'.missed = past.missed /\ past'.forgot = past.forgot
  BY <1>1, BackendParts, Counting
<1>4. PICK t : t = Mark(Now, p)
  OBVIOUS
<1>5. t \in Honest(past.told, history.played)
  BY <1>4, NowIs, MarkKeeps
<1>6. /\ director' = t.d /\ notes' = t.notes /\ unseen' = t.unseen /\ heard' = t.heard
      /\ past.settled = t.settled /\ past.missed = t.missed /\ past.forgot = t.forgot
  <2>1. CASE director.built
    <3>1. t = [Now EXCEPT !.d = director', !.notes = notes']
      BY <1>1, <1>4, <2>1, NowIs DEF Mark
    <3>2. QED
      BY <1>1, <3>1, NowIs DEF Sessions
  <2>2. CASE ~director.built
    BY <1>1, <1>4, <2>2, NowIs DEF Mark
  <2>3. QED
    BY <2>1, <2>2
<1>7. t \in Honest(past'.told, history'.played)
  BY <1>1, <1>3, <1>5
<1>8. QED
  BY <1>1, <1>2, <1>3, <1>6, <1>7, SameHistory, BackendParts, SessionBecomes

LEMMA BornHonest ==
    ASSUME NEW told, NEW played
    PROVE  [d |-> NoDirector, notes |-> NoMarks, unseen |-> AllSeen, heard |-> <<>>,
            settled |-> {}, missed |-> {}, forgot |-> FALSE] \in Honest(told, played)
<1> DEFINE none == <<>>
           t == [d |-> NoDirector, notes |-> NoMarks, unseen |-> AllSeen, heard |-> none,
                 settled |-> {}, missed |-> {}, forgot |-> FALSE]
<1>1. none \in Seq(Verdict) /\ Len(none) <= HeardMax /\ ToSet(none) \subseteq told
  BY BoundsAssumption, EmptySeq DEF ToSet
<1> HIDE DEF none
<1>2. t \in Sessions
  BY <1>1, NewSession DEF Sessions
<1>3. Directed(NoDirector, NoMarks, {}, told, played)
  BY NewSession DEF Directed
<1>4. t \in Honest(told, played)
  BY <1>1, <1>2, <1>3 DEF Honest
<1>5. QED
  BY <1>4 DEF none

LEMMA SilentBackend ==
    Silent \in Backends
BY EmptySeq DEF Silent, Backends

LEMMA FirstBuild ==
    ASSUME NEW played
    PROVE  Build(TRUE, "none", NothingRead) \in Builds
           /\ ReadFrom(Build(TRUE, "none", NothingRead).read, played)
<1>1. NothingRead \in Reads /\ \A k \in Keys : NothingRead.played[k] = FirstPlayed[k]
  BY HistoryAssumption DEF NothingRead, Reads, Times, Never, LongAgo
<1>2. QED
  BY <1>1 DEF Build, Builds, ReadFrom

\* The queue a player restarts with.
LEMMA RestoredQueue ==
    ASSUME NEW ids \in Seq(Passages)
    PROVE  Restored(ids) \in Seq(Entries)
<1>1. Len(ids) \in Nat /\ DOMAIN ids = 1..Len(ids) /\ \A i \in 1..Len(ids) : ids[i] \in Passages
  BY LenProperties
<1>2. Restored(ids) \in [1..Len(ids) -> Entries]
  BY <1>1 DEF Restored, Entries
<1>3. QED
  BY <1>1, <1>2, ListOf

LEMMA ThosePassages ==
    ASSUME NEW seq \in Seq(Passages), NEW T
    PROVE  Those(seq, T) \in Seq(Passages)
<1>1. Those(seq, T) \in Seq(Passages \cap T)
  BY ThoseKept
<1>2. Passages \cap T \subseteq Passages
  OBVIOUS
<1>3. QED
  BY <1>1, <1>2, SeqMonotonic

LEMMA RestartKeeps ==
    ASSUME IInv, Restart
    PROVE  IInv'
<1> DEFINE m == Smaller(1, Len(Mixing))
           one == [i \in 1..m |-> Mixing[i].p]
           rest == Those(Ids(backend.queue), Passages \ OnAir)
           q == Restored(one \o rest)
           told == IF history.written THEN past.told ELSE {}
           t == [d |-> NoDirector, notes |-> NoMarks, unseen |-> AllSeen, heard |-> <<>>,
                 settled |-> {}, missed |-> {}, forgot |-> FALSE]
<1>1. /\ backend' = [Silent EXCEPT !.queue = q]
      /\ director' = t.d /\ notes' = t.notes /\ unseen' = t.unseen /\ heard' = t.heard
      /\ rebuild' = Build(TRUE, "none", NothingRead)
      /\ choosing' = "idle" /\ history' = history
  BY DEF Restart
<1>2. past' = [past EXCEPT !.upsets = @ + 1, !.settled = {}, !.missed = {}, !.forgot = FALSE,
                           !.handed = FALSE, !.told = told]
  BY DEF Restart
<1>3. q \in Seq(Entries)
  <2>1. Mixing \in Seq(OutEntries) /\ Ids(backend.queue) \in Seq(Passages)
    BY BackendParts, MixingIsOut, ProjectedArePassages
  <2>2. m \in Nat /\ m <= Len(Mixing)
    BY <2>1, LenProperties DEF Smaller
  <2>3. \A i \in 1..m : Mixing[i].p \in Passages
    <3>1. \A i \in 1..m : i \in 1..Len(Mixing)
      BY <2>1, <2>2, LenProperties
    <3>2. \A i \in 1..Len(Mixing) : Mixing[i] \in OutEntries
      BY <2>1, ElementOfSeq
    <3> HIDE DEF m
    <3>3. QED
      BY <3>1, <3>2 DEF OutEntries
  <2> HIDE DEF m
  <2>4. one \in Seq(Passages)
    <3>1. one \in [1..m -> Passages]
      BY <2>3
    <3>2. QED
      BY <2>2, <3>1, ListOf
  <2>5. rest \in Seq(Passages)
    BY <2>1, ThosePassages
  <2> HIDE DEF one, rest
  <2>6. one \o rest \in Seq(Passages)
    BY <2>4, <2>5, ConcatProperties
  <2>7. QED
    BY <2>6, RestoredQueue
<1> HIDE DEF q
<1>4. backend' \in Backends
  BY <1>1, <1>3, SilentBackend DEF Backends
<1>5. told \in SUBSET Verdict
  BY BackendParts DEF Pasts
<1> HIDE DEF told
<1>6. /\ past' \in Pasts /\ past'.settled = {} /\ past'.missed = {} /\ past'.forgot = FALSE
  <2>1. past \in Pasts /\ past.upsets + 1 \in Nat
    BY BackendParts DEF Pasts
  <2>2. QED
    BY <1>2, <1>5, <2>1 DEF Pasts
<1>7. t \in Honest(past'.told, history'.played)
  BY BornHonest
<1>8. t.settled = {} /\ t.missed = {} /\ t.forgot = FALSE
  OBVIOUS
<1> HIDE DEF t
<1>9. rebuild' \in Builds /\ ReadFrom(rebuild'.read, history'.played)
  BY <1>1, FirstBuild
<1>10. QED
  BY <1>1, <1>4, <1>6, <1>7, <1>8, <1>9, SameHistory, SessionBecomes

LEMMA HandOverKeeps ==
    ASSUME IInv, HandOver
    PROVE  IInv'
<1> DEFINE ids == Those(Ids(backend.queue), Passages \ OnAir)
           dropped(refused) == Those(ids, refused)
           taken(refused) == Those(ids, Passages \ refused)
           crossing == [i \in 1..Smaller(1, Len(Mixing)) |-> [Mixing[i] EXCEPT !.counted = FALSE]]
<1>1. PICK worth \in BOOLEAN, refused \in SUBSET InQueue :
          /\ backend' = [backend EXCEPT
                 !.out = IF worth THEN crossing ELSE <<>>, !.queue = Restored(taken(refused))]
          /\ director' = InTurn(NeverPlayed, Now, dropped(refused)).d
          /\ notes' = InTurn(NeverPlayed, Now, dropped(refused)).notes
          /\ unseen' = InTurn(NeverPlayed, Now, dropped(refused)).unseen
  BY DEF HandOver
<1>2. /\ past' = [past EXCEPT !.upsets = @ + 1, !.handed = TRUE]
      /\ UNCHANGED <<heard, rebuild, history, choosing>>
  BY DEF HandOver
<1>3. Mixing \in Seq(OutEntries) /\ Ids(backend.queue) \in Seq(Passages)
  BY BackendParts, MixingIsOut, ProjectedArePassages
<1>4. ids \in Seq(Passages)
  BY <1>3, ThosePassages
<1> HIDE DEF ids
<1>5. dropped(refused) \in Seq(Passages) /\ Restored(taken(refused)) \in Seq(Entries)
  BY <1>4, ThosePassages, RestoredQueue
<1>6. crossing \in Seq(OutEntries)
  <2> DEFINE m == Smaller(1, Len(Mixing))
  <2>1. m \in Nat /\ m <= Len(Mixing)
    BY <1>3, LenProperties DEF Smaller
  <2> HIDE DEF m
  <2>2. \A i \in 1..m : Mixing[i] \in OutEntries
    BY <1>3, <2>1, LenProperties
  <2>3. \A x \in OutEntries : [x EXCEPT !.counted = FALSE] \in OutEntries
    BY DEF OutEntries
  <2>4. [i \in 1..m |-> [Mixing[i] EXCEPT !.counted = FALSE]] \in [1..m -> OutEntries]
    BY <2>2, <2>3
  <2>5. QED
    BY <2>1, <2>4, ListOf DEF m
<1>7. backend' \in Backends
  <2> DEFINE o == IF worth THEN crossing ELSE <<>>
             q == Restored(taken(refused))
  <2>1. o \in Seq(OutEntries) /\ q \in Seq(Entries)
    BY <1>5, <1>6, EmptySeq
  <2>2. backend' = [backend EXCEPT !.out = o, !.queue = q]
    BY <1>1
  <2> HIDE DEF o, q
  <2>3. QED
    BY <2>1, <2>2, BackendParts DEF Backends
<1>8. PICK s : s = InTurn(NeverPlayed, Now, dropped(refused))
  OBVIOUS
<1>9. s \in Honest(past.told, history.played) /\ s.settled = past.settled
  <2> HIDE DEF dropped
  <2>1. QED
    BY <1>5, <1>8, NowIs, DropsKeep
<1>10. director' = s.d /\ notes' = s.notes /\ unseen' = s.unseen
  BY <1>1, <1>8
<1>11. s.notes \in [Passages -> Nat] /\ s.unseen \in [Passages -> Sights]
       /\ Directed(s.d, s.notes, past.settled, past.told, history.played)
  <2>1. s.notes \in [Passages -> Nat] /\ s.unseen \in [Passages -> Sights]
    BY <1>9, HonestFacts
  <2>2. Directed(s.d, s.notes, s.settled, past.told, history.played)
    BY <1>9 DEF Honest
  <2>3. QED
    BY <1>9, <2>1, <2>2
<1>12. PICK t : t = With(Now, s.d, s.notes, s.unseen)
  OBVIOUS
<1>13. t \in Honest(past.told, history.played)
  BY <1>11, <1>12, NowIs, HonestWith
<1>14. /\ t.d = s.d /\ t.notes = s.notes /\ t.unseen = s.unseen /\ t.heard = heard
       /\ t.settled = past.settled /\ t.missed = past.missed /\ t.forgot = past.forgot
  BY <1>12, NowIs DEF With, Sessions
<1>15. past' \in Pasts /\ past'.told = past.told /\ past'.settled = past.settled
       /\ past'.missed = past.missed /\ past'.forgot = past.forgot
  <2>1. past.upsets + 1 \in Nat
    BY BackendParts DEF Pasts
  <2>2. QED
    BY <1>2, <2>1, BackendParts DEF Pasts
<1>16. t \in Honest(past'.told, history'.played)
  BY <1>2, <1>13, <1>15
<1>17. QED
  BY <1>2, <1>7, <1>10, <1>14, <1>15, <1>16, SameHistory, BackendParts, SessionBecomes

\* Session::refill: the rebuild tended, what was said heard, what is out of
\* sight settled.
LEMMA RefillKeeps ==
    ASSUME IInv, Refill
    PROVE  IInv'
<1> DEFINE said == {o \in ToSet(backend.outcomes) : o.what # "queued"}
           told == past.told \cup said
           played == history.played
           keeping(r) == r.phase # "none" \/ ~history.written
<1>1. PICK enough \in BOOLEAN :
          \E tended \in {Tended(enough)} :
              /\ rebuild' = tended.rebuild
              /\ \E s \in {SettleUnseen(HeardOutcomes(tended.s, keeping(tended.rebuild)))} : Becomes(s)
  BY DEF Refill
<1>2. PICK tended \in {Tended(enough)} :
          /\ rebuild' = tended.rebuild
          /\ \E s \in {SettleUnseen(HeardOutcomes(tended.s, keeping(tended.rebuild)))} : Becomes(s)
  BY <1>1
<1> DEFINE keep == keeping(tended.rebuild)
<1>2a. PICK s : s = SettleUnseen(HeardOutcomes(tended.s, keep)) /\ Becomes(s)
  BY <1>2
<1>3. /\ backend' = [backend EXCEPT !.dropped = <<>>, !.outcomes = <<>>]
      /\ choosing' \in {"idle", "choosing", "resting"} /\ history' = history
  BY BackendParts DEF Refill
<1>4. backend \in Backends /\ rebuild \in Builds /\ ReadFrom(rebuild.read, played)
      /\ backend.outcomes \in Seq(Outcomes) /\ backend.dropped \in Seq(Passages)
  BY BackendParts
<1>5. backend' \in Backends
  <2> DEFINE none == <<>>
  <2>1. none \in Seq(Passages) /\ none \in Seq(Outcomes)
    BY EmptySeq
  <2>2. backend' = [backend EXCEPT !.dropped = none, !.outcomes = none]
    BY <1>3
  <2> HIDE DEF none
  <2>3. QED
    BY <1>4, <2>1, <2>2 DEF Backends
<1>6. said \subseteq Verdict
  <2>1. \A i \in DOMAIN backend.outcomes : backend.outcomes[i] \in Outcomes
    BY <1>4, LenProperties, ElementOfSeq
  <2>2. \A o \in Outcomes : o.what # "queued" => o \in Verdict
    BY DEF Outcomes, Verdict
  <2>3. QED
    BY <2>1, <2>2 DEF ToSet
<1>7. told \in SUBSET Verdict /\ past.told \subseteq told
  BY <1>6, BackendParts DEF Pasts
<1> HIDE DEF told
<1>8. Now \in Honest(told, played)
  <2>1. PICK n : n = Now
    OBVIOUS
  <2>2. n \in Honest(past.told, played)
    BY <2>1, NowIs
  <2> HIDE DEF played
  <2>3. n \in Honest(told, played)
    BY <1>7, <2>2, HonestGrows
  <2>4. QED
    BY <2>1, <2>3
<1> HIDE DEF played
<1>9. /\ tended.s \in Honest(told, played) /\ tended.rebuild \in Builds
      /\ ReadFrom(tended.rebuild.read, played)
  BY <1>4, <1>8, TendedKeeps, <1>2
<1>10. keep \in BOOLEAN
  OBVIOUS
<1> HIDE DEF keep
<1>11. HeardOutcomes(tended.s, keep) \in Honest(told, played)
  BY <1>4, <1>9, <1>10, OutcomesKeep DEF told, said
<1>12. s \in Honest(told, played)
  BY <1>2a, <1>11, UnseenKeeps
<1>13. /\ director' = s.d /\ notes' = s.notes /\ unseen' = s.unseen /\ heard' = s.heard
       /\ past' = [past EXCEPT !.settled = s.settled, !.missed = s.missed \cup Muddled,
                               !.forgot = s.forgot, !.handed = FALSE, !.told = told]
  BY <1>2a DEF Becomes, told
<1>14. s.missed \cup Muddled \in SUBSET Passages /\ s.settled \in SUBSET Keys
       /\ s.forgot \in BOOLEAN /\ s \in Sessions
  <2>1. s.missed \subseteq Passages /\ s.settled \subseteq Keys /\ s.forgot \in BOOLEAN
        /\ s \in Sessions
    BY <1>12, HonestFacts
  <2>2. Muddled \subseteq Passages
    <3>1. ToSet(backend.dropped) \subseteq Passages
      BY <1>4, LenProperties, ElementOfSeq DEF ToSet
    <3>2. QED
      BY <3>1 DEF Muddled
  <2>3. QED
    BY <2>1, <2>2
<1> DEFINE missed == s.missed \cup Muddled
<1>15. /\ past' \in Pasts /\ past'.told = told /\ past'.settled = s.settled
       /\ past'.missed = missed /\ past'.forgot = s.forgot
  BY <1>7, <1>13, <1>14, BackendParts DEF Pasts
<1>16. missed \in SUBSET Passages
  BY <1>14
<1> HIDE DEF missed
<1>17. PICK t : t = Missing(s, missed)
  OBVIOUS
<1>18. t \in Honest(told, played)
  BY <1>12, <1>16, <1>17, MissingKeeps
<1>19. /\ t.d = s.d /\ t.notes = s.notes /\ t.unseen = s.unseen /\ t.heard = s.heard
       /\ t.settled = s.settled /\ t.missed = missed /\ t.forgot = s.forgot
  BY <1>14, <1>17 DEF Missing, Sessions
<1>20. t \in Honest(past'.told, history'.played)
  BY <1>3, <1>15, <1>18 DEF played
<1>21. rebuild' \in Builds /\ ReadFrom(rebuild'.read, history'.played)
  BY <1>2, <1>3, <1>9 DEF played
<1>22. QED
  BY <1>3, <1>5, <1>13, <1>15, <1>19, <1>20, <1>21, SameHistory, SessionBecomes

-----------------------------------------------------------------------------
LEMMA InitHolds ==
    ASSUME Init
    PROVE  IInv
<1>1. /\ backend = Silent /\ director = NoDirector /\ notes = NoMarks /\ unseen = AllSeen
      /\ heard = <<>> /\ rebuild = Build(TRUE, "none", NothingRead) /\ choosing = "idle"
      /\ past = [queued |-> 0, builds |-> 0, upsets |-> 0, told |-> {}, settled |-> {},
                 missed |-> {}, forgot |-> FALSE, handed |-> FALSE]
  BY DEF Init
<1>2. PICK w \in Writing, ps \in SUBSET FirstDeclined :
          history = [played |-> FirstPlayed, rejected |-> ps, written |-> w]
  BY DEF Init
<1>3. history \in Histories /\ PlayedHere(history)
  BY <1>2, HistoryAssumption DEF Histories, PlayedHere, Times, Never, LongAgo
<1>4. past \in Pasts
  BY <1>1 DEF Pasts
<1>5. rebuild \in Builds /\ ReadFrom(rebuild.read, history.played) /\ backend \in Backends
  BY <1>1, FirstBuild, SilentBackend
<1>6. Now = [d |-> NoDirector, notes |-> NoMarks, unseen |-> AllSeen, heard |-> <<>>,
             settled |-> {}, missed |-> {}, forgot |-> FALSE]
  BY <1>1 DEF Now
<1>7. Now \in Honest(past.told, history.played)
  BY <1>6, BornHonest
<1>8. QED
  BY <1>1, <1>3, <1>4, <1>5, <1>7 DEF IInv, Typed

LEMMA StutterKeeps ==
    ASSUME IInv, UNCHANGED vars
    PROVE  IInv'
<1>1. backend' = backend /\ UNCHANGED session /\ UNCHANGED past /\ history' = history
  BY DEF vars, session
<1>2. QED
  BY <1>1, BackendParts, BackendMoves

LEMMA NextKeeps ==
    ASSUME IInv, [Next]_vars
    PROVE  IInv'
<1>1. ASSUME NEW p \in Passages, PersonQueues(p)
      PROVE  IInv'
  BY <1>1, PersonQueuesKeeps
<1>2. ASSUME NEW p \in Passages, Pick(p)
      PROVE  IInv'
  BY <1>2, PickKeeps
<1>3. ASSUME NEW i \in 1..(Depth + MaxQueued), PersonRemoves(i)
      PROVE  IInv'
  BY <1>3, PersonRemovesKeeps
<1>4. CASE Admit
  BY <1>4, AdmitKeeps
<1>5. CASE MixedOut
  BY <1>5, MixedOutKeeps
<1>6. CASE Counted
  BY <1>6, CountedKeeps
<1>7. CASE Departs
  BY <1>7, DepartsKeeps
<1>8. CASE Skip
  BY <1>8, SkipKeeps
<1>9. CASE Ask \/ BuildReads \/ BuildEnds
  BY <1>9, ThreadKeeps
<1>10. CASE Refill
  BY <1>10, RefillKeeps
<1>11. CASE Chosen \/ RestOver
  BY <1>11, RestsKeep
<1>12. CASE GraceOver
  BY <1>12, GraceOverKeeps
<1>13. CASE Restart
  BY <1>13, RestartKeeps
<1>14. CASE HandOver
  BY <1>14, HandOverKeeps
<1>15. CASE UNCHANGED vars
  BY <1>15, StutterKeeps
<1>16. QED
  BY <1>1, <1>2, <1>3, <1>4, <1>5, <1>6, <1>7, <1>8, <1>9, <1>10, <1>11, <1>12, <1>13, <1>14,
     <1>15 DEF Next

\* The inductive invariant holds throughout.
THEOREM Always ==
    Spec => []IInv
<1>1. Init => IInv
  BY InitHolds
<1>2. IInv /\ [Next]_vars => IInv'
  BY NextKeeps
<1>3. QED
  BY <1>1, <1>2, PTL DEF Spec

\* The state has its shape, for any passages, bounds and history: no count of
\* marks below zero, no list of what was heard past HEARD_MAX.
THEOREM TypeCorrect ==
    Spec => []TypeOK
<1>1. IInv => TypeOK
  <2> SUFFICES ASSUME IInv PROVE TypeOK
    OBVIOUS
  <2>1. PICK s : s = Now
    OBVIOUS
  <2>2. s \in Honest(past.told, history.played)
    BY <2>1, NowIs
  <2>3. s.d \in Directors /\ s.notes \in [Passages -> Nat] /\ s.unseen \in [Passages -> Sights]
        /\ Len(s.heard) <= HeardMax
    BY <2>2, HonestFacts
  <2>4. director \in Directors /\ notes \in [Passages -> Nat] /\ unseen \in [Passages -> Sights]
        /\ Len(heard) <= HeardMax
    BY <2>1, <2>3, NowIs
  <2>5. history.written \in Writing /\ choosing \in {"idle", "choosing", "resting"}
        /\ rebuild.phase \in {"none", "started", "read", "sent", "failed"}
    BY BackendParts DEF Histories, Builds
  <2>6. /\ backend.queue \in Seq([p : Passages, by : {"user", "director", "restored"}])
        /\ backend.out \in Seq([p : Passages, mixing : BOOLEAN, counted : BOOLEAN])
        /\ backend.dropped \in Seq(Passages)
    BY BackendParts DEF Entries, OutEntries
  <2>7. QED
    BY <2>4, <2>5, <2>6 DEF TypeOK, Directors, Sights
<1>2. QED
  BY <1>1, Always, PTL

\* Every mark the running Director holds open has the note that will close
\* it, and every note a mark: across rebuilds, restarts and handovers,
\* whatever the backend says and in whatever order.
THEOREM EveryMarkHasItsNote ==
    Spec => []MarksMatchNotes
<1>1. IInv => MarksMatchNotes
  <2> SUFFICES ASSUME IInv PROVE MarksMatchNotes
    OBVIOUS
  <2>1. PICK s : s = Now
    OBVIOUS
  <2>2. s \in Honest(past.told, history.played)
    BY <2>1, NowIs
  <2>3. Matched(s.notes, s.d)
    BY <2>2, HonestFacts
  <2>4. Matched(notes, director)
    BY <2>1, <2>3, NowIs
  <2>5. QED
    BY <2>4 DEF Matched, MarksMatchNotes
<1>2. QED
  BY <1>1, Always, PTL

\* With no mark open, rotation holds against no key anything but what was
\* heard: what was chosen, and then declined, dropped or lost, has left no
\* trace.
THEOREM NothingElseCounts ==
    Spec => []OnlyWhatWasHeardCounts
<1>1. IInv => OnlyWhatWasHeardCounts
  <2> SUFFICES ASSUME IInv, director.built, notes = NoMarks, NEW k \in Keys \ past.settled
               PROVE  \/ director.stamp[k] = FirstPlayed[k]
                      \/ /\ director.stamp[k] = Recent
                         /\ \/ history.played[k] = Recent
                            \/ \E o \in past.told : o.what = "played" /\ k \in KeysOf[o.p]
    BY DEF OnlyWhatWasHeardCounts
  <2>1. PICK s : s = Now
    OBVIOUS
  <2>2. s \in Honest(past.told, history.played)
    BY <2>1, NowIs
  <2>3. Matched(s.notes, s.d)
        /\ (s.d.built => \A j \in Keys \ s.settled : Earned(s.d, j, past.told, history.played))
    BY <2>2, HonestFacts
  <2>4. Matched(NoMarks, director) /\ Earned(director, k, past.told, history.played)
    BY <2>1, <2>3, NowIs
  <2>5. director.open[k] = 0
    BY <2>4, NotedNone, FS_EmptySet DEF Matched
  <2>6. QED
    BY <2>4, <2>5 DEF Earned, Base, HeardOn
<1>2. QED
  BY <1>1, Always, PTL
-----------------------------------------------------------------------------
(* Counting in lists.                                                      *)

CountTo(seq, S, i) == Cardinality({j \in 1..i : seq[j] \in S})

LEMMA CountFrom ==
    ASSUME NEW seq, NEW S
    PROVE  CountTo(seq, S, 0) = 0
<1> DEFINE none == {j \in 1..0 : seq[j] \in S}
<1>1. none = {}
  OBVIOUS
<1> HIDE DEF none
<1>2. Cardinality(none) = 0
  BY <1>1, FS_EmptySet
<1>3. QED
  BY <1>2 DEF CountTo, none

\* A count goes up by the entries that count, one by one.
CountStep(seq, S, i) ==
    /\ CountTo(seq, S, i) \in Nat
    /\ CountTo(seq, S, i + 1) = IF seq[i + 1] \in S THEN CountTo(seq, S, i) + 1 ELSE CountTo(seq, S, i)

LEMMA CountedTo ==
    ASSUME NEW seq, NEW S, NEW i \in Nat
    PROVE  CountStep(seq, S, i)
<1> DEFINE C(h) == {j \in 1..h : seq[j] \in S}
<1>1. IsFiniteSet(C(i))
  <2>1. IsFiniteSet(1..i) /\ C(i) \in SUBSET (1..i)
    BY FS_Interval
  <2> HIDE DEF C
  <2>2. QED
    BY <2>1, FS_Subset
<1>2. C(i + 1) = IF seq[i + 1] \in S THEN C(i) \cup {i + 1} ELSE C(i)
  <2>1. \A j : j \in 1..(i + 1) <=> (j \in 1..i \/ j = i + 1)
    OBVIOUS
  <2>2. QED
    BY <2>1
<1>3. i + 1 \notin C(i)
  OBVIOUS
<1> HIDE DEF C
<1>4. Cardinality(C(i)) \in Nat
  BY <1>1, FS_CardinalityType
<1>5. Cardinality(C(i + 1)) = IF seq[i + 1] \in S THEN Cardinality(C(i)) + 1 ELSE Cardinality(C(i))
  BY <1>1, <1>2, <1>3, FS_AddElement
<1>6. QED
  BY <1>4, <1>5 DEF CountTo, C, CountStep

\* The same, from the entry that counts.
LEMMA CountedBy ==
    ASSUME NEW seq, NEW S, NEW n \in Nat, NEW i \in 1..n
    PROVE  /\ CountTo(seq, S, i - 1) \in Nat /\ CountTo(seq, S, i) \in Nat
           /\ seq[i] \in S => CountTo(seq, S, i) = CountTo(seq, S, i - 1) + 1
           /\ seq[i] \notin S => CountTo(seq, S, i) = CountTo(seq, S, i - 1)
<1>1. PICK j \in Nat : j = i - 1
  OBVIOUS
<1>2. i \in Nat /\ i = j + 1
  BY <1>1
<1>3. /\ CountTo(seq, S, j) \in Nat /\ CountTo(seq, S, i) \in Nat
      /\ CountTo(seq, S, j + 1) = IF seq[j + 1] \in S THEN CountTo(seq, S, j) + 1 ELSE CountTo(seq, S, j)
  BY <1>2, CountedTo DEF CountStep
<1>4. QED
  BY <1>1, <1>2, <1>3

\* What counts alike counts as much.
LEMMA CountsAlike ==
    ASSUME NEW seq, NEW S, NEW other, NEW T, NEW n,
           \A j \in 1..n : seq[j] \in S <=> other[j] \in T
    PROVE  CountTo(seq, S, n) = CountTo(other, T, n)
<1>1. {j \in 1..n : seq[j] \in S} = {j \in 1..n : other[j] \in T}
  OBVIOUS
<1>2. QED
  BY <1>1 DEF CountTo

LEMMA HowManyIs ==
    ASSUME NEW E, NEW seq \in Seq(E), NEW S
    PROVE  HowMany(seq, S) = CountTo(seq, S, Len(seq)) /\ HowMany(seq, S) \in Nat
<1>1. DOMAIN seq = 1..Len(seq) /\ Len(seq) \in Nat
  BY LenProperties
<1>2. HowMany(seq, S) = CountTo(seq, S, Len(seq))
  BY <1>1 DEF HowMany, CountTo
<1>3. QED
  BY <1>1, <1>2, CountedTo DEF CountStep

\* Of two lists, one after the other.
LEMMA CountsJoined ==
    ASSUME NEW E, NEW q \in Seq(E), NEW r \in Seq(E), NEW S
    PROVE  /\ HowMany(q \o r, S) = HowMany(q, S) + HowMany(r, S)
           /\ \A i \in 1..Len(q) : (q \o r)[i] = q[i] /\ CountTo(q \o r, S, i) = CountTo(q, S, i)
<1> DEFINE s == q \o r
           m == Len(q)
           n == Len(r)
<1>1. /\ s \in Seq(E) /\ m \in Nat /\ n \in Nat /\ Len(s) = m + n
      /\ \A i \in 1..m : s[i] = q[i]
      /\ \A i \in 1..n : s[m + i] = r[i]
  <2>1. /\ q \o r \in Seq(E) /\ Len(q \o r) = Len(q) + Len(r)
        /\ \A i \in 1..(Len(q) + Len(r)) : (q \o r)[i] = IF i <= Len(q) THEN q[i] ELSE r[i - Len(q)]
    BY ConcatProperties
  <2>2. Len(q) \in Nat /\ Len(r) \in Nat
    BY LenProperties
  <2> HIDE DEF s
  <2>3. \A i \in 1..n : m + i \in 1..(m + n) /\ ~(m + i <= m) /\ (m + i) - m = i
    BY <2>2
  <2>4. \A i \in 1..m : i \in 1..(m + n) /\ i <= m
    BY <2>2
  <2>5. QED
    BY <2>1, <2>2, <2>3, <2>4 DEF s
<1> HIDE DEF s, m, n
<1>2. \A i \in 1..m : CountTo(s, S, i) = CountTo(q, S, i)
  <2> TAKE i \in 1..m
  <2>1. \A j \in 1..i : j \in 1..m
    BY <1>1
  <2>2. \A j \in 1..i : s[j] \in S <=> q[j] \in S
    BY <1>1, <2>1
  <2>3. QED
    BY <2>2, CountsAlike
<1>3. CountTo(s, S, m) = CountTo(q, S, m)
  <2>1. \A j \in 1..m : s[j] \in S <=> q[j] \in S
    BY <1>1
  <2>2. QED
    BY <2>1, CountsAlike
<1> DEFINE A == {i \in 0..n : CountTo(s, S, m + i) = CountTo(q, S, m) + CountTo(r, S, i)}
<1>4. 0 \in A
  <2>1. CountTo(r, S, 0) = 0 /\ CountTo(q, S, m) \in Nat
    <3>1. CountStep(q, S, m)
      BY <1>1, CountedTo
    <3>2. CountTo(r, S, 0) = 0
      BY CountFrom
    <3>3. QED
      BY <3>1, <3>2 DEF CountStep
  <2>2. QED
    BY <1>1, <1>3, <2>1
<1>5. ASSUME NEW i \in 1..n, i - 1 \in A
      PROVE  i \in A
  <2>1. PICK j \in Nat : j = i - 1
    BY <1>1
  <2>2. i = j + 1 /\ m + i = (m + j) + 1 /\ m + j \in Nat
    BY <1>1, <2>1
  <2>3. CountTo(s, S, m + j) = CountTo(q, S, m) + CountTo(r, S, j)
    BY <1>5, <2>1
  <2>4. CountTo(s, S, m + i) = IF s[m + i] \in S THEN CountTo(s, S, m + j) + 1 ELSE CountTo(s, S, m + j)
    <3>1. PICK h \in Nat : h = m + j
      BY <2>2
    <3>2. CountTo(s, S, h + 1) = IF s[h + 1] \in S THEN CountTo(s, S, h) + 1 ELSE CountTo(s, S, h)
      <4>1. CountStep(s, S, h)
        BY <3>1, CountedTo
      <4>2. QED
        BY <4>1 DEF CountStep
    <3>3. QED
      BY <2>2, <3>1, <3>2
  <2>5. CountTo(r, S, j + 1) = IF r[j + 1] \in S THEN CountTo(r, S, j) + 1 ELSE CountTo(r, S, j)
    <3>1. CountStep(r, S, j)
      BY <2>1, CountedTo
    <3>2. QED
      BY <3>1 DEF CountStep
  <2>6. s[m + i] = r[i]
    BY <1>1
  <2>7. CountTo(q, S, m) \in Nat /\ CountTo(r, S, j) \in Nat
    <3>1. CountStep(q, S, m) /\ CountStep(r, S, j)
      BY <1>1, <2>1, CountedTo
    <3>2. QED
      BY <3>1 DEF CountStep
  <2>8. CountTo(s, S, m + i) = CountTo(q, S, m) + CountTo(r, S, i)
    BY <2>2, <2>3, <2>4, <2>5, <2>6, <2>7
  <2>9. QED
    BY <2>8
<1> HIDE DEF A
<1>6. \A i \in 0..n : i \in A
  BY <1>1, <1>4, <1>5, UpTo
<1>7. CountTo(s, S, m + n) = CountTo(q, S, m) + CountTo(r, S, n)
  <2>1. n \in A
    BY <1>1, <1>6
  <2>2. QED
    BY <2>1 DEF A
<1>8. HowMany(s, S) = CountTo(s, S, m + n) /\ HowMany(q, S) = CountTo(q, S, m)
      /\ HowMany(r, S) = CountTo(r, S, n)
  BY <1>1, HowManyIs DEF m, n
<1>9. QED
  BY <1>1, <1>2, <1>7, <1>8 DEF s, m

LEMMA NoneCounted ==
    ASSUME NEW S
    PROVE  HowMany(<<>>, S) = 0
<1>1. HowMany(<<>>, S) = Cardinality({})
  BY DEF HowMany
<1>2. QED
  BY <1>1, FS_EmptySet

LEMMA OneCounted ==
    ASSUME NEW x, NEW S
    PROVE  HowMany(<<x>>, S) = IF x \in S THEN 1 ELSE 0
<1> DEFINE one == <<x>>
<1>1. one \in Seq({x}) /\ Len(one) = 1 /\ one[1] = x
  OBVIOUS
<1> HIDE DEF one
<1>2. HowMany(one, S) = CountTo(one, S, 1)
  BY <1>1, HowManyIs
<1>3. CountTo(one, S, 0) = 0 /\ 0 \in Nat /\ 0 + 1 = 1
  BY CountFrom
<1>4. CountTo(one, S, 0 + 1) = IF one[0 + 1] \in S THEN CountTo(one, S, 0) + 1 ELSE CountTo(one, S, 0)
  BY <1>3, CountedTo DEF CountStep
<1>5. QED
  BY <1>1, <1>2, <1>3, <1>4 DEF one

\* With one more entry at the end.
LEMMA CountsAppended ==
    ASSUME NEW E, NEW q \in Seq(E), NEW x \in E, NEW S
    PROVE  HowMany(Append(q, x), S) = IF x \in S THEN HowMany(q, S) + 1 ELSE HowMany(q, S)
<1> DEFINE one == <<x>>
<1>1. one \in Seq(E) /\ HowMany(one, S) = IF x \in S THEN 1 ELSE 0
  BY OneCounted
<1>2. Append(q, x) = q \o one
  BY AppendIsConcat
<1> HIDE DEF one
<1>3. HowMany(q, S) \in Nat
  BY HowManyIs
<1>4. QED
  BY <1>1, <1>2, <1>3, CountsJoined

\* Without one of its entries.
Without(q, i, r) ==
    Len(r) = Len(q) - 1 /\ \A j \in 1..Len(r) : r[j] = IF j < i THEN q[j] ELSE q[j + 1]

LEMMA CountsWithout ==
    ASSUME NEW E, NEW q \in Seq(E), NEW i \in 1..Len(q), NEW r \in Seq(E), Without(q, i, r), NEW S
    PROVE  HowMany(q, S) = IF q[i] \in S THEN HowMany(r, S) + 1 ELSE HowMany(r, S)
<1> DEFINE n == Len(r)
           one == IF q[i] \in S THEN 1 ELSE 0
           A == {j \in 0..n :
                    IF j < i THEN CountTo(q, S, j) = CountTo(r, S, j)
                    ELSE CountTo(q, S, j + 1) = CountTo(r, S, j) + one}
<1>1. Len(q) \in Nat /\ n \in Nat /\ Len(q) = n + 1 /\ i \in 1..(n + 1)
  BY LenProperties DEF Without
<1> HIDE DEF n
<1>2. 0 \in A
  BY <1>1, CountFrom
<1>3. ASSUME NEW j \in 1..n, j - 1 \in A
      PROVE  j \in A
  <2>1. PICK h \in Nat : h = j - 1
    BY <1>1
  <2>2. j = h + 1 /\ j \in Nat
    BY <1>1, <2>1
  <2>3. IF h < i THEN CountTo(q, S, h) = CountTo(r, S, h)
        ELSE CountTo(q, S, h + 1) = CountTo(r, S, h) + one
    BY <1>3, <2>1
  <2>4. /\ CountTo(r, S, h) \in Nat /\ CountTo(q, S, h) \in Nat /\ CountTo(q, S, h + 1) \in Nat
        /\ CountTo(r, S, j) = IF r[j] \in S THEN CountTo(r, S, h) + 1 ELSE CountTo(r, S, h)
        /\ CountTo(q, S, j) = IF q[j] \in S THEN CountTo(q, S, h) + 1 ELSE CountTo(q, S, h)
        /\ CountTo(q, S, j + 1) = IF q[j + 1] \in S THEN CountTo(q, S, j) + 1 ELSE CountTo(q, S, j)
    <3>1. CountStep(r, S, h) /\ CountStep(q, S, h) /\ CountStep(q, S, j)
      BY <2>2, CountedTo
    <3>2. QED
      BY <2>2, <3>1 DEF CountStep
  <2>5. r[j] = IF j < i THEN q[j] ELSE q[j + 1]
    BY DEF n, Without
  <2>6. one \in Nat /\ (q[i] \in S => one = 1) /\ (q[i] \notin S => one = 0)
    OBVIOUS
  <2> HIDE DEF one
  <2>7. CASE j < i
    <3>1. CountTo(q, S, j) = CountTo(r, S, j)
      BY <1>1, <2>1, <2>2, <2>3, <2>4, <2>5, <2>7
    <3>2. QED
      BY <2>7, <3>1
  <2>8. CASE j = i
    <3>1. CountTo(q, S, h) = CountTo(r, S, h)
      BY <1>1, <2>1, <2>2, <2>3, <2>8
    <3>2. CountTo(q, S, j) = CountTo(q, S, h) + one
      BY <2>4, <2>6, <2>8
    <3>3. CountTo(q, S, j + 1) = CountTo(r, S, j) + one
      BY <2>4, <2>5, <2>6, <2>8, <3>1, <3>2
    <3>4. QED
      BY <1>1, <2>8, <3>3
  <2>9. CASE j > i
    <3>1. CountTo(q, S, h + 1) = CountTo(r, S, h) + one
      BY <1>1, <2>1, <2>2, <2>3, <2>9
    <3>2. CountTo(q, S, j + 1) = CountTo(r, S, j) + one
      BY <1>1, <2>2, <2>4, <2>5, <2>6, <2>9, <3>1
    <3>3. QED
      BY <1>1, <2>9, <3>2
  <2>10. QED
    BY <1>1, <2>7, <2>8, <2>9
<1> HIDE DEF A
<1>4. \A j \in 0..n : j \in A
  BY <1>1, <1>2, <1>3, UpTo
<1>5. IF n < i THEN CountTo(q, S, n) = CountTo(r, S, n)
      ELSE CountTo(q, S, n + 1) = CountTo(r, S, n) + one
  <2>1. n \in A
    BY <1>1, <1>4
  <2>2. QED
    BY <2>1 DEF A
<1>6. CountTo(q, S, n + 1) = CountTo(r, S, n) + one
  <2>1. CountTo(q, S, n + 1) = IF q[n + 1] \in S THEN CountTo(q, S, n) + 1 ELSE CountTo(q, S, n)
    <3>1. CountStep(q, S, n)
      BY <1>1, CountedTo
    <3>2. QED
      BY <3>1 DEF CountStep
  <2>2. CountTo(r, S, n) \in Nat
    <3>1. CountStep(r, S, n)
      BY <1>1, CountedTo
    <3>2. QED
      BY <3>1 DEF CountStep
  <2>3. CASE n < i
    <3>1. i = n + 1
      BY <1>1, <2>3
    <3>2. QED
      BY <1>5, <2>1, <2>2, <2>3, <3>1
  <2>4. CASE ~(n < i)
    BY <1>5, <2>4
  <2>5. QED
    BY <2>3, <2>4
<1>7. HowMany(q, S) = CountTo(q, S, n + 1) /\ HowMany(r, S) = CountTo(r, S, n) /\ CountTo(r, S, n) \in Nat
  BY <1>1, HowManyIs DEF n
<1>8. QED
  BY <1>6, <1>7

LEMMA CountedFinite ==
    ASSUME NEW E, NEW seq \in Seq(E), NEW S
    PROVE  IsFiniteSet({i \in DOMAIN seq : seq[i] \in S})
<1> DEFINE T == {i \in DOMAIN seq : seq[i] \in S}
<1>1. DOMAIN seq = 1..Len(seq) /\ Len(seq) \in Nat
  BY LenProperties
<1>2. IsFiniteSet(1..Len(seq))
  BY <1>1, FS_Interval
<1>3. T \in SUBSET (1..Len(seq))
  BY <1>1
<1> HIDE DEF T
<1>4. IsFiniteSet(T)
  BY <1>2, <1>3, FS_Subset
<1>5. QED
  BY <1>4 DEF T

\* What is there is counted, and what is not is not.
LEMMA SomeCounted ==
    ASSUME NEW E, NEW seq \in Seq(E), NEW S
    PROVE  /\ HowMany(seq, S) = 0 <=> \A i \in DOMAIN seq : seq[i] \notin S
           /\ \A T : S \subseteq T => HowMany(seq, S) <= HowMany(seq, T)
<1> DEFINE C(U) == {i \in DOMAIN seq : seq[i] \in U}
<1>1. \A U : IsFiniteSet(C(U))
  BY CountedFinite
<1>2. C(S) = {} <=> \A i \in DOMAIN seq : seq[i] \notin S
  OBVIOUS
<1>3. \A T : S \subseteq T => C(S) \in SUBSET C(T)
  OBVIOUS
<1>4. \A U : HowMany(seq, U) = Cardinality(C(U))
  BY DEF HowMany
<1> HIDE DEF C
<1>5. Cardinality(C(S)) = 0 <=> C(S) = {}
  BY <1>1, FS_EmptySet
<1>6. \A T : S \subseteq T => Cardinality(C(S)) <= Cardinality(C(T))
  BY <1>1, <1>3, FS_Subset
<1>7. QED
  BY <1>2, <1>4, <1>5, <1>6

\* What is first, and the rest.
LEMMA CountsFirst ==
    ASSUME NEW E, NEW q \in Seq(E), q # <<>>, NEW S
    PROVE  HowMany(q, S) = IF q[1] \in S THEN HowMany(Tail(q), S) + 1 ELSE HowMany(Tail(q), S)
<1>1. /\ Tail(q) \in Seq(E) /\ Len(Tail(q)) = Len(q) - 1
      /\ \A j \in 1..Len(Tail(q)) : Tail(q)[j] = q[j + 1]
  BY HeadTailProperties
<1>2. Len(q) \in Nat /\ 1 \in 1..Len(q)
  BY LenProperties, EmptySeq
<1> DEFINE r == Tail(q)
<1> HIDE DEF r
<1>3. \A j \in 1..Len(r) : ~(j < 1)
  BY <1>1, <1>2 DEF r
<1>4. Without(q, 1, r) /\ r \in Seq(E)
  BY <1>1, <1>3 DEF Without, r
<1> DEFINE one == 1
<1>5. one \in 1..Len(q) /\ Without(q, one, r)
  BY <1>2, <1>4
<1> HIDE DEF one
<1>6. HowMany(q, S) = IF q[one] \in S THEN HowMany(r, S) + 1 ELSE HowMany(r, S)
  BY <1>4, <1>5, CountsWithout
<1>7. QED
  BY <1>6 DEF one, r

\* RemoveAt takes out one.
LEMMA RemovedOne ==
    ASSUME NEW E, NEW q \in Seq(E), NEW i \in 1..Len(q)
    PROVE  RemoveAt(q, i) \in Seq(E) /\ Without(q, i, RemoveAt(q, i))
<1> DEFINE a == SubSeq(q, 1, i - 1)
           b == SubSeq(q, i + 1, Len(q))
           r == a \o b
<1>1. Len(q) \in Nat /\ i \in Nat /\ 1 <= i /\ i <= Len(q)
  BY LenProperties
<1>2. /\ a \in Seq(E) /\ Len(a) = i - 1 /\ \A j \in 1..(i - 1) : a[j] = q[j]
  <2>1. i - 1 \in Int /\ \A j \in 1..(i - 1) : j \in 1..Len(q)
    BY <1>1
  <2>2. \A j \in 1..(i - 1) : q[j] \in E
    BY <2>1, LenProperties
  <2>3. a = [j \in 1..(i - 1) |-> q[j]]
    BY <1>1
  <2>4. a \in [1..(i - 1) -> E]
    BY <2>2, <2>3
  <2> HIDE DEF a
  <2>5. i - 1 \in Nat
    BY <1>1
  <2>6. QED
    BY <2>3, <2>4, <2>5, ListOf
<1>3. /\ b \in Seq(E) /\ Len(b) = Len(q) - i /\ \A j \in 1..(Len(q) - i) : b[j] = q[i + j]
  <2>1. \A j \in 1..(Len(q) - i) : i + j \in 1..Len(q)
    BY <1>1
  <2>2. \A j \in 1..(Len(q) - i) : q[i + j] \in E
    BY <2>1, LenProperties
  <2>3. b = [j \in 1..(Len(q) - i) |-> q[i + j]]
    BY <1>1
  <2>4. b \in [1..(Len(q) - i) -> E]
    BY <2>2, <2>3
  <2> HIDE DEF b
  <2>5. Len(q) - i \in Nat
    BY <1>1
  <2>6. QED
    BY <2>3, <2>4, <2>5, ListOf
<1> HIDE DEF a, b
<1>4. /\ r \in Seq(E) /\ Len(r) = Len(a) + Len(b)
      /\ \A j \in 1..(Len(a) + Len(b)) : r[j] = IF j <= Len(a) THEN a[j] ELSE b[j - Len(a)]
  BY <1>2, <1>3, ConcatProperties
<1> HIDE DEF r
<1>5. Len(r) = Len(q) - 1
  BY <1>1, <1>2, <1>3, <1>4
<1>6. ASSUME NEW j \in 1..Len(r)
      PROVE  r[j] = IF j < i THEN q[j] ELSE q[j + 1]
  <2>1. j \in 1..(Len(a) + Len(b)) /\ j \in 1..(Len(q) - 1)
    BY <1>4, <1>5
  <2>2. CASE j < i
    <3>1. j <= Len(a) /\ j \in 1..(i - 1)
      BY <1>1, <1>2, <2>1, <2>2
    <3>2. QED
      BY <1>2, <1>4, <2>1, <2>2, <3>1
  <2>3. CASE ~(j < i)
    <3>1. PICK h : h = j - Len(a)
      OBVIOUS
    <3>2. ~(j <= Len(a)) /\ h \in 1..(Len(q) - i) /\ i + h = j + 1
      BY <1>1, <1>2, <2>1, <2>3, <3>1
    <3>3. r[j] = b[h] /\ b[h] = q[i + h]
      BY <1>3, <1>4, <2>1, <3>1, <3>2
    <3>4. QED
      BY <2>3, <3>2, <3>3
  <2>4. QED
    BY <2>2, <2>3
<1>7. RemoveAt(q, i) = r
  BY DEF RemoveAt, r, a, b
<1>8. QED
  BY <1>4, <1>5, <1>6, <1>7 DEF Without

\* One entry in place of another.
LEMMA CountsReplaced ==
    ASSUME NEW E, NEW q \in Seq(E), NEW i \in 1..Len(q), NEW x \in E, NEW S
    PROVE  /\ [q EXCEPT ![i] = x] \in Seq(E)
           /\ HowMany([q EXCEPT ![i] = x], S) + (IF q[i] \in S THEN 1 ELSE 0)
                = HowMany(q, S) + (IF x \in S THEN 1 ELSE 0)
<1> DEFINE o == [q EXCEPT ![i] = x]
           r == RemoveAt(q, i)
<1>1. o \in Seq(E) /\ Len(o) = Len(q) /\ o[i] = x /\ \A j \in 1..Len(q) : j # i => o[j] = q[j]
  BY ExceptSeq
<1>2. r \in Seq(E) /\ Without(q, i, r)
  BY RemovedOne
<1> HIDE DEF o, r
<1>3. Without(o, i, r)
  <2>1. Len(q) \in Nat /\ Len(r) = Len(q) - 1 /\ i \in 1..Len(q)
    BY <1>2, LenProperties DEF Without
  <2>2. \A j \in 1..Len(r) : r[j] = IF j < i THEN q[j] ELSE q[j + 1]
    BY <1>2 DEF Without
  <2>3. ASSUME NEW j \in 1..Len(r)
        PROVE  r[j] = IF j < i THEN o[j] ELSE o[j + 1]
    <3>1. CASE j < i
      <4>1. j \in 1..Len(q) /\ j # i
        BY <2>1, <3>1
      <4>2. QED
        BY <1>1, <2>2, <3>1, <4>1
    <3>2. CASE ~(j < i)
      <4>1. j + 1 \in 1..Len(q) /\ j + 1 # i
        BY <2>1, <3>2
      <4>2. QED
        BY <1>1, <2>2, <3>2, <4>1
    <3>3. QED
      BY <3>1, <3>2
  <2>4. QED
    BY <1>1, <2>1, <2>3 DEF Without
<1>4. HowMany(q, S) = IF q[i] \in S THEN HowMany(r, S) + 1 ELSE HowMany(r, S)
  BY <1>2, CountsWithout
<1>5. HowMany(o, S) = IF o[i] \in S THEN HowMany(r, S) + 1 ELSE HowMany(r, S)
  BY <1>1, <1>2, <1>3, CountsWithout
<1>6. HowMany(r, S) \in Nat
  BY <1>2, HowManyIs
<1>7. QED
  BY <1>1, <1>4, <1>5, <1>6 DEF o

\* Of the entries that were kept.
LEMMA CountsOfThose ==
    ASSUME NEW E, NEW seq \in Seq(E), NEW T, NEW S
    PROVE  HowMany(Those(seq, T), S) = HowMany(seq, S \cap T)
<1> DEFINE n == Len(seq)
<1>0. ThoseSteps(E, seq, T)
  BY ThoseRun
<1>1. PICK f \in [0..n -> Seq(E \cap T)] :
          /\ f[0] = <<>>
          /\ \A i \in 1..n : f[i] = IF seq[i] \in T THEN Append(f[i - 1], seq[i]) ELSE f[i - 1]
          /\ Those(seq, T) = f[n]
  BY <1>0 DEF ThoseSteps
<1>2. n \in Nat /\ \A i \in 1..n : seq[i] \in E
  BY LenProperties
<1> DEFINE U == S \cap T
           A == {i \in 0..n : HowMany(f[i], S) = CountTo(seq, U, i)}
<1> HIDE DEF n, U
<1>3. 0 \in A
  BY <1>1, <1>2, NoneCounted, CountFrom
<1>4. ASSUME NEW i \in 1..n, i - 1 \in A
      PROVE  i \in A
  <2>1. HowMany(f[i - 1], S) = CountTo(seq, U, i - 1)
    BY <1>4
  <2>2. /\ CountTo(seq, U, i - 1) \in Nat /\ CountTo(seq, U, i) \in Nat
        /\ seq[i] \in U => CountTo(seq, U, i) = CountTo(seq, U, i - 1) + 1
        /\ seq[i] \notin U => CountTo(seq, U, i) = CountTo(seq, U, i - 1)
    BY <1>2, CountedBy
  <2>3. i - 1 \in 0..n /\ i \in 0..n
    BY <1>2
  <2>4. f[i - 1] \in Seq(E \cap T)
    BY <1>1, <2>3
  <2>5. CASE seq[i] \in T
    <3>1. f[i] = Append(f[i - 1], seq[i]) /\ seq[i] \in E \cap T
      BY <1>1, <1>2, <2>5
    <3>2. HowMany(Append(f[i - 1], seq[i]), S)
            = IF seq[i] \in S THEN HowMany(f[i - 1], S) + 1 ELSE HowMany(f[i - 1], S)
      BY <2>4, <3>1, CountsAppended
    <3>3. seq[i] \in U <=> seq[i] \in S
      BY <2>5 DEF U
    <3>4. HowMany(f[i], S) = CountTo(seq, U, i)
      BY <2>1, <2>2, <3>1, <3>2, <3>3
    <3>5. QED
      BY <2>3, <3>4
  <2>6. CASE seq[i] \notin T
    <3>1. f[i] = f[i - 1] /\ seq[i] \notin U
      BY <1>1, <2>6 DEF U
    <3>2. HowMany(f[i], S) = CountTo(seq, U, i)
      BY <2>1, <2>2, <3>1
    <3>3. QED
      BY <2>3, <3>2
  <2>7. QED
    BY <2>5, <2>6
<1> HIDE DEF A
<1>5. \A i \in 0..n : i \in A
  BY <1>2, <1>3, <1>4, UpTo
<1>6. HowMany(f[n], S) = CountTo(seq, U, n)
  <2>1. n \in A
    BY <1>2, <1>5
  <2>2. QED
    BY <2>1 DEF A
<1>7. HowMany(seq, U) = CountTo(seq, U, n)
  BY HowManyIs DEF n
<1>8. QED
  BY <1>1, <1>6, <1>7 DEF U

\* The passages of a list of entries are counted as the entries are.
LEMMA CountsOfIds ==
    ASSUME NEW E, NEW q \in Seq(E), NEW p
    PROVE  HowMany(Ids(q), {p}) = HowMany(q, {e \in E : e.p = p})
<1> DEFINE T == {e \in E : e.p = p}
<1>1. DOMAIN q = 1..Len(q) /\ \A i \in DOMAIN q : q[i] \in E
  BY LenProperties
<1>2. DOMAIN Ids(q) = DOMAIN q /\ \A i \in DOMAIN q : Ids(q)[i] = q[i].p
  BY DEF Ids
<1>3. {i \in DOMAIN Ids(q) : Ids(q)[i] \in {p}} = {i \in DOMAIN q : q[i] \in T}
  BY <1>1, <1>2
<1>4. QED
  BY <1>3 DEF HowMany

LEMMA IdsRestored ==
    ASSUME NEW E, NEW ids \in Seq(E)
    PROVE  Ids(Restored(ids)) = ids
<1>1. ids = [i \in DOMAIN ids |-> ids[i]]
  BY LenProperties
<1>2. Ids(Restored(ids)) = [i \in DOMAIN ids |-> ids[i]]
  BY DEF Ids, Restored
<1>3. QED
  BY <1>1, <1>2
-----------------------------------------------------------------------------
(* What the Director knows of a passage, and what may become of it.        *)

\* A passage is known to have been heard: whatever marks are closed, its keys
\* stay as they are.
Known(d, p) == \A k \in KeysOf[p] : Base(d, k) = Recent

\* Nothing known is forgotten.
Wiser(s, t) ==
    /\ t.d.built = s.d.built
    /\ \A q \in Passages : Known(s.d, q) => Known(t.d, q)
    /\ s.d.windows \subseteq t.d.windows

SameRest(s, t) == t.missed = s.missed /\ t.forgot = s.forgot /\ t.heard = s.heard

LEMMA WiserYet ==
    ASSUME NEW s, NEW t, NEW u, Wiser(s, t), Wiser(t, u)
    PROVE  Wiser(s, u)
BY DEF Wiser

LEMMA WithFields ==
    ASSUME NEW s \in Sessions, NEW d, NEW noted, NEW sights
    PROVE  /\ With(s, d, noted, sights).d = d /\ With(s, d, noted, sights).notes = noted
           /\ SameRest(s, With(s, d, noted, sights))
BY DEF With, Sessions, SameRest

\* To mark a passage as coming.
Marking(s, t, p) ==
    /\ Wiser(s, t) /\ SameRest(s, t)
    /\ s.d.built => \A q \in Passages : t.notes[q] = IF q = p THEN s.notes[q] + 1 ELSE s.notes[q]

LEMMA MarkDoes ==
    ASSUME NEW told, NEW played, NEW s \in Honest(told, played), NEW p \in Passages
    PROVE  Marking(s, Mark(s, p), p)
<1>1. CASE ~s.d.built
  BY <1>1 DEF Mark, Marking, Wiser, SameRest
<1>2. CASE s.d.built
  <2> DEFINE e == NoteQueued(s.d, p)
             more == [s.notes EXCEPT ![p] = @ + 1]
  <2>1. Consistent(s.d) /\ s.d \in Directors /\ s.notes \in [Passages -> Nat] /\ s \in Sessions
    BY HonestFacts
  <2>2. Mark(s, p) = With(s, e, more, s.unseen)
    BY <1>2, <2>1 DEF Mark, Sessions, With
  <2>3. \A k \in Keys : Base(e, k) = Base(s.d, k)
    BY <2>1, BaseWhenQueued
  <2>4. e.built = s.d.built /\ e.windows = s.d.windows
    BY <2>1, QueuedFields
  <2>5. \A q \in Passages : more[q] = IF q = p THEN s.notes[q] + 1 ELSE s.notes[q]
    BY <2>1
  <2> HIDE DEF e, more
  <2>6. \A q \in Passages : Known(s.d, q) => Known(e, q)
    BY <2>3, KeysAreKeys DEF Known
  <2>7. PICK t : t = Mark(s, p)
    OBVIOUS
  <2>8. t.d = e /\ t.notes = more /\ SameRest(s, t)
    BY <2>1, <2>2, <2>7, WithFields
  <2>9. QED
    BY <2>4, <2>5, <2>6, <2>7, <2>8 DEF Marking, Wiser
<1>3. QED
  BY <1>1, <1>2

\* To close the oldest mark of a passage, if it has one.
Closing(s, t, p, keep) ==
    /\ Wiser(s, t) /\ SameRest(s, t)
    /\ \A q \in Passages : t.notes[q] = IF q = p /\ s.notes[q] # 0 THEN s.notes[q] - 1 ELSE s.notes[q]
    /\ keep /\ s.notes[p] # 0 => Known(t.d, p)

LEMMA ResolveDoes ==
    ASSUME NEW told, NEW played, NEW s \in Honest(told, played), NEW p \in Passages,
           NEW keep \in BOOLEAN
    PROVE  Closing(s, ResolveMark(s, p, keep), p, keep)
<1>1. CASE s.notes[p] = 0
  BY <1>1 DEF ResolveMark, Closing, Wiser, SameRest
<1>2. CASE s.notes[p] # 0
  <2> DEFINE e == Resolve(s.d, p, keep)
             less == [s.notes EXCEPT ![p] = @ - 1]
             seen == [s.unseen EXCEPT ![p] = IF s.notes[p] = 1 THEN "seen" ELSE @]
  <2>1. /\ Consistent(s.d) /\ s.d \in Directors /\ s.notes \in [Passages -> Nat]
        /\ Matched(s.notes, s.d) /\ s \in Sessions
    BY HonestFacts
  <2>2. ResolveMark(s, p, keep) = With(s, e, less, seen)
    BY <1>2, <2>1 DEF ResolveMark, Sessions, With
  <2>3. s.notes[p] > 0
    BY <1>2, <2>1
  <2>4. Marked(s.d, p)
    BY <2>1, <2>3, ResolvedMatch
  <2>5. \A k \in Keys : Base(e, k) = IF k \in KeysOf[p] /\ keep THEN Recent ELSE Base(s.d, k)
    BY <2>1, <2>4, BaseWhenResolved
  <2>6. e.built = s.d.built /\ e.windows = s.d.windows
    BY <2>1, <2>4, ResolvedFields
  <2>7. \A q \in Passages : less[q] = IF q = p /\ s.notes[q] # 0 THEN s.notes[q] - 1 ELSE s.notes[q]
    BY <1>2, <2>1
  <2> HIDE DEF e, less, seen
  <2>8. /\ \A q \in Passages : Known(s.d, q) => Known(e, q)
        /\ keep => Known(e, p)
    BY <2>5, KeysAreKeys DEF Known
  <2>9. PICK t : t = ResolveMark(s, p, keep)
    OBVIOUS
  <2>10. t.d = e /\ t.notes = less /\ SameRest(s, t)
    BY <2>1, <2>2, <2>9, WithFields
  <2>11. QED
    BY <2>6, <2>7, <2>8, <2>9, <2>10 DEF Closing, Wiser
<1>3. QED
  BY <1>1, <1>2

\* To make up for what was heard or declined meanwhile.
Replaying(s, t, o) ==
    /\ Wiser(s, t) /\ SameRest(s, t) /\ t.notes = s.notes
    /\ IF o.what = "played" THEN Known(t.d, o.p) ELSE o.p \in t.d.windows

LEMMA ReplayDoes ==
    ASSUME NEW told, NEW played, NEW s \in Honest(told, played), NEW o \in Verdict
    PROVE  Replaying(s, Replay(s, o), o)
<1> DEFINE p == o.p
           e == Resolve(NoteQueued(s.d, p), p, TRUE)
           r == NoteRejection(s.d, p)
<1>1. /\ p \in Passages /\ Consistent(s.d) /\ s.d \in Directors /\ s \in Sessions
  BY HonestFacts DEF Verdict
<1> HIDE DEF p
<1>2. CASE o.what = "played"
  <2>1. /\ e.built = s.d.built
        /\ \A k \in Keys : Base(e, k) = IF k \in KeysOf[p] THEN Recent ELSE Base(s.d, k)
    BY <1>1, ReplayedFields
  <2>2. e.windows = s.d.windows
    BY <1>1 DEF NoteQueued, Resolve, Directors
  <2>3. Replay(s, o) = With(s, e, s.notes, s.unseen)
    BY <1>1, <1>2 DEF Replay, Sessions, With, e, p
  <2> HIDE DEF e
  <2>4. Known(e, p) /\ \A q \in Passages : Known(s.d, q) => Known(e, q)
    BY <1>1, <2>1, KeysAreKeys DEF Known
  <2>5. PICK t : t = Replay(s, o)
    OBVIOUS
  <2>6. t.d = e /\ t.notes = s.notes /\ SameRest(s, t)
    BY <1>1, <2>3, <2>5, WithFields
  <2>7. QED
    BY <1>2, <2>1, <2>2, <2>4, <2>5, <2>6 DEF Replaying, Wiser, p
<1>3. CASE o.what # "played"
  <2>1. r.open = s.d.open /\ r.stamp = s.d.stamp /\ r.before = s.d.before /\ r.built = s.d.built
        /\ r.windows = s.d.windows \cup {p}
    BY <1>1 DEF NoteRejection, Directors
  <2>2. Replay(s, o) = With(s, r, s.notes, s.unseen)
    BY <1>1, <1>3 DEF Replay, Sessions, r, p, With
  <2> HIDE DEF r
  <2>3. \A q \in Passages : Known(s.d, q) => Known(r, q)
    BY <2>1 DEF Known, Base
  <2>4. PICK t : t = Replay(s, o)
    OBVIOUS
  <2>5. t.d = r /\ t.notes = s.notes /\ SameRest(s, t)
    BY <1>1, <2>2, <2>4, WithFields
  <2>6. QED
    BY <1>3, <2>1, <2>3, <2>4, <2>5 DEF Replaying, Wiser, p
<1>4. QED
  BY <1>2, <1>3

\* To keep what was heard while a build runs.
Keeping(s, t, o, keeping) ==
    /\ Wiser(s, t) /\ t.notes = s.notes /\ t.missed = s.missed
    /\ s.forgot => t.forgot
    /\ ~t.forgot => ToSet(s.heard) \subseteq ToSet(t.heard) /\ (keeping => o \in ToSet(t.heard))

LEMMA KeepHeardDoes ==
    ASSUME NEW told, NEW played, NEW s \in Honest(told, played), NEW o \in Verdict,
           NEW keeping \in BOOLEAN
    PROVE  Keeping(s, KeepHeard(s, o, keeping), o, keeping)
<1>1. CASE ~keeping
  BY <1>1 DEF KeepHeard, Keeping, Wiser
<1>2. CASE keeping
  <2> DEFINE room == IF Len(s.heard) < HeardMax THEN s.heard ELSE Tail(s.heard)
             kept == Append(room, o)
             forgot == s.forgot \/ Len(s.heard) >= HeardMax
             t == KeepHeard(s, o, keeping)
  <2>1. /\ s \in Sessions /\ s.heard \in Seq(Verdict) /\ Len(s.heard) <= HeardMax /\ s.forgot \in BOOLEAN
    BY HonestFacts
  <2>2. HeardMax \in Nat /\ HeardMax > 0 /\ Len(s.heard) \in Nat
    BY <2>1, BoundsAssumption, LenProperties
  <2>3. t.d = s.d /\ t.notes = s.notes /\ t.missed = s.missed /\ t.heard = kept /\ t.forgot = forgot
    BY <1>2, <2>1 DEF KeepHeard, Sessions
  <2>4. Len(s.heard) < HeardMax => ToSet(kept) = ToSet(s.heard) \cup {o}
    BY <2>1, TailsAndAppends
  <2>5. ~(Len(s.heard) < HeardMax) => forgot
    BY <2>2
  <2>6. s.forgot => forgot
    OBVIOUS
  <2> HIDE DEF kept, forgot, t
  <2>7. ~t.forgot => ToSet(t.heard) = ToSet(s.heard) \cup {o}
    BY <2>3, <2>4, <2>5
  <2>8. Wiser(s, t)
    BY <2>3 DEF Wiser
  <2>9. QED
    BY <2>3, <2>6, <2>7, <2>8 DEF Keeping, t
<1>3. QED
  BY <1>1, <1>2

\* To be told once of a passage: what becomes of its marks, of what is known,
\* and of what is kept.
Telling(s, t, o, keeping) ==
    /\ Wiser(s, t) /\ t.missed = s.missed
    /\ s.forgot => t.forgot
    /\ ~t.forgot => ToSet(s.heard) \subseteq ToSet(t.heard)
                    /\ (keeping /\ o.what # "queued" => o \in ToSet(t.heard))
    /\ \A q \in Passages \ {o.p} : t.notes[q] = s.notes[q]
    /\ s.d.built =>
          /\ o.what = "queued" => t.notes[o.p] = s.notes[o.p] + 1
          /\ o.what # "queued" => t.notes[o.p] = IF s.notes[o.p] = 0 THEN 0 ELSE s.notes[o.p] - 1
          /\ o.what = "played" /\ s.notes[o.p] # 0 => Known(t.d, o.p)
          /\ o.what = "rejected" => o.p \in t.d.windows

LEMMA ToldDoes ==
    ASSUME NEW told, NEW played, NEW s \in Honest(told, played), NEW o \in Outcomes,
           o.what # "queued" => o \in told, NEW keeping \in BOOLEAN
    PROVE  Telling(s, Told(s, o, keeping), o, keeping)
<1>1. o.p \in Passages /\ o.what \in {"queued", "played", "rejected"}
      /\ (o.what # "queued" => o \in Verdict)
  BY DEF Outcomes, Verdict
<1>2. CASE o.what = "queued"
  <2>1. PICK t : t = Mark(s, o.p)
    OBVIOUS
  <2>2. Marking(s, t, o.p)
    BY <1>1, <2>1, MarkDoes
  <2>3. Told(s, o, keeping) = t
    BY <1>2, <2>1 DEF Told
  <2>4. \A q \in Passages \ {o.p} : t.notes[q] = s.notes[q]
    <3>1. CASE s.d.built
      BY <2>2, <3>1 DEF Marking
    <3>2. CASE ~s.d.built
      BY <2>1, <3>2 DEF Mark
    <3>3. QED
      BY <3>1, <3>2
  <2>5. QED
    BY <1>1, <1>2, <2>2, <2>3, <2>4 DEF Telling, Marking, SameRest
<1>3. CASE o.what = "played"
  <2>1. \A k \in KeysOf[o.p] : HeardOn(k, told)
    BY <1>3 DEF HeardOn
  <2> DEFINE yes == TRUE
  <2>2. yes \in BOOLEAN /\ (yes => \A k \in KeysOf[o.p] \ s.settled : HeardOn(k, told))
    BY <2>1
  <2> HIDE DEF yes
  <2>3. PICK u : u = ResolveMark(s, o.p, yes)
    OBVIOUS
  <2>4. u \in Honest(told, played) /\ Closing(s, u, o.p, yes)
    BY <1>1, <2>2, <2>3, ResolveKeeps, ResolveDoes
  <2>5. PICK t : t = KeepHeard(u, o, keeping)
    OBVIOUS
  <2>6. Keeping(u, t, o, keeping)
    BY <1>1, <1>3, <2>4, <2>5, KeepHeardDoes
  <2>7. Told(s, o, keeping) = t
    BY <1>3, <2>3, <2>5 DEF Told, yes
  <2>8. yes
    BY DEF yes
  <2>9. Wiser(s, t)
    BY <2>4, <2>6, WiserYet DEF Closing, Keeping
  <2>10. s.notes[o.p] # 0 => Known(t.d, o.p)
    BY <1>1, <2>4, <2>6, <2>8 DEF Closing, Keeping, Wiser
  <2>11. QED
    BY <1>1, <1>3, <2>4, <2>6, <2>7, <2>9, <2>10 DEF Telling, Closing, Keeping, SameRest
<1>4. CASE o.what = "rejected"
  <2> DEFINE no == FALSE
  <2>1. no \in BOOLEAN
    OBVIOUS
  <2> HIDE DEF no
  <2>2. PICK u : u = ResolveMark(s, o.p, no)
    OBVIOUS
  <2>3. u \in Honest(told, played)
    BY <1>1, <2>2, UnheardKeeps DEF no
  <2>4. Closing(s, u, o.p, no)
    BY <1>1, <2>1, <2>2, ResolveDoes
  <2>5. PICK v : v = IF s.d.built THEN Replay(u, o) ELSE u
    OBVIOUS
  <2>6. u.d.built = s.d.built
    BY <2>4 DEF Closing, Wiser
  <2>7. v \in Honest(told, played)
    BY <1>1, <1>4, <2>3, <2>5, <2>6, ReplayKeeps
  <2>8. /\ Wiser(u, v) /\ SameRest(u, v) /\ v.notes = u.notes
        /\ s.d.built => o.p \in v.d.windows
    <3>1. CASE s.d.built
      <4>1. Replaying(u, v, o)
        BY <1>1, <1>4, <2>3, <2>5, <3>1, ReplayDoes
      <4>2. QED
        BY <1>4, <4>1 DEF Replaying
    <3>2. CASE ~s.d.built
      BY <2>5, <3>2 DEF Wiser, SameRest
    <3>3. QED
      BY <3>1, <3>2
  <2>9. PICK t : t = KeepHeard(v, o, keeping)
    OBVIOUS
  <2>10. Keeping(v, t, o, keeping)
    BY <1>1, <1>4, <2>7, <2>9, KeepHeardDoes
  <2>11. Told(s, o, keeping) = t
    <3>1. v = IF s.d.built THEN [u EXCEPT !.d = NoteRejection(@, o.p)] ELSE u
      BY <1>4, <2>5 DEF Replay
    <3>2. QED
      BY <1>4, <2>2, <2>9, <3>1 DEF Told, no
  <2>12. Wiser(s, t)
    BY <2>4, <2>8, <2>10, WiserYet DEF Closing, Keeping
  <2>13. s.d.built => o.p \in t.d.windows
    BY <2>8, <2>10 DEF Keeping, Wiser
  <2>14. QED
    BY <1>1, <1>4, <2>4, <2>8, <2>10, <2>11, <2>12, <2>13 DEF Telling, Closing, Keeping, SameRest
<1>5. QED
  BY <1>1, <1>2, <1>3, <1>4
-----------------------------------------------------------------------------
(* What a list of them does.                                               *)

\* To mark each of a list.
LEMMA MarksDo ==
    ASSUME NEW told, NEW played, NEW s \in Honest(told, played), s.d.built,
           NEW seq \in Seq(Passages), NEW t, t = InTurn(Mark, s, seq)
    PROVE  /\ Wiser(s, t) /\ SameRest(s, t)
           /\ \A q \in Passages : t.notes[q] = s.notes[q] + HowMany(seq, {q})
<1> DEFINE n == Len(seq)
<1>0. MarksSteps(told, played, s, seq)
  BY MarksRun
<1>1. PICK f \in [0..n -> {u \in Honest(told, played) : u.d.built = s.d.built}] :
          /\ f[0] = s
          /\ \A i \in 1..n : f[i] = Mark(f[i - 1], seq[i])
          /\ InTurn(Mark, s, seq) = f[n]
  BY <1>0 DEF MarksSteps
<1>2. n \in Nat /\ (\A i \in 1..n : seq[i] \in Passages) /\ s.notes \in [Passages -> Nat]
  BY LenProperties, HonestFacts
<1> HIDE DEF n
<1> DEFINE A == {i \in 0..n : /\ Wiser(s, f[i]) /\ SameRest(s, f[i])
                              /\ \A q \in Passages : f[i].notes[q] = s.notes[q] + CountTo(seq, {q}, i)}
<1>3. 0 \in A
  <2>1. \A q \in Passages : CountTo(seq, {q}, 0) = 0 /\ s.notes[q] \in Nat
    BY <1>2, CountFrom
  <2>2. f[0] = s /\ 0 \in 0..n
    BY <1>1, <1>2
  <2>3. Wiser(s, s) /\ SameRest(s, s)
    BY DEF Wiser, SameRest
  <2>4. \A q \in Passages : s.notes[q] = s.notes[q] + CountTo(seq, {q}, 0)
    BY <2>1
  <2>5. QED
    BY <2>2, <2>3, <2>4
<1>4. ASSUME NEW i \in 1..n, i - 1 \in A
      PROVE  i \in A
  <2>1. i - 1 \in 0..n /\ i \in 0..n
    BY <1>2
  <2>2. PICK u : u = f[i - 1]
    OBVIOUS
  <2>3. PICK x : x = seq[i]
    OBVIOUS
  <2>4. u \in Honest(told, played) /\ u.d.built /\ x \in Passages
    BY <1>1, <1>2, <2>1, <2>2, <2>3
  <2>5. Marking(u, Mark(u, x), x)
    BY <2>4, MarkDoes
  <2>6. Marking(u, f[i], x)
    BY <1>1, <2>2, <2>3, <2>5
  <2>7. Wiser(s, u) /\ SameRest(s, u) /\ \A q \in Passages : u.notes[q] = s.notes[q] + CountTo(seq, {q}, i - 1)
    BY <1>4, <2>2
  <2>8. Wiser(s, f[i]) /\ SameRest(s, f[i])
    BY <2>6, <2>7, WiserYet DEF Marking, SameRest
  <2> HIDE DEF A
  <2>9. ASSUME NEW q \in Passages
        PROVE  f[i].notes[q] = s.notes[q] + CountTo(seq, {q}, i)
    <3>1. /\ CountTo(seq, {q}, i - 1) \in Nat /\ CountTo(seq, {q}, i) \in Nat
          /\ seq[i] \in {q} => CountTo(seq, {q}, i) = CountTo(seq, {q}, i - 1) + 1
          /\ seq[i] \notin {q} => CountTo(seq, {q}, i) = CountTo(seq, {q}, i - 1)
      BY <1>2, CountedBy
    <3>2. f[i].notes[q] = IF q = x THEN u.notes[q] + 1 ELSE u.notes[q]
      BY <2>4, <2>6 DEF Marking
    <3>3. u.notes[q] = s.notes[q] + CountTo(seq, {q}, i - 1) /\ s.notes[q] \in Nat
      BY <1>2, <2>7
    <3>4. CASE q = x
      <4>1. CountTo(seq, {q}, i) = CountTo(seq, {q}, i - 1) + 1
        BY <2>3, <3>1, <3>4
      <4>2. f[i].notes[q] = u.notes[q] + 1
        BY <3>2, <3>4
      <4>3. PICK a, b, c \in Nat :
                 /\ a = CountTo(seq, {q}, i - 1) /\ b = s.notes[q]
                 /\ c = CountTo(seq, {q}, i)
        BY <3>1, <3>3
      <4>4. c = a + 1 /\ u.notes[q] = b + a
        BY <3>3, <4>1, <4>3
      <4>5. f[i].notes[q] = b + a + 1
        BY <4>2, <4>4
      <4>6. QED
        BY <4>3, <4>4, <4>5
    <3>5. CASE q # x
      <4>1. CountTo(seq, {q}, i) = CountTo(seq, {q}, i - 1)
        BY <2>3, <3>1, <3>5
      <4>2. QED
        BY <3>1, <3>2, <3>3, <3>5, <4>1
    <3>6. QED
      BY <3>4, <3>5
  <2>10. QED
    BY <2>1, <2>8, <2>9 DEF A
<1> HIDE DEF A
<1>5. \A i \in 0..n : i \in A
  BY <1>2, <1>3, <1>4, UpTo
<1>6. /\ Wiser(s, f[n]) /\ SameRest(s, f[n])
      /\ \A q \in Passages : f[n].notes[q] = s.notes[q] + CountTo(seq, {q}, n)
  <2>1. n \in A
    BY <1>2, <1>5
  <2>2. QED
    BY <2>1 DEF A
<1>7. \A q \in Passages : HowMany(seq, {q}) = CountTo(seq, {q}, n)
  BY HowManyIs DEF n
<1>8. QED
  BY <1>1, <1>6, <1>7

\* To make up for each of a list.
LEMMA ReplaysDo ==
    ASSUME NEW told, NEW played, NEW s \in Honest(told, played), s.d.built,
           NEW seq \in Seq(Verdict), ToSet(seq) \subseteq told, NEW t, t = InTurn(Replay, s, seq)
    PROVE  /\ Wiser(s, t) /\ SameRest(s, t) /\ t.notes = s.notes
           /\ \A o \in ToSet(seq) : IF o.what = "played" THEN Known(t.d, o.p) ELSE o.p \in t.d.windows
<1> DEFINE n == Len(seq)
           Knows(u, o) == IF o.what = "played" THEN Known(u.d, o.p) ELSE o.p \in u.d.windows
<1>0. ReplaysSteps(told, played, s, seq)
  BY ReplaysRun
<1>1. PICK f \in [0..n -> {u \in Honest(told, played) : u.d.built}] :
          /\ f[0] = s
          /\ \A i \in 1..n : f[i] = Replay(f[i - 1], seq[i])
          /\ InTurn(Replay, s, seq) = f[n]
  BY <1>0 DEF ReplaysSteps
<1>2. n \in Nat /\ DOMAIN seq = 1..n /\ \A i \in 1..n : seq[i] \in Verdict
  BY LenProperties
<1> HIDE DEF n
<1> DEFINE A == {i \in 0..n : /\ Wiser(s, f[i]) /\ SameRest(s, f[i]) /\ f[i].notes = s.notes
                              /\ \A j \in 1..i : Knows(f[i], seq[j])}
<1>3. 0 \in A
  BY <1>1, <1>2 DEF Wiser, SameRest
<1>4. ASSUME NEW i \in 1..n, i - 1 \in A
      PROVE  i \in A
  <2>1. i - 1 \in 0..n /\ i \in 0..n /\ \A j \in 1..i : j \in 1..n /\ (j \in 1..(i - 1) \/ j = i)
    BY <1>2
  <2>2. PICK u : u = f[i - 1]
    OBVIOUS
  <2>3. PICK x : x = seq[i]
    OBVIOUS
  <2>4. u \in Honest(told, played) /\ u.d.built /\ x \in Verdict
    BY <1>1, <1>2, <2>1, <2>2, <2>3
  <2>5. Replaying(u, Replay(u, x), x)
    BY <2>4, ReplayDoes
  <2>6. Replaying(u, f[i], x)
    BY <1>1, <2>2, <2>3, <2>5
  <2>7. Wiser(s, u) /\ SameRest(s, u) /\ u.notes = s.notes /\ \A j \in 1..(i - 1) : Knows(u, seq[j])
    BY <1>4, <2>2
  <2>8. Wiser(s, f[i]) /\ SameRest(s, f[i]) /\ f[i].notes = s.notes
    BY <2>6, <2>7, WiserYet DEF Replaying, SameRest
  <2>9. ASSUME NEW j \in 1..i
        PROVE  Knows(f[i], seq[j])
    <3>1. CASE j = i
      BY <2>3, <2>6, <3>1 DEF Replaying
    <3>2. CASE j \in 1..(i - 1)
      <4>1. seq[j].p \in Passages
        BY <1>2, <2>1 DEF Verdict
      <4>2. QED
        BY <2>6, <2>7, <3>2, <4>1 DEF Replaying, Wiser
    <3>3. QED
      BY <2>1, <3>1, <3>2
  <2>10. QED
    BY <2>1, <2>8, <2>9
<1> HIDE DEF A
<1>5. \A i \in 0..n : i \in A
  BY <1>2, <1>3, <1>4, UpTo
<1>6. /\ Wiser(s, f[n]) /\ SameRest(s, f[n]) /\ f[n].notes = s.notes
      /\ \A j \in 1..n : Knows(f[n], seq[j])
  <2>1. n \in A
    BY <1>2, <1>5
  <2>2. QED
    BY <2>1 DEF A
<1>7. \A o \in ToSet(seq) : Knows(f[n], o)
  BY <1>2, <1>6 DEF ToSet
<1>8. QED
  BY <1>1, <1>6, <1>7

\* To take back each of a list, as often as it can be.
LEMMA DropsDo ==
    ASSUME NEW told, NEW played, NEW s \in Honest(told, played), NEW seq \in Seq(Passages),
           NEW t, t = InTurn(NeverPlayed, s, seq)
    PROVE  /\ Wiser(s, t) /\ SameRest(s, t)
           /\ \A q \in Passages : s.notes[q] <= t.notes[q] + HowMany(seq, {q})
<1> DEFINE n == Len(seq)
<1>0. DropsSteps(told, played, s, seq)
  BY DropsRun
<1>1. PICK f \in [0..n -> {u \in Honest(told, played) : u.settled = s.settled}] :
          /\ f[0] = s
          /\ \A i \in 1..n : f[i] = NeverPlayed(f[i - 1], seq[i])
          /\ InTurn(NeverPlayed, s, seq) = f[n]
  BY <1>0 DEF DropsSteps
<1>2. n \in Nat /\ (\A i \in 1..n : seq[i] \in Passages) /\ s.notes \in [Passages -> Nat]
  BY LenProperties, HonestFacts
<1> HIDE DEF n
<1> DEFINE A == {i \in 0..n : /\ Wiser(s, f[i]) /\ SameRest(s, f[i])
                              /\ \A q \in Passages : s.notes[q] <= f[i].notes[q] + CountTo(seq, {q}, i)}
<1>3. 0 \in A
  <2>1. \A q \in Passages : CountTo(seq, {q}, 0) = 0 /\ s.notes[q] \in Nat
    BY <1>2, CountFrom
  <2>2. f[0] = s /\ 0 \in 0..n
    BY <1>1, <1>2
  <2>3. Wiser(s, s) /\ SameRest(s, s)
    BY DEF Wiser, SameRest
  <2>4. \A q \in Passages : s.notes[q] <= s.notes[q] + CountTo(seq, {q}, 0)
    BY <2>1
  <2>5. QED
    BY <2>2, <2>3, <2>4
<1>4. ASSUME NEW i \in 1..n, i - 1 \in A
      PROVE  i \in A
  <2>1. i - 1 \in 0..n /\ i \in 0..n
    BY <1>2
  <2>2. PICK u : u = f[i - 1]
    OBVIOUS
  <2>3. PICK x : x = seq[i]
    OBVIOUS
  <2>4. u \in Honest(told, played) /\ x \in Passages
    BY <1>1, <1>2, <2>1, <2>2, <2>3
  <2>4a. u.notes \in [Passages -> Nat]
    BY <2>4, HonestFacts
  <2> DEFINE no == FALSE
  <2>5. Closing(u, ResolveMark(u, x, no), x, no)
    <3>1. no \in BOOLEAN
      OBVIOUS
    <3> HIDE DEF no
    <3>2. QED
      BY <2>4, <3>1, ResolveDoes
  <2>6. Closing(u, f[i], x, no)
    BY <1>1, <2>2, <2>3, <2>5 DEF NeverPlayed
  <2>7. Wiser(s, u) /\ SameRest(s, u) /\ \A q \in Passages : s.notes[q] <= u.notes[q] + CountTo(seq, {q}, i - 1)
    BY <1>4, <2>2
  <2>8. Wiser(s, f[i]) /\ SameRest(s, f[i])
    BY <2>6, <2>7, WiserYet DEF Closing, SameRest
  <2>9. ASSUME NEW q \in Passages
        PROVE  s.notes[q] <= f[i].notes[q] + CountTo(seq, {q}, i)
    <3>1. /\ CountTo(seq, {q}, i - 1) \in Nat /\ CountTo(seq, {q}, i) \in Nat
          /\ seq[i] \in {q} => CountTo(seq, {q}, i) = CountTo(seq, {q}, i - 1) + 1
          /\ seq[i] \notin {q} => CountTo(seq, {q}, i) = CountTo(seq, {q}, i - 1)
      BY <1>2, CountedBy
    <3>2. f[i].notes[q] = IF q = x /\ u.notes[q] # 0 THEN u.notes[q] - 1 ELSE u.notes[q]
      BY <2>6 DEF Closing
    <3>3. /\ s.notes[q] <= u.notes[q] + CountTo(seq, {q}, i - 1)
          /\ s.notes[q] \in Nat /\ u.notes[q] \in Nat
      BY <1>2, <2>4a, <2>7
    <3>4. CASE q = x
      <4>1. CountTo(seq, {q}, i) = CountTo(seq, {q}, i - 1) + 1
        BY <2>3, <3>1, <3>4
      <4>2. QED
        BY <3>1, <3>2, <3>3, <3>4, <4>1
    <3>5. CASE q # x
      <4>1. CountTo(seq, {q}, i) = CountTo(seq, {q}, i - 1)
        BY <2>3, <3>1, <3>5
      <4>2. QED
        BY <3>1, <3>2, <3>3, <3>5, <4>1
    <3>6. QED
      BY <3>4, <3>5
  <2>10. QED
    BY <2>1, <2>8, <2>9
<1> HIDE DEF A
<1>5. \A i \in 0..n : i \in A
  BY <1>2, <1>3, <1>4, UpTo
<1>6. /\ Wiser(s, f[n]) /\ SameRest(s, f[n])
      /\ \A q \in Passages : s.notes[q] <= f[n].notes[q] + CountTo(seq, {q}, n)
  <2>1. n \in A
    BY <1>2, <1>5
  <2>2. QED
    BY <2>1 DEF A
<1>7. \A q \in Passages : HowMany(seq, {q}) = CountTo(seq, {q}, n)
  BY HowManyIs DEF n
<1>8. QED
  BY <1>1, <1>6, <1>7

\* What the grace settles: a mark is only closed of what is known then.
Spent(s, t) ==
    /\ Wiser(s, t) /\ SameRest(s, t)
    /\ \A q \in Passages : t.notes[q] = s.notes[q] \/ Known(t.d, q)

LEMMA SpentYet ==
    ASSUME NEW s, NEW t, NEW u, Spent(s, t), Spent(t, u)
    PROVE  Spent(s, u)
<1>1. Wiser(s, u) /\ SameRest(s, u)
  BY WiserYet DEF Spent, SameRest
<1>2. QED
  BY <1>1 DEF Spent, Wiser

LEMMA SettledDoes ==
    ASSUME NEW told, NEW played, NEW s \in Honest(told, played), NEW p \in Passages
    PROVE  Spent(s, SettledAsPlayed(s, p))
<1>0. SettledSteps(told, played, s, p)
  BY SettledRun
<1>1. PICK f \in [0..s.notes[p] -> {u \in Honest(told, played) : KeysOf[p] \subseteq u.settled}] :
          /\ f[0] = Settling(s, s.settled \cup KeysOf[p])
          /\ \A i \in 1..s.notes[p] : f[i] = ResolveMark(f[i - 1], p, TRUE)
          /\ SettledAsPlayed(s, p) = f[s.notes[p]]
  BY <1>0 DEF SettledSteps
<1>2. PICK n \in Nat : n = s.notes[p]
  BY HonestFacts
<1>3. s \in Sessions
  BY HonestFacts
<1> DEFINE A == {i \in 0..n : Spent(s, f[i])}
<1>4. 0 \in A
  <2>1. PICK u : u = f[0]
    OBVIOUS
  <2>2. u.d = s.d /\ u.notes = s.notes /\ SameRest(s, u)
    BY <1>1, <1>3, <2>1 DEF Settling, Sessions, SameRest
  <2>3. QED
    BY <1>2, <2>1, <2>2 DEF Spent, Wiser
<1>5. ASSUME NEW i \in 1..n, i - 1 \in A
      PROVE  i \in A
  <2>1. i - 1 \in 0..n /\ i \in 0..n
    BY <1>2
  <2>2. PICK u : u = f[i - 1]
    OBVIOUS
  <2>3. u \in Honest(told, played)
    BY <1>1, <1>2, <2>1, <2>2
  <2> DEFINE yes == TRUE
  <2>4. Closing(u, ResolveMark(u, p, yes), p, yes)
    <3>1. yes \in BOOLEAN
      OBVIOUS
    <3> HIDE DEF yes
    <3>2. QED
      BY <2>3, <3>1, ResolveDoes
  <2>5. Closing(u, f[i], p, yes)
    BY <1>1, <1>2, <2>2, <2>4
  <2>6. Spent(u, f[i])
    BY <2>5 DEF Closing, Spent
  <2>7. Spent(s, u)
    BY <1>5, <2>2
  <2>8. QED
    BY <2>1, <2>6, <2>7, SpentYet
<1> HIDE DEF A
<1>6. \A i \in 0..n : i \in A
  BY <1>2, <1>4, <1>5, UpTo
<1>7. n \in A
  BY <1>2, <1>6
<1>8. QED
  BY <1>1, <1>2, <1>7 DEF A

LEMMA AllSettledDo ==
    ASSUME NEW told, NEW played, NEW s \in Honest(told, played), NEW seq \in Seq(Passages)
    PROVE  Spent(s, InTurn(SettledAsPlayed, s, seq))
<1> DEFINE n == Len(seq)
<1>0. AllSettledSteps(told, played, s, seq)
  BY AllSettledRun
<1>1. PICK f \in [0..n -> Honest(told, played)] :
          /\ f[0] = s
          /\ \A i \in 1..n : f[i] = SettledAsPlayed(f[i - 1], seq[i])
          /\ InTurn(SettledAsPlayed, s, seq) = f[n]
  BY <1>0 DEF AllSettledSteps
<1>2. n \in Nat /\ \A i \in 1..n : seq[i] \in Passages
  BY LenProperties
<1> HIDE DEF n
<1> DEFINE A == {i \in 0..n : Spent(s, f[i])}
<1>3. 0 \in A
  BY <1>1, <1>2 DEF Spent, Wiser, SameRest
<1>4. ASSUME NEW i \in 1..n, i - 1 \in A
      PROVE  i \in A
  <2>1. i - 1 \in 0..n /\ i \in 0..n
    BY <1>2
  <2>2. PICK u : u = f[i - 1]
    OBVIOUS
  <2>3. PICK x : x = seq[i]
    OBVIOUS
  <2>4. u \in Honest(told, played) /\ x \in Passages
    BY <1>1, <1>2, <2>1, <2>2, <2>3
  <2>5. Spent(u, SettledAsPlayed(u, x))
    BY <2>4, SettledDoes
  <2>6. Spent(u, f[i]) /\ Spent(s, u)
    BY <1>1, <1>4, <2>2, <2>3, <2>5
  <2>7. QED
    BY <2>1, <2>6, SpentYet
<1> HIDE DEF A
<1>5. \A i \in 0..n : i \in A
  BY <1>2, <1>3, <1>4, UpTo
<1>6. n \in A
  BY <1>2, <1>5
<1>7. QED
  BY <1>1, <1>6 DEF A

LEMMA UnseenDoes ==
    ASSUME NEW told, NEW played, NEW s \in Honest(told, played)
    PROVE  Spent(s, SettleUnseen(s))
<1> DEFINE seen == InQueue \cup OnAir
           gone == {p \in Passages : s.notes[p] > 0 /\ p \notin seen /\ s.unseen[p] = "long"}
           looked == [p \in Passages |->
                         IF s.notes[p] = 0 \/ p \in seen THEN "seen"
                         ELSE IF s.unseen[p] = "seen" THEN "since" ELSE s.unseen[p]]
           t == With(s, s.d, s.notes, looked)
<1>1. /\ s \in Sessions /\ s.unseen \in [Passages -> Sights] /\ s.notes \in [Passages -> Nat]
      /\ Directed(s.d, s.notes, s.settled, told, played)
  BY HonestFacts DEF Honest
<1>2. looked \in [Passages -> Sights]
  BY <1>1 DEF Sights
<1>3. gone \in SUBSET Passages
  OBVIOUS
<1>4. SettleUnseen(s) = InTurn(SettledAsPlayed, [s EXCEPT !.unseen = looked], SetToSeq(gone))
  BY DEF SettleUnseen
<1> HIDE DEF looked, gone
<1>5. [s EXCEPT !.unseen = looked] = t
  BY <1>1 DEF With, Sessions
<1>6. t.d = s.d /\ t.notes = s.notes /\ SameRest(s, t)
  BY <1>1, WithFields
<1>7. Spent(s, t)
  BY <1>6 DEF Spent, Wiser
<1> HIDE DEF t
<1>8. t \in Honest(told, played)
  BY <1>1, <1>2, HonestWith DEF t
<1>9. Spent(t, InTurn(SettledAsPlayed, t, SetToSeq(gone)))
  BY <1>3, <1>8, SetToSeqLists, AllSettledDo
<1>10. QED
  BY <1>4, <1>5, <1>7, <1>9, SpentYet
-----------------------------------------------------------------------------
(* What the Director is told, and the marks it has for it.                 *)

QueuedOf(p) == {e \in Entries : e.p = p}
OutOf(p) == {x \in OutEntries : x.p = p}
UncountedOf(p) == {x \in OutEntries : x.p = p /\ ~x.counted}
Says(p) == {Outcome("played", p), Outcome("rejected", p)}
Asks(p) == {Outcome("queued", p)}

\* With n marks of a passage, one of what is said of it was heard and finds a
\* mark to close.
Answered(m, p, n) ==
    \E i \in 1..Len(m) :
        m[i] = Outcome("played", p) /\ CountTo(m, Says(p), i) <= n + CountTo(m, Asks(p), i)

\* One thing told, as it bears on one passage.
OneReckoned(u, v, o, p) ==
    /\ Known(u.d, p) => Known(v.d, p)
    /\ \/ /\ o \notin Says(p) /\ o \notin Asks(p) /\ o # Outcome("played", p)
          /\ v.notes[p] = u.notes[p]
       \/ /\ o \notin Says(p) /\ o \in Asks(p) /\ o # Outcome("played", p)
          /\ v.notes[p] = u.notes[p] + 1
       \/ /\ o \in Says(p) /\ o \notin Asks(p)
          /\ v.notes[p] = IF u.notes[p] = 0 THEN 0 ELSE u.notes[p] - 1
          /\ o = Outcome("played", p) /\ u.notes[p] # 0 => Known(v.d, p)

LEMMA OneTold ==
    ASSUME NEW u, u.d.built, NEW o \in Outcomes, NEW keeping, NEW v, Telling(u, v, o, keeping),
           NEW p \in Passages
    PROVE  OneReckoned(u, v, o, p)
<1>1. /\ o.p \in Passages /\ o.what \in {"queued", "played", "rejected"}
      /\ \A what : o = Outcome(what, p) <=> (o.what = what /\ o.p = p)
  BY DEF Outcomes, Outcome
<1>2. Known(u.d, p) => Known(v.d, p)
  BY DEF Telling, Wiser
<1>3. CASE o.p # p
  <2>1. v.notes[p] = u.notes[p]
    BY <1>3 DEF Telling
  <2>2. o \notin Says(p) /\ o \notin Asks(p) /\ o # Outcome("played", p)
    BY <1>1, <1>3 DEF Says, Asks
  <2>3. QED
    BY <1>2, <2>1, <2>2 DEF OneReckoned
<1>4. CASE o.p = p /\ o.what = "queued"
  <2>1. v.notes[p] = u.notes[p] + 1
    BY <1>4 DEF Telling
  <2>2. o \notin Says(p) /\ o \in Asks(p) /\ o # Outcome("played", p)
    BY <1>1, <1>4 DEF Says, Asks
  <2>3. QED
    BY <1>2, <2>1, <2>2 DEF OneReckoned
<1>5. CASE o.p = p /\ o.what # "queued"
  <2>1. /\ v.notes[p] = IF u.notes[p] = 0 THEN 0 ELSE u.notes[p] - 1
        /\ o.what = "played" /\ u.notes[p] # 0 => Known(v.d, p)
    BY <1>5 DEF Telling
  <2>2. o \in Says(p) /\ o \notin Asks(p) /\ (o = Outcome("played", p) => o.what = "played")
    BY <1>1, <1>5 DEF Says, Asks
  <2>3. QED
    BY <1>2, <2>1, <2>2 DEF OneReckoned
<1>6. QED
  BY <1>3, <1>4, <1>5

\* The account of a passage, told up to i: it has the marks it should; one
\* more, or is known, if it was heard; and is known if what was heard found a
\* mark.
Reckoned(u, m, p, k, i) ==
    /\ k + CountTo(m, Asks(p), i) <= u.notes[p] + CountTo(m, Says(p), i)
    /\ \A j \in 1..i : m[j] = Outcome("played", p) =>
          \/ Known(u.d, p)
          \/ k + CountTo(m, Asks(p), i) + 1 <= u.notes[p] + CountTo(m, Says(p), i)
    /\ \A j \in 1..i :
          m[j] = Outcome("played", p) /\ CountTo(m, Says(p), j) <= k + CountTo(m, Asks(p), j)
              => Known(u.d, p)

LEMMA ReckonedStep ==
    ASSUME NEW m, NEW n \in Nat, NEW i \in 1..n, NEW p \in Passages, NEW k \in Nat,
           NEW u, NEW v, u.notes[p] \in Nat,
           OneReckoned(u, v, m[i], p), Reckoned(u, m, p, k, i - 1)
    PROVE  Reckoned(v, m, p, k, i)
<1> DEFINE V(j) == CountTo(m, Says(p), j)
           Q(j) == CountTo(m, Asks(p), j)
<1>1. \A j \in 1..i : j \in 1..(i - 1) \/ j = i
  OBVIOUS
<1>2. /\ V(i - 1) \in Nat /\ V(i) \in Nat /\ Q(i - 1) \in Nat /\ Q(i) \in Nat
      /\ m[i] \in Says(p) => V(i) = V(i - 1) + 1
      /\ m[i] \notin Says(p) => V(i) = V(i - 1)
      /\ m[i] \in Asks(p) => Q(i) = Q(i - 1) + 1
      /\ m[i] \notin Asks(p) => Q(i) = Q(i - 1)
  BY CountedBy
<1>3. PICK v0 \in Nat, v1 \in Nat, q0 \in Nat, q1 \in Nat, n0 \in Nat :
          v0 = V(i - 1) /\ v1 = V(i) /\ q0 = Q(i - 1) /\ q1 = Q(i) /\ n0 = u.notes[p]
  BY <1>2
<1>4. /\ k + q0 <= n0 + v0
      /\ \A j \in 1..(i - 1) : m[j] = Outcome("played", p) => Known(u.d, p) \/ k + q0 + 1 <= n0 + v0
      /\ \A j \in 1..(i - 1) : m[j] = Outcome("played", p) /\ V(j) <= k + Q(j) => Known(u.d, p)
  BY <1>3 DEF Reckoned
<1>5. SUFFICES
        /\ k + q1 <= v.notes[p] + v1
        /\ \A j \in 1..i : m[j] = Outcome("played", p) => Known(v.d, p) \/ k + q1 + 1 <= v.notes[p] + v1
        /\ \A j \in 1..i : m[j] = Outcome("played", p) /\ V(j) <= k + Q(j) => Known(v.d, p)
  BY <1>3 DEF Reckoned
<1>6. Known(u.d, p) => Known(v.d, p)
  BY DEF OneReckoned
<1>7. CASE m[i] \notin Says(p) /\ m[i] \notin Asks(p) /\ m[i] # Outcome("played", p)
           /\ v.notes[p] = u.notes[p]
  <2>1. v1 = v0 /\ q1 = q0 /\ v.notes[p] = n0
    BY <1>2, <1>3, <1>7
  <2> HIDE DEF V, Q
  <2>2. QED
    BY <1>1, <1>4, <1>6, <1>7, <2>1
<1>8. CASE m[i] \notin Says(p) /\ m[i] \in Asks(p) /\ m[i] # Outcome("played", p)
           /\ v.notes[p] = u.notes[p] + 1
  <2>1. v1 = v0 /\ q1 = q0 + 1 /\ v.notes[p] = n0 + 1
    BY <1>2, <1>3, <1>8
  <2> HIDE DEF V, Q
  <2>2. k + q1 <= v.notes[p] + v1 /\ (k + q0 + 1 <= n0 + v0 => k + q1 + 1 <= v.notes[p] + v1)
    BY <1>4, <2>1
  <2>3. QED
    BY <1>1, <1>4, <1>6, <1>8, <2>2
<1>9. CASE /\ m[i] \in Says(p) /\ m[i] \notin Asks(p)
           /\ v.notes[p] = IF u.notes[p] = 0 THEN 0 ELSE u.notes[p] - 1
           /\ m[i] = Outcome("played", p) /\ u.notes[p] # 0 => Known(v.d, p)
  <2>1. v1 = v0 + 1 /\ q1 = q0 /\ v.notes[p] = IF n0 = 0 THEN 0 ELSE n0 - 1
    BY <1>2, <1>3, <1>9
  <2>2. n0 = 0 => k + q1 + 1 <= v.notes[p] + v1
    BY <1>4, <2>1
  <2>3. k + q1 <= v.notes[p] + v1 /\ (k + q0 + 1 <= n0 + v0 => k + q1 + 1 <= v.notes[p] + v1)
    BY <1>4, <2>1
  <2>4. ASSUME m[i] = Outcome("played", p)
        PROVE  Known(v.d, p) \/ (n0 = 0 /\ k + q1 + 1 <= v.notes[p] + v1)
    BY <1>3, <1>9, <2>2, <2>4
  <2>5. n0 = 0 => ~(V(i) <= k + Q(i))
    BY <1>3, <1>4, <2>1
  <2> HIDE DEF V, Q
  <2>6. \A j \in 1..i : m[j] = Outcome("played", p) => Known(v.d, p) \/ k + q1 + 1 <= v.notes[p] + v1
    BY <1>1, <1>4, <1>6, <2>3, <2>4
  <2>7. \A j \in 1..i : m[j] = Outcome("played", p) /\ V(j) <= k + Q(j) => Known(v.d, p)
    BY <1>1, <1>4, <1>6, <2>4, <2>5
  <2>8. QED
    BY <2>3, <2>6, <2>7
<1>10. QED
  BY <1>7, <1>8, <1>9 DEF OneReckoned

\* What is told of all passages, and kept: what was declined is held against
\* its passage, and all that was told is kept beside what was.
Tells(s, t, m, keeping, i) ==
    /\ Wiser(s, t) /\ t.missed = s.missed
    /\ s.forgot => t.forgot
    /\ ~t.forgot =>
          /\ ToSet(s.heard) \subseteq ToSet(t.heard)
          /\ keeping => \A j \in 1..i : m[j].what # "queued" => m[j] \in ToSet(t.heard)
    /\ s.d.built => \A j \in 1..i : m[j].what = "rejected" => m[j].p \in t.d.windows

LEMMA TellsStep ==
    ASSUME NEW m, NEW n \in Nat, NEW i \in 1..n, NEW s, NEW u, NEW v, NEW keeping,
           Telling(u, v, m[i], keeping), Tells(s, u, m, keeping, i - 1)
    PROVE  Tells(s, v, m, keeping, i)
<1>1. \A j \in 1..i : j \in 1..(i - 1) \/ j = i
  OBVIOUS
<1>2. Wiser(s, v) /\ v.missed = s.missed /\ (s.forgot => v.forgot)
  BY WiserYet DEF Telling, Tells
<1>3. ASSUME ~v.forgot
      PROVE  /\ ToSet(s.heard) \subseteq ToSet(v.heard)
             /\ keeping => \A j \in 1..i : m[j].what # "queued" => m[j] \in ToSet(v.heard)
  <2>1. /\ ~u.forgot /\ ToSet(u.heard) \subseteq ToSet(v.heard)
        /\ keeping /\ m[i].what # "queued" => m[i] \in ToSet(v.heard)
    BY <1>3 DEF Telling
  <2>2. /\ ToSet(s.heard) \subseteq ToSet(u.heard)
        /\ keeping => \A j \in 1..(i - 1) : m[j].what # "queued" => m[j] \in ToSet(u.heard)
    BY <2>1 DEF Tells
  <2>3. QED
    BY <1>1, <2>1, <2>2
<1>4. ASSUME s.d.built, NEW j \in 1..i, m[j].what = "rejected"
      PROVE  m[j].p \in v.d.windows
  <2>1. CASE j = i
    <3>1. u.d.built
      BY <1>4 DEF Tells, Wiser
    <3>2. QED
      BY <1>4, <2>1, <3>1 DEF Telling
  <2>2. CASE j \in 1..(i - 1)
    <3>1. m[j].p \in u.d.windows
      BY <1>4, <2>2 DEF Tells
    <3>2. QED
      BY <3>1 DEF Telling, Wiser
  <2>3. QED
    BY <1>1, <2>1, <2>2
<1>5. QED
  BY <1>2, <1>3, <1>4 DEF Tells

\* All that is told, from first to last.
AllTold(s, keeping, m) == InTurn(LAMBDA x, o : Told(x, o, keeping), s, m)

LEMMA TellingsDo ==
    ASSUME NEW told, NEW played, NEW s \in Honest(told, played), NEW keeping \in BOOLEAN,
           NEW m \in Seq(Outcomes), \A i \in 1..Len(m) : m[i].what # "queued" => m[i] \in told,
           NEW t, t = AllTold(s, keeping, m)
    PROVE  /\ Tells(s, t, m, keeping, Len(m))
           /\ s.d.built => \A p \in Passages : Reckoned(t, m, p, s.notes[p], Len(m))
<1> DEFINE n == Len(m)
<1>0. TellingsSteps(told, played, s, keeping, m)
  BY TellingsRun
<1>1. PICK f \in [0..n -> Honest(told, played)] :
          /\ f[0] = s
          /\ \A i \in 1..n : f[i] = Told(f[i - 1], m[i], keeping)
          /\ AllTold(s, keeping, m) = f[n]
  BY <1>0 DEF TellingsSteps, AllTold
<1>1a. f[n] = t
  BY <1>1
<1>2. n \in Nat /\ (\A i \in 1..n : m[i] \in Outcomes) /\ s.notes \in [Passages -> Nat]
      /\ \A i \in 1..n : m[i].what # "queued" => m[i] \in told
  BY LenProperties, HonestFacts
<1> HIDE DEF n
<1> DEFINE Now2(u, i) == Tells(s, u, m, keeping, i)
                         /\ (s.d.built => \A p \in Passages : Reckoned(u, m, p, s.notes[p], i))
           A == {i \in 0..n : Now2(f[i], i)}
<1>3. 0 \in A
  <2>1. Tells(s, s, m, keeping, 0)
    BY DEF Tells, Wiser
  <2>2. ASSUME NEW p \in Passages
        PROVE  Reckoned(s, m, p, s.notes[p], 0)
    <3>1. CountTo(m, Asks(p), 0) = 0 /\ CountTo(m, Says(p), 0) = 0 /\ s.notes[p] \in Nat
      BY <1>2, CountFrom
    <3>2. QED
      BY <3>1 DEF Reckoned
  <2>3. Now2(s, 0)
    BY <2>1, <2>2
  <2> HIDE DEF Now2
  <2>4. QED
    BY <1>1, <1>2, <2>3
<1>4. ASSUME NEW i \in 1..n, i - 1 \in A
      PROVE  i \in A
  <2>1. i - 1 \in 0..n /\ i \in 0..n
    BY <1>2
  <2>2. PICK u : u = f[i - 1]
    OBVIOUS
  <2>3. PICK o : o = m[i]
    OBVIOUS
  <2>4. PICK v : v = f[i]
    OBVIOUS
  <2>5. u \in Honest(told, played) /\ o \in Outcomes /\ (o.what # "queued" => o \in told)
    BY <1>1, <1>2, <2>1, <2>2, <2>3
  <2>6. Telling(u, Told(u, o, keeping), o, keeping)
    BY <2>5, ToldDoes
  <2>7. Telling(u, v, o, keeping)
    BY <1>1, <2>2, <2>3, <2>4, <2>6
  <2>8. Tells(s, u, m, keeping, i - 1)
        /\ (s.d.built => \A p \in Passages : Reckoned(u, m, p, s.notes[p], i - 1))
    BY <1>4, <2>2
  <2>9. Tells(s, v, m, keeping, i)
    BY <1>2, <2>3, <2>7, <2>8, TellsStep
  <2>10. ASSUME s.d.built, NEW p \in Passages
         PROVE  Reckoned(v, m, p, s.notes[p], i)
    <3>1. u.d.built
      BY <2>8, <2>10 DEF Tells, Wiser
    <3>2. OneReckoned(u, v, o, p)
      BY <2>5, <2>7, <3>1, OneTold
    <3>3. OneReckoned(u, v, m[i], p)
      BY <2>3, <3>2
    <3>4. u.notes[p] \in Nat /\ s.notes[p] \in Nat
      BY <1>2, <2>5, HonestFacts
    <3>5. Reckoned(u, m, p, s.notes[p], i - 1)
      BY <2>8, <2>10
    <3>6. QED
      BY <1>2, <3>3, <3>4, <3>5, ReckonedStep
  <2>11. Now2(f[i], i)
    BY <2>4, <2>9, <2>10
  <2> HIDE DEF Now2
  <2>12. QED
    BY <2>1, <2>11
<1> HIDE DEF A
<1>5. \A i \in 0..n : i \in A
  BY <1>2, <1>3, <1>4, UpTo
<1>6. n \in A
  BY <1>2, <1>5
<1>7. Now2(f[n], n)
  BY <1>6 DEF A
<1>8. QED
  BY <1>1a, <1>7 DEF n
-----------------------------------------------------------------------------
(* What the history holds.                                                 *)

Has(h, o) ==
    IF o.what = "played" THEN \A k \in KeysOf[o.p] : h.played[k] = Recent ELSE o.p \in h.rejected

LEMMA HasStill ==
    ASSUME NEW h, NEW h2, Grown(h, h2), NEW o \in Verdict, Has(h, o)
    PROVE  Has(h2, o)
<1>1. o.p \in Passages
  BY DEF Verdict
<1>2. KeysOf[o.p] \subseteq Keys
  BY <1>1, KeysAreKeys
<1>3. QED
  BY <1>2 DEF Has, Grown

LEMMA WrittenHas ==
    ASSUME NEW h \in Histories, h.written, NEW o \in Verdict
    PROVE  Has(Written(h, o), o)
<1>1. o.p \in Passages /\ h.played \in [Keys -> Times]
  BY DEF Verdict, Histories
<1>2. KeysOf[o.p] \subseteq Keys
  BY <1>1, KeysAreKeys
<1>3. CASE o.what = "played"
  <2> DEFINE played == [k \in Keys |-> IF k \in KeysOf[o.p] THEN Recent ELSE h.played[k]]
  <2>1. Written(h, o) = [h EXCEPT !.played = played]
    BY <1>3 DEF Written
  <2>2. \A k \in KeysOf[o.p] : played[k] = Recent
    BY <1>2
  <2> HIDE DEF played
  <2>3. Written(h, o).played = played
    BY <2>1 DEF Histories
  <2>4. QED
    BY <1>3, <2>2, <2>3 DEF Has
<1>4. CASE o.what # "played"
  <2>1. Written(h, o) = [h EXCEPT !.rejected = h.rejected \cup {o.p}]
    BY <1>4 DEF Written
  <2>2. Written(h, o).rejected = h.rejected \cup {o.p}
    BY <2>1 DEF Histories
  <2>3. QED
    BY <1>4, <2>2 DEF Has
<1>5. QED
  BY <1>3, <1>4

LEMMA AllWrittenHas ==
    ASSUME NEW h \in Histories, PlayedHere(h), h.written, NEW seq \in Seq(Verdict)
    PROVE  \A i \in 1..Len(seq) : Has(InTurn(Written, h, seq), seq[i])
<1> DEFINE n == Len(seq)
<1>0. WrittenSteps(h, seq)
  BY WrittenRun
<1>1. PICK f \in [0..n -> {h2 \in Histories : Grown(h, h2)}] :
          /\ f[0] = h
          /\ \A i \in 1..n : f[i] = Written(f[i - 1], seq[i])
          /\ InTurn(Written, h, seq) = f[n]
  BY <1>0 DEF WrittenSteps
<1>2. n \in Nat /\ \A i \in 1..n : seq[i] \in Verdict
  BY LenProperties
<1> HIDE DEF n
<1> DEFINE A == {i \in 0..n : \A j \in 1..i : Has(f[i], seq[j])}
<1>3. 0 \in A
  BY <1>2
<1>4. ASSUME NEW i \in 1..n, i - 1 \in A
      PROVE  i \in A
  <2>1. i - 1 \in 0..n /\ i \in 0..n /\ \A j \in 1..i : j \in 1..n /\ (j \in 1..(i - 1) \/ j = i)
    BY <1>2
  <2>2. PICK u : u = f[i - 1]
    OBVIOUS
  <2>3. PICK v : v = f[i]
    OBVIOUS
  <2>4. PICK o : o = seq[i]
    OBVIOUS
  <2>5. u \in Histories /\ Grown(h, u) /\ o \in Verdict /\ v = Written(u, o)
    BY <1>1, <1>2, <2>1, <2>2, <2>3, <2>4
  <2>6. Grown(u, v) /\ Has(v, o)
    <3>1. PlayedHere(u) /\ u.written
      BY <2>5 DEF Grown
    <3>2. QED
      BY <2>5, <3>1, OneWritten, WrittenHas
  <2>7. ASSUME NEW j \in 1..i
        PROVE  Has(v, seq[j])
    <3>1. CASE j = i
      BY <2>4, <2>6, <3>1
    <3>2. CASE j \in 1..(i - 1)
      <4>1. Has(u, seq[j]) /\ seq[j] \in Verdict
        BY <1>2, <1>4, <2>1, <2>2, <3>2
      <4>2. QED
        BY <2>6, <4>1, HasStill
    <3>3. QED
      BY <2>1, <3>1, <3>2
  <2>8. QED
    BY <2>1, <2>3, <2>7
<1> HIDE DEF A
<1>5. \A i \in 0..n : i \in A
  BY <1>2, <1>3, <1>4, UpTo
<1>6. n \in A
  BY <1>2, <1>5
<1>7. \A j \in 1..n : Has(f[n], seq[j])
  BY <1>6 DEF A
<1>8. QED
  BY <1>1, <1>7 DEF n

-----------------------------------------------------------------------------
(* The accounts.  Of every passage the Director knows that it was heard, or *)
(* has a mark for each entry that may yet be told of -- and for one more,  *)
(* when it was told that the passage was heard.                            *)

Sure(d, missed, p) == Known(d, p) \/ p \in missed

Owed(b, p) ==
    HowMany(b.queue, QueuedOf(p)) + HowMany(b.dropped, {p}) + HowMany(b.outcomes, Says(p))
Pending(b, p) == Owed(b, p) + HowMany(b.out, UncountedOf(p))
Standing(b, p) == Owed(b, p) + HowMany(b.out, OutOf(p))
Asked(b, p) == HowMany(b.outcomes, Asks(p))
Once(pa, p) == IF ~pa.forgot /\ Outcome("played", p) \in pa.told THEN 1 ELSE 0

\* Of what has not been counted yet, and of all that is not over.
Balanced(b, handed, sure, k, once, p) ==
    /\ \/ sure \/ (handed /\ Answered(b.outcomes, p, k))
       \/ Pending(b, p) + once <= k + Asked(b, p)
    /\ \/ sure \/ Answered(b.outcomes, p, k)
       \/ Standing(b, p) + once <= k + Asked(b, p)

Balances(b, d, noted, pa) ==
    d.built => \A p \in Passages :
        Balanced(b, pa.handed, Sure(d, pa.missed, p), noted[p], Once(pa, p), p)

\* Only what is heard was counted.
OneCountedAtMost(b) == \A i \in 2..Len(b.out) : ~b.out[i].counted

Recalls(d, noted, pa) ==
    (d.built /\ ~pa.handed) =>
        \A p \in Passages : Once(pa, p) = 1 => Sure(d, pa.missed, p) \/ noted[p] > 0

Refuses(d, pa) ==
    (d.built /\ ~pa.forgot) => \A o \in pa.told : o.what = "rejected" => o.p \in d.windows

\* What was said is in the history, where there is one; and what was told is
\* in what a build read, or was kept for it.
SaidIn(b) == {o \in ToSet(b.outcomes) : o.what # "queued"}

Holds(h, b, pa) == h.written => \A o \in pa.told \cup SaidIn(b) : Has(h, o)

Keeps(h, kept, r, pa) ==
    ~pa.forgot => \A o \in pa.told :
        /\ ~h.written => o \in ToSet(kept)
        /\ r.phase \in {"read", "sent"} => Has(r.read, o) \/ o \in ToSet(kept)

Clear(c, b, pa) == c = "choosing" => b.outcomes = <<>> /\ ~pa.handed

KInv ==
    /\ Balances(backend, director, notes, past)
    /\ OneCountedAtMost(backend)
    /\ Recalls(director, notes, past) /\ Refuses(director, past)
    /\ Holds(history, backend, past) /\ Keeps(history, heard, rebuild, past)
    /\ Clear(choosing, backend, past)

LEMMA AmountsAre ==
    ASSUME NEW b \in Backends, NEW p, NEW pa
    PROVE  /\ HowMany(b.queue, QueuedOf(p)) \in Nat /\ HowMany(b.dropped, {p}) \in Nat
           /\ HowMany(b.outcomes, Says(p)) \in Nat /\ Asked(b, p) \in Nat
           /\ HowMany(b.out, UncountedOf(p)) \in Nat /\ HowMany(b.out, OutOf(p)) \in Nat
           /\ Owed(b, p) \in Nat /\ Pending(b, p) \in Nat /\ Standing(b, p) \in Nat
           /\ Once(pa, p) \in {0, 1}
<1>1. /\ b.queue \in Seq(Entries) /\ b.out \in Seq(OutEntries) /\ b.dropped \in Seq(Passages)
      /\ b.outcomes \in Seq(Outcomes)
  BY DEF Backends
<1>2. \A S : /\ HowMany(b.queue, S) \in Nat /\ HowMany(b.dropped, S) \in Nat
             /\ HowMany(b.outcomes, S) \in Nat /\ HowMany(b.out, S) \in Nat
  BY <1>1, HowManyIs
<1>3. QED
  BY <1>2 DEF Owed, Pending, Standing, Asked, Once

\* What is answered stays so whatever is said after it.
LEMMA AnsweredYet ==
    ASSUME NEW m \in Seq(Outcomes), NEW said \in Seq(Outcomes), NEW p, NEW k \in Nat, NEW k2 \in Nat,
           k <= k2, Answered(m, p, k)
    PROVE  Answered(m \o said, p, k2)
<1>1. PICK i \in 1..Len(m) :
          m[i] = Outcome("played", p) /\ CountTo(m, Says(p), i) <= k + CountTo(m, Asks(p), i)
  BY DEF Answered
<1>2. PICK r : r = m \o said
  OBVIOUS
<1>3. /\ r[i] = m[i] /\ CountTo(r, Says(p), i) = CountTo(m, Says(p), i)
      /\ CountTo(r, Asks(p), i) = CountTo(m, Asks(p), i)
  BY <1>2, CountsJoined
<1>4. Len(r) = Len(m) + Len(said) /\ Len(m) \in Nat /\ Len(said) \in Nat
  BY <1>2, ConcatProperties, LenProperties
<1>5. i \in 1..Len(r)
  BY <1>4
<1>6. i \in Nat /\ CountTo(m, Says(p), i) \in Nat /\ CountTo(m, Asks(p), i) \in Nat
  BY <1>4, CountedTo DEF CountStep
<1>7. CountTo(r, Says(p), i) <= k2 + CountTo(r, Asks(p), i)
  BY <1>1, <1>3, <1>6
<1>8. QED
  BY <1>1, <1>2, <1>3, <1>5, <1>7 DEF Answered

\* Every step takes as much off one side of an account as off the other.
Fits(b, c, p) ==
    /\ Pending(c, p) + Asked(b, p) <= Pending(b, p) + Asked(c, p)
    /\ Standing(c, p) + Asked(b, p) <= Standing(b, p) + Asked(c, p)

LEMMA FitsBalance ==
    ASSUME NEW b \in Backends, NEW c \in Backends, NEW said \in Seq(Outcomes),
           c.outcomes = b.outcomes \o said, NEW p, Fits(b, c, p),
           NEW handed, NEW sure, NEW k \in Nat, NEW pa, Balanced(b, handed, sure, k, Once(pa, p), p)
    PROVE  Balanced(c, handed, sure, k, Once(pa, p), p)
<1>1. b.outcomes \in Seq(Outcomes)
  BY DEF Backends
<1>2. Answered(b.outcomes, p, k) => Answered(c.outcomes, p, k)
  <2>1. k <= k
    OBVIOUS
  <2>2. QED
    BY <1>1, <2>1, AnsweredYet
<1>3. /\ Pending(b, p) \in Nat /\ Standing(b, p) \in Nat /\ Asked(b, p) \in Nat
      /\ Pending(c, p) \in Nat /\ Standing(c, p) \in Nat /\ Asked(c, p) \in Nat
  BY AmountsAre
<1>3a. PICK once \in Nat : once = Once(pa, p)
  BY DEF Once
<1>4. /\ Pending(b, p) + once <= k + Asked(b, p) => Pending(c, p) + once <= k + Asked(c, p)
      /\ Standing(b, p) + once <= k + Asked(b, p) => Standing(c, p) + once <= k + Asked(c, p)
  <2>1. /\ Pending(c, p) + Asked(b, p) <= Pending(b, p) + Asked(c, p)
        /\ Standing(c, p) + Asked(b, p) <= Standing(b, p) + Asked(c, p)
    BY DEF Fits
  <2>2. PICK pb \in Nat, sb \in Nat, ab \in Nat, pc \in Nat, sc \in Nat, ac \in Nat :
            /\ pb = Pending(b, p) /\ sb = Standing(b, p) /\ ab = Asked(b, p)
            /\ pc = Pending(c, p) /\ sc = Standing(c, p) /\ ac = Asked(c, p)
    BY <1>3
  <2>3. pc + ab <= pb + ac /\ sc + ab <= sb + ac
    BY <2>1, <2>2
  <2>4. (pb + once <= k + ab => pc + once <= k + ac) /\ (sb + once <= k + ab => sc + once <= k + ac)
    BY <2>3
  <2>5. QED
    BY <2>2, <2>4
<1>5. QED
  BY <1>2, <1>3a, <1>4 DEF Balanced
-----------------------------------------------------------------------------
(* The backend's steps, in the accounts.                                   *)

LEMMA SaidOf ==
    ASSUME NEW m \in Seq(Outcomes), NEW said \in Seq(Outcomes), NEW o \in ToSet(m \o said)
    PROVE  o \in ToSet(m) \/ \E i \in 1..Len(said) : o = said[i]
<1>1. PICK r : r = m \o said
  OBVIOUS
<1>2. /\ r \in Seq(Outcomes) /\ Len(r) = Len(m) + Len(said)
      /\ \A i \in 1..(Len(m) + Len(said)) : r[i] = IF i <= Len(m) THEN m[i] ELSE said[i - Len(m)]
  BY <1>1, ConcatProperties
<1>3. Len(m) \in Nat /\ Len(said) \in Nat /\ DOMAIN m = 1..Len(m) /\ DOMAIN r = 1..Len(r)
  BY <1>2, LenProperties
<1>4. PICK i \in 1..(Len(m) + Len(said)) : o = r[i]
  BY <1>1, <1>2, <1>3 DEF ToSet
<1>5. CASE i <= Len(m)
  <2>1. o = m[i] /\ i \in DOMAIN m
    BY <1>2, <1>3, <1>4, <1>5
  <2>2. QED
    BY <2>1 DEF ToSet
<1>6. CASE ~(i <= Len(m))
  <2>1. o = said[i - Len(m)] /\ i - Len(m) \in 1..Len(said)
    BY <1>2, <1>3, <1>4, <1>6
  <2>2. QED
    BY <2>1
<1>7. QED
  BY <1>5, <1>6

LEMMA BackendKnows ==
    ASSUME IInv, KInv, UNCHANGED session, choosing # "choosing", Grown(history, history'),
           past'.told = past.told, past'.missed = past.missed, past'.forgot = past.forgot,
           past'.handed = past.handed,
           NEW c \in Backends, backend' = c, OneCountedAtMost(c),
           NEW said \in Seq(Outcomes), c.outcomes = backend.outcomes \o said,
           history.written => \A i \in 1..Len(said) : said[i].what # "queued" => Has(history', said[i]),
           \A p \in Passages :
               Balanced(backend, past.handed, Sure(director, past.missed, p), notes[p], Once(past, p), p)
               => Balanced(c, past.handed, Sure(director, past.missed, p), notes[p], Once(past, p), p)
    PROVE  KInv'
<1>1. /\ director' = director /\ notes' = notes /\ heard' = heard /\ rebuild' = rebuild
      /\ choosing' = choosing
  BY DEF session
<1>2. \A p : Once(past', p) = Once(past, p)
  BY DEF Once
<1>3. Balances(backend', director', notes', past')
  BY <1>1, <1>2 DEF KInv, Balances
<1>4. Recalls(director', notes', past') /\ Refuses(director', past')
  BY <1>1, <1>2 DEF KInv, Recalls, Refuses
<1>5. Holds(history', backend', past')
  <2> SUFFICES ASSUME history'.written, NEW o \in past.told \cup SaidIn(c)
               PROVE  Has(history', o)
    BY DEF Holds
  <2>1. history.written
    BY DEF Grown
  <2>2. \A x \in past.told \cup SaidIn(backend) : Has(history, x)
    BY <2>1 DEF KInv, Holds
  <2>3. past.told \subseteq Verdict
    BY BackendParts DEF Pasts
  <2>4. SaidIn(backend) \subseteq Verdict
    <3>1. \A i \in DOMAIN backend.outcomes : backend.outcomes[i] \in Outcomes
      BY BackendParts, LenProperties, ElementOfSeq
    <3>2. \A x \in Outcomes : x.what # "queued" => x \in Verdict
      BY DEF Outcomes, Verdict
    <3>3. QED
      BY <3>1, <3>2 DEF SaidIn, ToSet
  <2>5. CASE o \in past.told \cup SaidIn(backend)
    BY <2>2, <2>3, <2>4, <2>5, HasStill
  <2>6. CASE o \notin past.told \cup SaidIn(backend)
    <3>1. o \in ToSet(backend.outcomes \o said) /\ o.what # "queued"
      BY <2>6 DEF SaidIn
    <3>2. o \in ToSet(backend.outcomes) \/ \E i \in 1..Len(said) : o = said[i]
      BY <3>1, BackendParts, SaidOf
    <3>3. QED
      BY <2>1, <2>6, <3>1, <3>2 DEF SaidIn
  <2>7. QED
    BY <2>5, <2>6
<1>6. Keeps(history', heard', rebuild', past')
  BY <1>1 DEF KInv, Keeps, Grown
<1>7. Clear(choosing', backend', past')
  BY <1>1 DEF Clear
<1>8. QED
  BY <1>3, <1>4, <1>5, <1>6, <1>7 DEF KInv

Shifts(b, c, p, dq, dd, dv, da, du, dn) ==
    /\ HowMany(c.queue, QueuedOf(p)) = HowMany(b.queue, QueuedOf(p)) + dq
    /\ HowMany(c.dropped, {p}) = HowMany(b.dropped, {p}) + dd
    /\ HowMany(c.outcomes, Says(p)) = HowMany(b.outcomes, Says(p)) + dv
    /\ HowMany(c.outcomes, Asks(p)) = HowMany(b.outcomes, Asks(p)) + da
    /\ HowMany(c.out, UncountedOf(p)) = HowMany(b.out, UncountedOf(p)) + du
    /\ HowMany(c.out, OutOf(p)) = HowMany(b.out, OutOf(p)) + dn

LEMMA ShiftsFit ==
    ASSUME NEW b \in Backends, NEW c, NEW p, NEW dq \in Int, NEW dd \in Int,
           NEW dv \in Int, NEW da \in Int, NEW du \in Int, NEW dn \in Int,
           Shifts(b, c, p, dq, dd, dv, da, du, dn),
           dq + dd + dv + du <= da, dq + dd + dv + dn <= da
    PROVE  Fits(b, c, p)
<1>1. PICK q \in Nat, d \in Nat, v \in Nat, a \in Nat, u \in Nat, n \in Nat :
          /\ q = HowMany(b.queue, QueuedOf(p)) /\ d = HowMany(b.dropped, {p})
          /\ v = HowMany(b.outcomes, Says(p)) /\ a = HowMany(b.outcomes, Asks(p))
          /\ u = HowMany(b.out, UncountedOf(p)) /\ n = HowMany(b.out, OutOf(p))
  BY AmountsAre DEF Asked
<1>2. /\ Pending(b, p) = ((q + d) + v) + u /\ Standing(b, p) = ((q + d) + v) + n /\ Asked(b, p) = a
  BY <1>1 DEF Pending, Standing, Owed, Asked
<1>3. /\ Pending(c, p) = (((q + dq) + (d + dd)) + (v + dv)) + (u + du)
      /\ Standing(c, p) = (((q + dq) + (d + dd)) + (v + dv)) + (n + dn)
      /\ Asked(c, p) = a + da
  BY <1>1 DEF Pending, Standing, Owed, Asked, Shifts
<1>4. /\ ((((q + dq) + (d + dd)) + (v + dv)) + (u + du)) + a <= (((q + d) + v) + u) + (a + da)
      /\ ((((q + dq) + (d + dd)) + (v + dv)) + (n + dn)) + a <= (((q + d) + v) + n) + (a + da)
  OBVIOUS
<1>5. QED
  BY <1>2, <1>3, <1>4 DEF Fits

LEMMA OneSaid ==
    ASSUME NEW x \in Passages, NEW what \in {"queued", "played", "rejected"}, NEW p
    PROVE  /\ <<Outcome(what, x)>> \in Seq(Outcomes)
           /\ HowMany(<<Outcome(what, x)>>, Says(p)) = IF p = x /\ what # "queued" THEN 1 ELSE 0
           /\ HowMany(<<Outcome(what, x)>>, Asks(p)) = IF p = x /\ what = "queued" THEN 1 ELSE 0
<1>1. PICK o : o = Outcome(what, x)
  OBVIOUS
<1>2. o \in Outcomes
  BY <1>1 DEF Outcomes, Outcome
<1>3. o \in Says(p) <=> (p = x /\ what # "queued")
  BY <1>1 DEF Says, Outcome
<1>4. o \in Asks(p) <=> (p = x /\ what = "queued")
  BY <1>1 DEF Asks, Outcome
<1>5. QED
  BY <1>1, <1>2, <1>3, <1>4, OneCounted

\* What is said in a step, and the accounts of what was said before.
LEMMA SaidCounts ==
    ASSUME NEW b \in Backends, NEW said \in Seq(Outcomes), NEW p
    PROVE  /\ HowMany(b.outcomes \o said, Says(p)) = HowMany(b.outcomes, Says(p)) + HowMany(said, Says(p))
           /\ HowMany(b.outcomes \o said, Asks(p)) = HowMany(b.outcomes, Asks(p)) + HowMany(said, Asks(p))
<1>1. b.outcomes \in Seq(Outcomes)
  BY DEF Backends
<1>2. QED
  BY <1>1, CountsJoined

LEMMA NowBackend ==
    ASSUME IInv
    PROVE  /\ backend \in Backends /\ notes \in [Passages -> Nat]
           /\ past.told \subseteq Verdict /\ past.handed \in BOOLEAN /\ past.forgot \in BOOLEAN
<1>1. PICK s : s = Now
  OBVIOUS
<1>2. s \in Honest(past.told, history.played)
  BY <1>1, NowIs
<1>3. s.notes \in [Passages -> Nat]
  BY <1>2, HonestFacts
<1>4. QED
  BY <1>1, <1>3, NowIs, BackendParts DEF Pasts

\* A step that fits, for every passage.
LEMMA FittingKnows ==
    ASSUME IInv, KInv, UNCHANGED session, choosing # "choosing", Grown(history, history'),
           past'.told = past.told, past'.missed = past.missed, past'.forgot = past.forgot,
           past'.handed = past.handed,
           NEW c \in Backends, backend' = c, OneCountedAtMost(c),
           NEW said \in Seq(Outcomes), c.outcomes = backend.outcomes \o said,
           history.written => \A i \in 1..Len(said) : said[i].what # "queued" => Has(history', said[i]),
           \A p \in Passages : Fits(backend, c, p)
    PROVE  KInv'
<1>1. ASSUME NEW p \in Passages,
             Balanced(backend, past.handed, Sure(director, past.missed, p), notes[p], Once(past, p), p)
      PROVE  Balanced(c, past.handed, Sure(director, past.missed, p), notes[p], Once(past, p), p)
  <2>1. PICK b : b = backend
    OBVIOUS
  <2>2. PICK sure : sure = Sure(director, past.missed, p)
    OBVIOUS
  <2>3. PICK k \in Nat : k = notes[p]
    BY NowBackend
  <2>4. b \in Backends /\ c.outcomes = b.outcomes \o said /\ Fits(b, c, p)
        /\ Balanced(b, past.handed, sure, k, Once(past, p), p)
    BY <1>1, <2>1, <2>2, <2>3, NowBackend
  <2>5. Balanced(c, past.handed, sure, k, Once(past, p), p)
    BY <2>4, FitsBalance
  <2>6. QED
    BY <2>2, <2>3, <2>5
<1>2. QED
  BY <1>1, BackendKnows

LEMMA JudgedSays ==
    ASSUME IInv, NEW said \in Seq(Verdict), NEW b \in Backends, b.outcomes = backend.outcomes,
           Judged(said, b)
    PROVE  /\ backend' \in Backends /\ Grown(history, history') /\ said \in Seq(Outcomes)
           /\ backend'.queue = b.queue /\ backend'.out = b.out /\ backend'.dropped = b.dropped
           /\ backend'.outcomes = backend.outcomes \o said
           /\ history.written =>
                  \A i \in 1..Len(said) : said[i].what # "queued" => Has(history', said[i])
<1>1. backend' \in Backends /\ Grown(history, history')
  BY JudgedKeeps
<1>2. said \in Seq(Outcomes)
  <2>1. Verdict \subseteq Outcomes
    BY DEF Verdict, Outcomes
  <2>2. QED
    BY <2>1, SeqMonotonic
<1>3. backend' = [b EXCEPT !.outcomes = b.outcomes \o said] /\ history' = InTurn(Written, history, said)
  BY DEF Judged
<1>4. /\ backend'.queue = b.queue /\ backend'.out = b.out /\ backend'.dropped = b.dropped
      /\ backend'.outcomes = backend.outcomes \o said
  <2>1. PICK all : all = b.outcomes \o said
    OBVIOUS
  <2>2. backend' = [b EXCEPT !.outcomes = all]
    BY <1>3, <2>1
  <2>3. QED
    BY <2>1, <2>2 DEF Backends
<1>5. history.written => \A i \in 1..Len(said) : Has(history', said[i])
  <2>1. PICK h : h = history
    OBVIOUS
  <2>2. h \in Histories /\ PlayedHere(h)
    BY <2>1, BackendParts
  <2>3. h.written => \A i \in 1..Len(said) : Has(InTurn(Written, h, said), said[i])
    BY <2>2, AllWrittenHas
  <2>4. QED
    BY <1>3, <2>1, <2>3
<1>6. QED
  BY <1>1, <1>2, <1>4, <1>5

LEMMA PersonQueuesKnows ==
    ASSUME IInv, KInv, NEW x \in Passages, PersonQueues(x)
    PROVE  KInv'
<1> DEFINE e == [p |-> x, by |-> "user"]
           o == Outcome("queued", x)
           said == <<o>>
           c == backend'
<1>1. e \in Entries /\ o \in Outcomes /\ said \in Seq(Outcomes)
  BY DEF Entries, Outcomes, Outcome
<1>2. /\ c \in Backends /\ c.queue = Append(backend.queue, e) /\ c.out = backend.out
      /\ c.dropped = backend.dropped /\ c.outcomes = backend.outcomes \o said
  <2>1. PICK q : q = Append(backend.queue, e)
    OBVIOUS
  <2>2. PICK m : m = Append(backend.outcomes, o)
    OBVIOUS
  <2>3. backend' = [backend EXCEPT !.queue = q, !.outcomes = m]
    BY <2>1, <2>2 DEF PersonQueues
  <2>4. q \in Seq(Entries) /\ m \in Seq(Outcomes)
    BY <1>1, <2>1, <2>2, BackendParts, AppendProperties
  <2>5. m = backend.outcomes \o said
    BY <1>1, <2>2, BackendParts, AppendIsConcat
  <2> HIDE DEF e, o, said
  <2>6. QED
    BY <2>1, <2>3, <2>4, <2>5, BackendParts DEF Backends
<1>3. /\ UNCHANGED session /\ choosing # "choosing" /\ history' = history
      /\ past' = [past EXCEPT !.queued = @ + 1]
  BY DEF PersonQueues, Between
<1>4. past'.told = past.told /\ past'.missed = past.missed /\ past'.forgot = past.forgot
      /\ past'.handed = past.handed
  BY <1>3, BackendParts DEF Pasts
<1>5. Len(said) = 1 /\ said[1].what = "queued"
  BY DEF Outcome
<1>6. ASSUME NEW p \in Passages
      PROVE  Fits(backend, c, p)
  <2>1. e \in QueuedOf(p) <=> p = x
    BY <1>1 DEF QueuedOf
  <2>2. PICK d \in Int : d = IF p = x THEN 1 ELSE 0
    OBVIOUS
  <2> HIDE DEF e
  <2>3. HowMany(c.queue, QueuedOf(p)) = HowMany(backend.queue, QueuedOf(p)) + d
    <3>1. HowMany(Append(backend.queue, e), QueuedOf(p))
            = IF e \in QueuedOf(p) THEN HowMany(backend.queue, QueuedOf(p)) + 1
              ELSE HowMany(backend.queue, QueuedOf(p))
      BY <1>1, BackendParts, CountsAppended
    <3>2. HowMany(backend.queue, QueuedOf(p)) \in Nat
      BY NowBackend, AmountsAre
    <3>3. QED
      BY <1>2, <2>1, <2>2, <3>1, <3>2
  <2>4. HowMany(said, Says(p)) = 0 /\ HowMany(said, Asks(p)) = d
    BY <2>2, OneSaid
  <2> HIDE DEF o, said
  <2>5. /\ HowMany(c.outcomes, Says(p)) = HowMany(backend.outcomes, Says(p)) + 0
        /\ HowMany(c.outcomes, Asks(p)) = HowMany(backend.outcomes, Asks(p)) + d
    BY <1>1, <1>2, <2>4, NowBackend, SaidCounts
  <2> HIDE DEF c
  <2> DEFINE none == 0
  <2>6. none \in Int /\ Shifts(backend, c, p, d, none, none, d, none, none)
    <3>1. /\ HowMany(backend.dropped, {p}) \in Nat /\ HowMany(backend.out, UncountedOf(p)) \in Nat
          /\ HowMany(backend.out, OutOf(p)) \in Nat
      BY NowBackend, AmountsAre
    <3>2. QED
      BY <1>2, <2>3, <2>5, <3>1 DEF Shifts
  <2>7. d + none + none + none <= d
    BY <2>2
  <2> HIDE DEF none
  <2>8. QED
    BY <2>6, <2>7, NowBackend, ShiftsFit
<1>7. OneCountedAtMost(c)
  BY <1>2 DEF KInv, OneCountedAtMost
<1>8. history.written => \A i \in 1..Len(said) : said[i].what # "queued" => Has(history', said[i])
  BY <1>5
<1>9. PICK b : b = c
  OBVIOUS
<1>10. b \in Backends /\ backend' = b /\ OneCountedAtMost(b) /\ b.outcomes = backend.outcomes \o said
       /\ \A p \in Passages : Fits(backend, b, p)
  BY <1>2, <1>6, <1>7, <1>9
<1> HIDE DEF c, said
<1>11. Grown(history, history')
  BY <1>3, BackendParts
<1>12. QED
  BY <1>1, <1>3, <1>4, <1>8, <1>10, <1>11, FittingKnows

LEMMA QueueWithout ==
    ASSUME IInv, NEW i \in DOMAIN backend.queue, NEW p
    PROVE  HowMany(RemoveAt(backend.queue, i), QueuedOf(p))
             = HowMany(backend.queue, QueuedOf(p)) + (IF backend.queue[i].p = p THEN -1 ELSE 0)
<1>1. PICK q : q = backend.queue
  OBVIOUS
<1>2. q \in Seq(Entries) /\ i \in 1..Len(q) /\ q[i] \in Entries
  BY <1>1, BackendParts, LenProperties, ElementOfSeq
<1>3. PICK r : r = RemoveAt(q, i)
  OBVIOUS
<1>4. r \in Seq(Entries) /\ Without(q, i, r)
  BY <1>2, <1>3, RemovedOne
<1>5. HowMany(q, QueuedOf(p))
        = IF q[i] \in QueuedOf(p) THEN HowMany(r, QueuedOf(p)) + 1 ELSE HowMany(r, QueuedOf(p))
  BY <1>2, <1>4, CountsWithout
<1>6. HowMany(r, QueuedOf(p)) \in Nat
  BY <1>4, HowManyIs
<1>7. q[i] \in QueuedOf(p) <=> q[i].p = p
  BY <1>2 DEF QueuedOf
<1>8. QED
  BY <1>1, <1>3, <1>5, <1>6, <1>7

LEMMA PersonRemovesKnows ==
    ASSUME IInv, KInv, NEW i, PersonRemoves(i)
    PROVE  KInv'
<1> DEFINE e == backend.queue[i]
           r == RemoveAt(backend.queue, i)
           d == Append(backend.dropped, e.p)
           b == [backend EXCEPT !.queue = r]
           c == [b EXCEPT !.dropped = d]
           verdict == <<Outcome("rejected", e.p)>>
           none == <<>>
<1>1. /\ i \in DOMAIN backend.queue /\ choosing # "choosing" /\ UNCHANGED <<session, past>>
      /\ IF e.by = "user" THEN Judged(none, c) ELSE Judged(verdict, b)
  BY BackendParts DEF PersonRemoves, Between, Backends
<1>2. r \in Seq(Entries) /\ e \in Entries
  BY <1>1, ShorterQueue
<1>3. e.p \in Passages
  BY <1>2 DEF Entries
<1>4. verdict \in Seq(Verdict) /\ none \in Seq(Verdict)
  BY <1>3, VerdictOf, EmptySeq
<1>5. d \in Seq(Passages)
  BY <1>3, BackendParts, AppendProperties
<1>5a. PICK x \in Passages : x = e.p
  BY <1>3
<1>6. \A p : HowMany(r, QueuedOf(p)) = HowMany(backend.queue, QueuedOf(p)) + (IF p = x THEN -1 ELSE 0)
  BY <1>1, <1>5a, QueueWithout
<1>7. \A p : HowMany(d, {p}) = HowMany(backend.dropped, {p}) + (IF p = x THEN 1 ELSE 0)
  <2> TAKE p
  <2>1. d = Append(backend.dropped, x)
    BY <1>5a
  <2>2. HowMany(Append(backend.dropped, x), {p})
          = IF x \in {p} THEN HowMany(backend.dropped, {p}) + 1 ELSE HowMany(backend.dropped, {p})
    BY BackendParts, CountsAppended
  <2>3. HowMany(backend.dropped, {p}) \in Nat
    BY NowBackend, AmountsAre
  <2>4. QED
    BY <2>1, <2>2, <2>3
<1>8. /\ \A p : HowMany(verdict, Says(p)) = (IF p = x THEN 1 ELSE 0) /\ HowMany(verdict, Asks(p)) = 0
      /\ \A p : HowMany(none, Says(p)) = 0 /\ HowMany(none, Asks(p)) = 0
  BY <1>5a, OneSaid, NoneCounted
<1> HIDE DEF r, d, verdict, none
<1>9. /\ b \in Backends /\ b.queue = r /\ b.out = backend.out /\ b.dropped = backend.dropped
      /\ b.outcomes = backend.outcomes
      /\ c \in Backends /\ c.queue = r /\ c.out = backend.out /\ c.dropped = d
      /\ c.outcomes = backend.outcomes
  BY <1>2, <1>5, BackendParts DEF Backends
<1> HIDE DEF b, c, e
<1>10. PICK f \in Backends, said \in Seq(Verdict) :
          /\ Judged(said, f) /\ f.queue = r /\ f.out = backend.out /\ f.outcomes = backend.outcomes
          /\ \/ f.dropped = d /\ said = none
             \/ f.dropped = backend.dropped /\ said = verdict
  <2>1. CASE e.by = "user"
    BY <1>1, <1>4, <1>9, <2>1
  <2>2. CASE e.by # "user"
    BY <1>1, <1>4, <1>9, <2>2
  <2>3. QED
    BY <2>1, <2>2
<1>11. PICK a : a = backend'
  OBVIOUS
<1>12. /\ a \in Backends /\ Grown(history, history') /\ said \in Seq(Outcomes)
       /\ a.queue = r /\ a.out = backend.out /\ a.dropped = f.dropped
       /\ a.outcomes = backend.outcomes \o said
       /\ history.written =>
              \A j \in 1..Len(said) : said[j].what # "queued" => Has(history', said[j])
  BY <1>10, <1>11, JudgedSays
<1>13. ASSUME NEW p \in Passages
       PROVE  Fits(backend, a, p)
  <2>1. PICK one \in Int : one = IF p = x THEN 1 ELSE 0
    OBVIOUS
  <2>2. PICK less \in Int : less = IF p = x THEN -1 ELSE 0
    OBVIOUS
  <2>3. PICK zero \in Int : zero = 0
    OBVIOUS
  <2>4. /\ HowMany(backend.dropped, {p}) \in Nat /\ HowMany(backend.out, UncountedOf(p)) \in Nat
        /\ HowMany(backend.out, OutOf(p)) \in Nat
    BY NowBackend, AmountsAre
  <2>5. less + one = 0
    BY <2>1, <2>2
  <2>6. /\ HowMany(a.outcomes, Says(p)) = HowMany(backend.outcomes, Says(p)) + HowMany(said, Says(p))
        /\ HowMany(a.outcomes, Asks(p)) = HowMany(backend.outcomes, Asks(p)) + HowMany(said, Asks(p))
    BY <1>12, NowBackend, SaidCounts
  <2>7. HowMany(a.queue, QueuedOf(p)) = HowMany(backend.queue, QueuedOf(p)) + less
    BY <1>6, <1>12, <2>2
  <2>8. CASE f.dropped = d /\ said = none
    <3>0. /\ HowMany(a.dropped, {p}) = HowMany(backend.dropped, {p}) + one
          /\ HowMany(said, Says(p)) = 0 /\ HowMany(said, Asks(p)) = 0
      BY <1>7, <1>8, <1>12, <2>1, <2>8
    <3>1. Shifts(backend, a, p, less, one, zero, zero, zero, zero)
      <4>1. HowMany(backend.outcomes, Says(p)) \in Nat /\ HowMany(backend.outcomes, Asks(p)) \in Nat
        BY NowBackend, AmountsAre DEF Asked
      <4>2. QED
        BY <1>12, <2>3, <2>4, <2>6, <2>7, <3>0, <4>1 DEF Shifts
    <3>2. less + one + zero + zero <= zero
      BY <2>3, <2>5
    <3>3. QED
      BY <3>1, <3>2, NowBackend, ShiftsFit
  <2>9. CASE f.dropped = backend.dropped /\ said = verdict
    <3>1. Shifts(backend, a, p, less, zero, one, zero, zero, zero)
      BY <1>8, <1>12, <2>1, <2>3, <2>4, <2>6, <2>7, <2>9 DEF Shifts
    <3>2. less + zero + one + zero <= zero
      BY <2>3, <2>5
    <3>3. QED
      BY <3>1, <3>2, NowBackend, ShiftsFit
  <2>10. QED
    BY <1>10, <2>8, <2>9
<1>14. OneCountedAtMost(a)
  BY <1>12 DEF KInv, OneCountedAtMost
<1>15. UNCHANGED session /\ choosing # "choosing" /\ past'.told = past.told
       /\ past'.missed = past.missed /\ past'.forgot = past.forgot /\ past'.handed = past.handed
  BY <1>1
<1>16. QED
  BY <1>11, <1>12, <1>13, <1>14, <1>15, FittingKnows

LEMMA AdmitKnows ==
    ASSUME IInv, KInv, Admit
    PROVE  KInv'
<1> DEFINE x == Head(backend.queue).p
           y == [p |-> x, mixing |-> TRUE, counted |-> FALSE]
           q == Tail(backend.queue)
           o == Append(backend.out, y)
           d == Append(backend.dropped, x)
           none == <<>>
<1>1. backend.queue \in Seq(Entries) /\ backend.queue # <<>>
      /\ choosing # "choosing" /\ UNCHANGED <<session, history, past>>
  BY BackendParts DEF Admit, Between
<1>2. q \in Seq(Entries) /\ x \in Passages /\ Head(backend.queue) \in Entries
      /\ Head(backend.queue) = backend.queue[1]
  <2>1. Head(backend.queue) \in Entries /\ Tail(backend.queue) \in Seq(Entries)
        /\ Head(backend.queue) = backend.queue[1]
    BY <1>1, HeadTailProperties
  <2>2. QED
    BY <2>1 DEF Entries
<1>3. \/ backend' = [backend EXCEPT !.queue = q, !.out = o]
      \/ backend' = [backend EXCEPT !.queue = q, !.dropped = d]
  BY BackendParts DEF Admit, Backends
<1>4. \A p : HowMany(q, QueuedOf(p)) = HowMany(backend.queue, QueuedOf(p)) + (IF p = x THEN -1 ELSE 0)
  <2> TAKE p
  <2>1. HowMany(backend.queue, QueuedOf(p))
          = IF backend.queue[1] \in QueuedOf(p) THEN HowMany(Tail(backend.queue), QueuedOf(p)) + 1
            ELSE HowMany(Tail(backend.queue), QueuedOf(p))
    BY <1>1, CountsFirst
  <2>2. backend.queue[1] \in QueuedOf(p) <=> p = x
    BY <1>2 DEF QueuedOf
  <2>3. HowMany(q, QueuedOf(p)) \in Nat
    BY <1>2, HowManyIs
  <2>4. QED
    BY <2>1, <2>2, <2>3
<1> HIDE DEF x, q
<1>5. y \in OutEntries /\ o \in Seq(OutEntries) /\ d \in Seq(Passages)
  <2>1. y \in OutEntries
    BY <1>2 DEF OutEntries
  <2>2. QED
    BY <1>2, <2>1, BackendParts, AppendProperties
<1>6. \A p : HowMany(d, {p}) = HowMany(backend.dropped, {p}) + (IF p = x THEN 1 ELSE 0)
  <2> TAKE p
  <2>1. HowMany(Append(backend.dropped, x), {p})
          = IF x \in {p} THEN HowMany(backend.dropped, {p}) + 1 ELSE HowMany(backend.dropped, {p})
    BY <1>2, BackendParts, CountsAppended
  <2>2. HowMany(backend.dropped, {p}) \in Nat
    BY NowBackend, AmountsAre
  <2>3. QED
    BY <2>1, <2>2
<1>7. \A p : /\ HowMany(o, UncountedOf(p)) = HowMany(backend.out, UncountedOf(p)) + (IF p = x THEN 1 ELSE 0)
             /\ HowMany(o, OutOf(p)) = HowMany(backend.out, OutOf(p)) + (IF p = x THEN 1 ELSE 0)
  <2> TAKE p
  <2>1. (y \in UncountedOf(p) <=> p = x) /\ (y \in OutOf(p) <=> p = x)
    BY <1>5 DEF UncountedOf, OutOf
  <2> HIDE DEF y
  <2>2. \A S : HowMany(Append(backend.out, y), S)
                 = IF y \in S THEN HowMany(backend.out, S) + 1 ELSE HowMany(backend.out, S)
    BY <1>5, BackendParts, CountsAppended
  <2>3. HowMany(backend.out, UncountedOf(p)) \in Nat /\ HowMany(backend.out, OutOf(p)) \in Nat
    BY NowBackend, AmountsAre
  <2>4. QED
    BY <2>1, <2>2, <2>3
<1>8. ASSUME OneCountedAtMost(backend)
      PROVE  \A i \in 2..Len(o) : ~o[i].counted
  <2>1. Len(o) = Len(backend.out) + 1 /\ Len(backend.out) \in Nat
        /\ (\A i \in 1..Len(backend.out) : o[i] = backend.out[i]) /\ o[Len(backend.out) + 1] = y
    BY <1>5, BackendParts, AppendProperties, LenProperties
  <2>2. ~y.counted
    OBVIOUS
  <2> HIDE DEF o, y
  <2>3. \A i \in 2..Len(o) :
            \/ i \in 2..Len(backend.out) /\ i \in 1..Len(backend.out)
            \/ i = Len(backend.out) + 1
    BY <2>1
  <2>4. QED
    BY <1>8, <2>1, <2>2, <2>3 DEF OneCountedAtMost
<1>9. none \in Seq(Outcomes) /\ Len(none) = 0 /\ backend.outcomes = backend.outcomes \o none
      /\ none \in Seq(Verdict)
  BY BackendParts, EmptySeq, ConcatEmptySeq
<1> HIDE DEF o, d, none
<1>10. PICK a : a = backend'
  OBVIOUS
<1>11. /\ a \in Backends /\ a.queue = q /\ a.outcomes = backend.outcomes
       /\ \/ a.out = o /\ a.dropped = backend.dropped
          \/ a.out = backend.out /\ a.dropped = d
  BY <1>2, <1>3, <1>5, <1>10, BackendParts DEF Backends
<1>12. OneCountedAtMost(a)
  BY <1>8, <1>11 DEF KInv, OneCountedAtMost
<1>13. ASSUME NEW p \in Passages
       PROVE  Fits(backend, a, p)
  <2>1. PICK one \in Int : one = IF p = x THEN 1 ELSE 0
    OBVIOUS
  <2>2. PICK less \in Int : less = IF p = x THEN -1 ELSE 0
    OBVIOUS
  <2>3. PICK zero \in Int : zero = 0
    OBVIOUS
  <2>4. /\ HowMany(backend.dropped, {p}) \in Nat /\ HowMany(backend.out, UncountedOf(p)) \in Nat
        /\ HowMany(backend.out, OutOf(p)) \in Nat /\ HowMany(backend.outcomes, Says(p)) \in Nat
        /\ HowMany(backend.outcomes, Asks(p)) \in Nat
    BY NowBackend, AmountsAre DEF Asked
  <2>5. less + one = 0
    BY <2>1, <2>2
  <2>6. HowMany(a.queue, QueuedOf(p)) = HowMany(backend.queue, QueuedOf(p)) + less
    BY <1>4, <1>11, <2>2
  <2>7. CASE a.out = o /\ a.dropped = backend.dropped
    <3>1. Shifts(backend, a, p, less, zero, zero, zero, one, one)
      BY <1>7, <1>11, <2>1, <2>3, <2>4, <2>6, <2>7 DEF Shifts
    <3>2. less + zero + zero + one <= zero
      BY <2>3, <2>5
    <3>3. QED
      BY <3>1, <3>2, NowBackend, ShiftsFit
  <2>8. CASE a.out = backend.out /\ a.dropped = d
    <3>0. HowMany(a.dropped, {p}) = HowMany(backend.dropped, {p}) + one
      BY <1>6, <2>1, <2>8
    <3>1. Shifts(backend, a, p, less, one, zero, zero, zero, zero)
      BY <1>11, <2>3, <2>4, <2>6, <2>8, <3>0 DEF Shifts
    <3>2. less + one + zero + zero <= zero
      BY <2>3, <2>5
    <3>3. QED
      BY <3>1, <3>2, NowBackend, ShiftsFit
  <2>9. QED
    BY <1>11, <2>7, <2>8
<1>14. UNCHANGED session /\ choosing # "choosing" /\ past'.told = past.told
       /\ past'.missed = past.missed /\ past'.forgot = past.forgot /\ past'.handed = past.handed
       /\ Grown(history, history') /\ a.outcomes = backend.outcomes \o none
       /\ (\A j \in 1..Len(none) : none[j].what # "queued" => Has(history', none[j]))
  BY <1>1, <1>9, <1>11, BackendParts
<1>15. QED
  BY <1>9, <1>10, <1>11, <1>12, <1>13, <1>14, FittingKnows

LEMMA MixedOutKnows ==
    ASSUME IInv, KInv, MixedOut
    PROVE  KInv'
<1>1. PICK i \in DOMAIN backend.out : backend' = [backend EXCEPT !.out[i].mixing = FALSE]
  BY DEF MixedOut
<1>2. choosing # "choosing" /\ UNCHANGED <<session, history, past>>
  BY DEF MixedOut, Between
<1> DEFINE x == [backend.out[i] EXCEPT !.mixing = FALSE]
           o == [backend.out EXCEPT ![i] = x]
           none == <<>>
<1>3. backend.out \in Seq(OutEntries) /\ i \in 1..Len(backend.out) /\ backend.out[i] \in OutEntries
  BY BackendParts, LenProperties, ElementOfSeq
<1>4. x \in OutEntries /\ x.p = backend.out[i].p /\ x.counted = backend.out[i].counted
  BY <1>3 DEF OutEntries
<1>5. backend' = [backend EXCEPT !.out = o]
  BY <1>1
<1> HIDE DEF x
<1>6. o \in Seq(OutEntries) /\ Len(o) = Len(backend.out)
      /\ \A j \in 1..Len(backend.out) : o[j] = IF j = i THEN x ELSE backend.out[j]
  BY <1>3, <1>4, ExceptSeq
<1>7. \A p : /\ HowMany(o, UncountedOf(p)) = HowMany(backend.out, UncountedOf(p))
             /\ HowMany(o, OutOf(p)) = HowMany(backend.out, OutOf(p))
  <2> TAKE p
  <2>1. (x \in UncountedOf(p) <=> backend.out[i] \in UncountedOf(p))
        /\ (x \in OutOf(p) <=> backend.out[i] \in OutOf(p))
    BY <1>3, <1>4 DEF UncountedOf, OutOf
  <2>2. \A S : HowMany(o, S) + (IF backend.out[i] \in S THEN 1 ELSE 0)
                 = HowMany(backend.out, S) + (IF x \in S THEN 1 ELSE 0)
    BY <1>3, <1>4, CountsReplaced
  <2>3. \A S : HowMany(o, S) \in Nat /\ HowMany(backend.out, S) \in Nat
    BY <1>3, <1>6, HowManyIs
  <2> HIDE DEF o
  <2>4. ASSUME NEW S, x \in S <=> backend.out[i] \in S
        PROVE  HowMany(o, S) = HowMany(backend.out, S)
    <3>1. PICK m \in Nat, n \in Nat : m = HowMany(o, S) /\ n = HowMany(backend.out, S)
      BY <2>3
    <3>2. m + (IF backend.out[i] \in S THEN 1 ELSE 0) = n + (IF x \in S THEN 1 ELSE 0)
      BY <2>2, <3>1
    <3>3. m = n
      BY <2>4, <3>2
    <3>4. QED
      BY <3>1, <3>3
  <2>5. QED
    BY <2>1, <2>4
<1>8. none \in Seq(Outcomes) /\ Len(none) = 0 /\ backend.outcomes = backend.outcomes \o none
  BY BackendParts, EmptySeq, ConcatEmptySeq
<1> HIDE DEF o, none
<1>9. PICK a : a = backend'
  OBVIOUS
<1>10. /\ a \in Backends /\ a.queue = backend.queue /\ a.outcomes = backend.outcomes
       /\ a.out = o /\ a.dropped = backend.dropped
  BY <1>5, <1>6, <1>9, BackendParts DEF Backends
<1>11. OneCountedAtMost(a)
  <2>1. OneCountedAtMost(backend)
    BY DEF KInv
  <2>2. \A j \in 2..Len(backend.out) : j \in 1..Len(backend.out)
    OBVIOUS
  <2>3. QED
    BY <1>4, <1>6, <1>10, <2>1, <2>2 DEF OneCountedAtMost
<1>12. \A p \in Passages : Fits(backend, a, p)
  <2> TAKE p \in Passages
  <2>1. PICK zero \in Int : zero = 0
    OBVIOUS
  <2>2. /\ HowMany(backend.dropped, {p}) \in Nat /\ HowMany(backend.out, UncountedOf(p)) \in Nat
        /\ HowMany(backend.out, OutOf(p)) \in Nat /\ HowMany(backend.outcomes, Says(p)) \in Nat
        /\ HowMany(backend.outcomes, Asks(p)) \in Nat /\ HowMany(backend.queue, QueuedOf(p)) \in Nat
    BY NowBackend, AmountsAre DEF Asked
  <2>3. Shifts(backend, a, p, zero, zero, zero, zero, zero, zero)
    BY <1>7, <1>10, <2>1, <2>2 DEF Shifts
  <2>4. zero + zero + zero + zero <= zero
    BY <2>1
  <2>5. QED
    BY <2>3, <2>4, NowBackend, ShiftsFit
<1>13. UNCHANGED session /\ choosing # "choosing" /\ past'.told = past.told
       /\ past'.missed = past.missed /\ past'.forgot = past.forgot /\ past'.handed = past.handed
       /\ Grown(history, history') /\ a.outcomes = backend.outcomes \o none
       /\ (\A j \in 1..Len(none) : none[j].what # "queued" => Has(history', none[j]))
  BY <1>2, <1>8, <1>10, BackendParts
<1>14. QED
  BY <1>8, <1>9, <1>10, <1>11, <1>12, <1>13, FittingKnows

\* What is heard first, and what waits behind it.
FirstOf(b, p, rest, said) ==
    LET y == b.out[1] IN
    /\ HowMany(b.out, OutOf(p)) = HowMany(rest, OutOf(p)) + (IF p = y.p THEN 1 ELSE 0)
    /\ HowMany(b.out, UncountedOf(p))
         = HowMany(rest, OutOf(p)) + (IF p = y.p /\ ~y.counted THEN 1 ELSE 0)
    /\ HowMany(rest, UncountedOf(p)) = HowMany(rest, OutOf(p))
    /\ HowMany(Ids(rest), {p}) = HowMany(rest, OutOf(p))
    /\ HowMany(said, Says(p)) = (IF p = y.p /\ ~y.counted THEN 1 ELSE 0)
    /\ HowMany(said, Asks(p)) = 0
    /\ HowMany(rest, OutOf(p)) \in Nat

LEMMA FirstOut ==
    ASSUME IInv, OneCountedAtMost(backend), backend.out # <<>>
    PROVE  /\ \A j \in 1..Len(Tail(backend.out)) : ~Tail(backend.out)[j].counted
           /\ \A p : FirstOf(backend, p, Tail(backend.out), Verdicts(backend.out[1]))
<1>1. PICK o : o = backend.out
  OBVIOUS
<1>2. PICK r : r = Tail(o)
  OBVIOUS
<1>3. PICK y : y = o[1]
  OBVIOUS
<1>4. /\ o \in Seq(OutEntries) /\ o # <<>> /\ r \in Seq(OutEntries) /\ y \in OutEntries
      /\ y.p \in Passages
  BY <1>1, <1>2, <1>3, HeardFirst, BackendParts
<1>5. Len(r) = Len(o) - 1 /\ (\A j \in 1..Len(r) : r[j] = o[j + 1]) /\ Len(o) \in Nat /\ DOMAIN r = 1..Len(r)
  BY <1>2, <1>4, HeadTailProperties, LenProperties
<1>6. \A j \in 1..Len(r) : ~r[j].counted
  <2>1. \A j \in 1..Len(r) : j + 1 \in 2..Len(o)
    BY <1>5
  <2>2. QED
    BY <1>1, <1>5, <2>1 DEF OneCountedAtMost
<1>7. \A S : HowMany(o, S) = IF y \in S THEN HowMany(r, S) + 1 ELSE HowMany(r, S)
  BY <1>2, <1>3, <1>4, CountsFirst
<1>8. ASSUME NEW p
      PROVE  FirstOf(backend, p, r, Verdicts(y))
  <2>1. (y \in OutOf(p) <=> p = y.p) /\ (y \in UncountedOf(p) <=> p = y.p /\ ~y.counted)
    BY <1>4 DEF OutOf, UncountedOf
  <2>2. HowMany(r, UncountedOf(p)) = HowMany(r, OutOf(p))
    <3>1. \A j \in 1..Len(r) : r[j] \in OutEntries
      BY <1>4, LenProperties, ElementOfSeq
    <3>2. {j \in DOMAIN r : r[j] \in UncountedOf(p)} = {j \in DOMAIN r : r[j] \in OutOf(p)}
      BY <1>5, <1>6, <3>1 DEF OutOf, UncountedOf
    <3>3. QED
      BY <3>2 DEF HowMany
  <2>3. HowMany(Ids(r), {p}) = HowMany(r, OutOf(p))
    <3>1. \A x : HowMany(Ids(r), {x}) = HowMany(r, {e \in OutEntries : e.p = x})
      BY <1>4, CountsOfIds
    <3>2. OutOf(p) = {e \in OutEntries : e.p = p}
      BY DEF OutOf
    <3>3. QED
      BY <3>1, <3>2
  <2>4. HowMany(r, OutOf(p)) \in Nat
    BY <1>4, HowManyIs
  <2>5. /\ HowMany(Verdicts(y), Says(p)) = (IF p = y.p /\ ~y.counted THEN 1 ELSE 0)
        /\ HowMany(Verdicts(y), Asks(p)) = 0
    <3>1. CASE y.counted
      BY <3>1, NoneCounted DEF Verdicts
    <3>2. CASE ~y.counted
      <4>1. PICK x \in Passages : x = y.p
        BY <1>4
      <4>2. Verdicts(y) = <<Outcome("rejected", x)>>
        BY <3>2, <4>1 DEF Verdicts
      <4>3. /\ HowMany(<<Outcome("rejected", x)>>, Says(p)) = (IF p = x THEN 1 ELSE 0)
            /\ HowMany(<<Outcome("rejected", x)>>, Asks(p)) = 0
        BY OneSaid
      <4>4. QED
        BY <3>2, <4>1, <4>2, <4>3
    <3>3. QED
      BY <3>1, <3>2
  <2>6. /\ HowMany(o, OutOf(p)) = HowMany(r, OutOf(p)) + (IF p = y.p THEN 1 ELSE 0)
        /\ HowMany(o, UncountedOf(p)) = HowMany(r, OutOf(p)) + (IF p = y.p /\ ~y.counted THEN 1 ELSE 0)
    BY <1>7, <2>1, <2>2, <2>4
  <2>7. QED
    BY <1>1, <1>3, <2>2, <2>3, <2>4, <2>5, <2>6 DEF FirstOf
<1>9. QED
  BY <1>1, <1>2, <1>3, <1>6, <1>8

LEMMA DepartsKnows ==
    ASSUME IInv, KInv, Departs
    PROVE  KInv'
<1> DEFINE b == [backend EXCEPT !.out = Tail(@)]
           rest == Tail(backend.out)
           said == Verdicts(backend.out[1])
<1>1. backend.out # <<>> /\ UNCHANGED <<session, past>> /\ Judged(said, b) /\ choosing # "choosing"
  BY DEF Departs, Between
<1>2. rest \in Seq(OutEntries) /\ said \in Seq(Verdict)
  BY <1>1, HeardFirst
<1>3. /\ \A j \in 1..Len(rest) : ~rest[j].counted
      /\ \A p : FirstOf(backend, p, rest, said)
  BY <1>1, FirstOut DEF KInv
<1>4. /\ b \in Backends /\ b.queue = backend.queue /\ b.dropped = backend.dropped
      /\ b.out = rest /\ b.outcomes = backend.outcomes
  BY <1>2, BackendParts DEF Backends
<1> HIDE DEF b, said, rest
<1>5. PICK a : a = backend'
  OBVIOUS
<1>6. /\ a \in Backends /\ Grown(history, history') /\ said \in Seq(Outcomes)
      /\ a.queue = backend.queue /\ a.out = rest /\ a.dropped = backend.dropped
      /\ a.outcomes = backend.outcomes \o said
      /\ history.written =>
             \A j \in 1..Len(said) : said[j].what # "queued" => Has(history', said[j])
  BY <1>1, <1>2, <1>4, <1>5, JudgedSays
<1>7. OneCountedAtMost(a)
  <2>1. \A j \in 2..Len(rest) : j \in 1..Len(rest)
    OBVIOUS
  <2>2. QED
    BY <1>3, <1>6, <2>1 DEF OneCountedAtMost
<1>8. \A p \in Passages : Fits(backend, a, p)
  <2> TAKE p \in Passages
  <2>1. PICK y : y = backend.out[1]
    OBVIOUS
  <2>2. PICK one \in Int : one = IF p = y.p /\ ~y.counted THEN 1 ELSE 0
    OBVIOUS
  <2>3. PICK less \in Int : less = IF p = y.p /\ ~y.counted THEN -1 ELSE 0
    OBVIOUS
  <2>4. PICK fewer \in Int : fewer = IF p = y.p THEN -1 ELSE 0
    OBVIOUS
  <2>5. PICK zero \in Int : zero = 0
    OBVIOUS
  <2>6. /\ HowMany(backend.dropped, {p}) \in Nat /\ HowMany(backend.outcomes, Says(p)) \in Nat
        /\ HowMany(backend.outcomes, Asks(p)) \in Nat /\ HowMany(backend.queue, QueuedOf(p)) \in Nat
    BY NowBackend, AmountsAre DEF Asked
  <2>7. /\ HowMany(a.outcomes, Says(p)) = HowMany(backend.outcomes, Says(p)) + HowMany(said, Says(p))
        /\ HowMany(a.outcomes, Asks(p)) = HowMany(backend.outcomes, Asks(p)) + HowMany(said, Asks(p))
    BY <1>6, NowBackend, SaidCounts
  <2>8. FirstOf(backend, p, rest, said)
    BY <1>3
  <2>9. /\ HowMany(said, Says(p)) = one /\ HowMany(said, Asks(p)) = zero
        /\ HowMany(a.out, UncountedOf(p)) = HowMany(backend.out, UncountedOf(p)) + less
        /\ HowMany(a.out, OutOf(p)) = HowMany(backend.out, OutOf(p)) + fewer
    BY <1>6, <2>1, <2>2, <2>3, <2>4, <2>5, <2>8 DEF FirstOf
  <2>10. Shifts(backend, a, p, zero, zero, one, zero, less, fewer)
    BY <1>6, <2>5, <2>6, <2>7, <2>9 DEF Shifts
  <2>11. zero + zero + one + less <= zero /\ zero + zero + one + fewer <= zero
    BY <2>2, <2>3, <2>4, <2>5
  <2>12. QED
    BY <2>10, <2>11, NowBackend, ShiftsFit
<1>9. UNCHANGED session /\ choosing # "choosing" /\ past'.told = past.told
      /\ past'.missed = past.missed /\ past'.forgot = past.forgot /\ past'.handed = past.handed
  BY <1>1
<1>10. QED
  BY <1>5, <1>6, <1>7, <1>8, <1>9, FittingKnows

LEMMA SkipKnows ==
    ASSUME IInv, KInv, Skip
    PROVE  KInv'
<1> DEFINE none == <<>>
           rest == Tail(backend.out)
           d == backend.dropped \o Ids(rest)
           b == [backend EXCEPT !.out = none, !.dropped = d]
           said == Verdicts(backend.out[1])
<1>1. backend.out # <<>> /\ UNCHANGED <<session, past>> /\ Judged(said, b) /\ choosing # "choosing"
  BY DEF Skip, Between
<1>2. rest \in Seq(OutEntries) /\ said \in Seq(Verdict)
  BY <1>1, HeardFirst
<1>3. \A p : FirstOf(backend, p, rest, said)
  BY <1>1, FirstOut DEF KInv
<1> HIDE DEF said, rest
<1>4. Ids(rest) \in Seq(Passages)
  <2>1. \A x \in OutEntries : x.p \in Passages
    BY DEF OutEntries
  <2>2. QED
    BY <1>2, <2>1, IdsArePassages
<1>5. d \in Seq(Passages) /\ none \in Seq(OutEntries)
  BY <1>4, BackendParts, ConcatProperties, EmptySeq
<1>6. \A p : HowMany(d, {p}) = HowMany(backend.dropped, {p}) + HowMany(Ids(rest), {p})
  BY <1>4, BackendParts, CountsJoined
<1>7. \A S : HowMany(none, S) = 0
  BY NoneCounted
<1>7a. Len(none) = 0
  OBVIOUS
<1> HIDE DEF d, none
<1>8. /\ b \in Backends /\ b.queue = backend.queue /\ b.dropped = d
      /\ b.out = none /\ b.outcomes = backend.outcomes
  BY <1>5, BackendParts DEF Backends
<1> HIDE DEF b
<1>9. PICK a : a = backend'
  OBVIOUS
<1>10. /\ a \in Backends /\ Grown(history, history') /\ said \in Seq(Outcomes)
       /\ a.queue = backend.queue /\ a.out = none /\ a.dropped = d
       /\ a.outcomes = backend.outcomes \o said
       /\ history.written =>
              \A j \in 1..Len(said) : said[j].what # "queued" => Has(history', said[j])
  BY <1>1, <1>2, <1>8, <1>9, JudgedSays
<1>11. OneCountedAtMost(a)
  BY <1>7a, <1>10 DEF OneCountedAtMost
<1>12. \A p \in Passages : Fits(backend, a, p)
  <2> TAKE p \in Passages
  <2>1. PICK y : y = backend.out[1]
    OBVIOUS
  <2>2. PICK n \in Int : n = HowMany(rest, OutOf(p))
    BY <1>3 DEF FirstOf
  <2>3. PICK one \in Int : one = IF p = y.p /\ ~y.counted THEN 1 ELSE 0
    OBVIOUS
  <2>4. PICK less \in Int : less = (IF p = y.p /\ ~y.counted THEN -1 ELSE 0) - n
    OBVIOUS
  <2>5. PICK fewer \in Int : fewer = (IF p = y.p THEN -1 ELSE 0) - n
    OBVIOUS
  <2>6. PICK zero \in Int : zero = 0
    OBVIOUS
  <2>7. /\ HowMany(backend.dropped, {p}) \in Nat /\ HowMany(backend.outcomes, Says(p)) \in Nat
        /\ HowMany(backend.outcomes, Asks(p)) \in Nat /\ HowMany(backend.queue, QueuedOf(p)) \in Nat
    BY NowBackend, AmountsAre DEF Asked
  <2>8. /\ HowMany(a.outcomes, Says(p)) = HowMany(backend.outcomes, Says(p)) + HowMany(said, Says(p))
        /\ HowMany(a.outcomes, Asks(p)) = HowMany(backend.outcomes, Asks(p)) + HowMany(said, Asks(p))
    BY <1>10, NowBackend, SaidCounts
  <2>9. FirstOf(backend, p, rest, said)
    BY <1>3
  <2>10. /\ HowMany(said, Says(p)) = one /\ HowMany(said, Asks(p)) = zero
         /\ HowMany(Ids(rest), {p}) = n
    BY <2>1, <2>2, <2>3, <2>6, <2>9 DEF FirstOf
  <2>11. /\ HowMany(backend.out, UncountedOf(p)) + less = 0
         /\ HowMany(backend.out, OutOf(p)) + fewer = 0
    BY <2>1, <2>2, <2>4, <2>5, <2>9 DEF FirstOf
  <2>12. Shifts(backend, a, p, zero, n, one, zero, less, fewer)
    <3>1. HowMany(a.dropped, {p}) = HowMany(backend.dropped, {p}) + n
      BY <1>6, <1>10, <2>10
    <3>2. /\ HowMany(a.out, UncountedOf(p)) = HowMany(backend.out, UncountedOf(p)) + less
          /\ HowMany(a.out, OutOf(p)) = HowMany(backend.out, OutOf(p)) + fewer
      BY <1>7, <1>10, <2>11
    <3>3. QED
      BY <1>10, <2>6, <2>7, <2>8, <2>10, <3>1, <3>2 DEF Shifts
  <2>13. zero + n + one + less <= zero /\ zero + n + one + fewer <= zero
    BY <2>3, <2>4, <2>5, <2>6
  <2>14. QED
    BY <2>12, <2>13, NowBackend, ShiftsFit
<1>13. UNCHANGED session /\ choosing # "choosing" /\ past'.told = past.told
       /\ past'.missed = past.missed /\ past'.forgot = past.forgot /\ past'.handed = past.handed
  BY <1>1
<1>14. QED
  BY <1>9, <1>10, <1>11, <1>12, <1>13, FittingKnows

\* A passage counted has had its say: of those not counted yet there is one
\* less; and it finds a mark, since there was one for each of those.
LEMMA CountedKnows ==
    ASSUME IInv, KInv, Counted
    PROVE  KInv'
<1> DEFINE y == backend.out[1]
           x == [y EXCEPT !.counted = TRUE]
           o == [backend.out EXCEPT ![1] = x]
           b == [backend EXCEPT !.out = o]
           said == <<Outcome("played", y.p)>>
<1>1. backend.out # <<>> /\ ~y.counted /\ UNCHANGED <<session, past>> /\ choosing # "choosing"
      /\ Judged(<<Outcome("played", backend.out[1].p)>>, [backend EXCEPT !.out[1].counted = TRUE])
  BY DEF Counted, Between
<1>2. /\ 1 \in 1..Len(backend.out) /\ y \in OutEntries /\ y.p \in Passages
      /\ backend.out \in Seq(OutEntries)
  BY <1>1, HeardFirst, BackendParts
<1>3. said \in Seq(Verdict) /\ x \in OutEntries /\ x.p = y.p /\ x.counted
  BY <1>2, VerdictOf DEF OutEntries
<1>4. Judged(said, b)
  <2>1. [backend EXCEPT !.out[1].counted = TRUE] = b
    OBVIOUS
  <2>2. QED
    BY <1>1, <2>1
<1>5. PICK z \in Passages : z = y.p
  BY <1>2
<1>6. /\ said = <<Outcome("played", z)>> /\ said \in Seq(Outcomes)
      /\ \A p : HowMany(said, Says(p)) = (IF p = z THEN 1 ELSE 0) /\ HowMany(said, Asks(p)) = 0
  BY <1>5, OneSaid
<1> HIDE DEF x, y
<1>7. o \in Seq(OutEntries) /\ Len(o) = Len(backend.out)
      /\ \A j \in 1..Len(backend.out) : o[j] = IF j = 1 THEN x ELSE backend.out[j]
  BY <1>2, <1>3, ExceptSeq
<1>8. \A p : /\ HowMany(o, UncountedOf(p)) = HowMany(backend.out, UncountedOf(p)) + (IF p = z THEN -1 ELSE 0)
             /\ HowMany(o, OutOf(p)) = HowMany(backend.out, OutOf(p))
  <2> TAKE p
  <2>1. /\ x \notin UncountedOf(p) /\ (y \in UncountedOf(p) <=> p = z)
        /\ (x \in OutOf(p) <=> p = z) /\ (y \in OutOf(p) <=> p = z)
    BY <1>1, <1>2, <1>3, <1>5 DEF UncountedOf, OutOf
  <2>2. \A S : HowMany(o, S) + (IF backend.out[1] \in S THEN 1 ELSE 0)
                 = HowMany(backend.out, S) + (IF x \in S THEN 1 ELSE 0)
    <3>1. PICK i : i = 1
      OBVIOUS
    <3>2. i \in 1..Len(backend.out)
      BY <1>2, <3>1
    <3>3. \A S : HowMany([backend.out EXCEPT ![i] = x], S) + (IF backend.out[i] \in S THEN 1 ELSE 0)
                   = HowMany(backend.out, S) + (IF x \in S THEN 1 ELSE 0)
      BY <1>2, <1>3, <3>2, CountsReplaced
    <3>4. QED
      BY <3>1, <3>3
  <2>3. \A S : HowMany(o, S) \in Nat /\ HowMany(backend.out, S) \in Nat
    BY <1>2, <1>7, HowManyIs
  <2> HIDE DEF o
  <2>4. PICK m \in Nat, n \in Nat : m = HowMany(o, UncountedOf(p)) /\ n = HowMany(backend.out, UncountedOf(p))
    BY <2>3
  <2>5. PICK i \in Nat, j \in Nat : i = HowMany(o, OutOf(p)) /\ j = HowMany(backend.out, OutOf(p))
    BY <2>3
  <2>6. m + (IF p = z THEN 1 ELSE 0) = n + 0 /\ i + (IF p = z THEN 1 ELSE 0) = j + (IF p = z THEN 1 ELSE 0)
    BY <2>1, <2>2, <2>4, <2>5 DEF y
  <2>7. m = n + (IF p = z THEN -1 ELSE 0) /\ i = j
    BY <2>6
  <2>8. QED
    BY <2>4, <2>5, <2>7
<1> HIDE DEF o, said
<1>9. /\ b \in Backends /\ b.queue = backend.queue /\ b.dropped = backend.dropped
      /\ b.out = o /\ b.outcomes = backend.outcomes
  BY <1>7, BackendParts DEF Backends
<1> HIDE DEF b
<1>10. PICK a : a = backend'
  OBVIOUS
<1>11. /\ a \in Backends /\ Grown(history, history') /\ said \in Seq(Outcomes)
       /\ a.queue = backend.queue /\ a.out = o /\ a.dropped = backend.dropped
       /\ a.outcomes = backend.outcomes \o said
       /\ history.written =>
              \A j \in 1..Len(said) : said[j].what # "queued" => Has(history', said[j])
  BY <1>3, <1>4, <1>9, <1>10, JudgedSays
<1>12. OneCountedAtMost(a)
  <2>1. OneCountedAtMost(backend)
    BY DEF KInv
  <2>2. \A j \in 2..Len(backend.out) : j \in 1..Len(backend.out) /\ j # 1
    OBVIOUS
  <2>3. QED
    BY <1>7, <1>11, <2>1, <2>2 DEF OneCountedAtMost
<1>13. ASSUME NEW p \in Passages,
              Balanced(backend, past.handed, Sure(director, past.missed, p), notes[p], Once(past, p), p)
       PROVE  Balanced(a, past.handed, Sure(director, past.missed, p), notes[p], Once(past, p), p)
  <2>1. PICK sure : sure = Sure(director, past.missed, p)
    OBVIOUS
  <2>2. PICK k \in Nat : k = notes[p]
    BY NowBackend
  <2>3. PICK once \in Nat : once = Once(past, p)
    BY DEF Once
  <2>4. PICK h : h = past.handed
    OBVIOUS
  <2>5. Balanced(backend, h, sure, k, once, p)
    BY <1>13, <2>1, <2>2, <2>3, <2>4
  <2>6. /\ HowMany(a.outcomes, Says(p)) = HowMany(backend.outcomes, Says(p)) + HowMany(said, Says(p))
        /\ HowMany(a.outcomes, Asks(p)) = HowMany(backend.outcomes, Asks(p)) + HowMany(said, Asks(p))
    BY <1>11, NowBackend, SaidCounts
  <2>7. Answered(backend.outcomes, p, k) => Answered(a.outcomes, p, k)
    <3>1. k <= k
      OBVIOUS
    <3>2. QED
      BY <1>11, <3>1, BackendParts, AnsweredYet
  <2>8. PICK q \in Nat, d \in Nat, v \in Nat, g \in Nat, u \in Nat, n \in Nat :
            /\ q = HowMany(backend.queue, QueuedOf(p)) /\ d = HowMany(backend.dropped, {p})
            /\ v = HowMany(backend.outcomes, Says(p)) /\ g = HowMany(backend.outcomes, Asks(p))
            /\ u = HowMany(backend.out, UncountedOf(p)) /\ n = HowMany(backend.out, OutOf(p))
    BY NowBackend, AmountsAre DEF Asked
  <2>9. /\ Pending(backend, p) = ((q + d) + v) + u /\ Standing(backend, p) = ((q + d) + v) + n
        /\ Asked(backend, p) = g
    BY <2>8 DEF Pending, Standing, Owed, Asked
  <2>10. PICK one \in Nat : one = IF p = z THEN 1 ELSE 0
    OBVIOUS
  <2>11. /\ HowMany(a.outcomes, Says(p)) = v + one /\ HowMany(a.outcomes, Asks(p)) = g
    BY <1>6, <2>6, <2>8, <2>10
  <2>12. HowMany(a.out, UncountedOf(p)) = u - one /\ HowMany(a.out, OutOf(p)) = n
    BY <1>8, <1>11, <2>8, <2>10
  <2>13. /\ Pending(a, p) = ((q + d) + (v + one)) + (u - one)
         /\ Standing(a, p) = ((q + d) + (v + one)) + n
         /\ Asked(a, p) = g
    BY <1>11, <2>8, <2>11, <2>12 DEF Pending, Standing, Owed, Asked
  <2>14. /\ sure \/ (h /\ Answered(backend.outcomes, p, k)) \/ ((q + d) + v) + u + once <= k + g
         /\ sure \/ Answered(backend.outcomes, p, k) \/ ((q + d) + v) + n + once <= k + g
    BY <2>5, <2>9 DEF Balanced
  <2>15. ((q + d) + (v + one)) + (u - one) = ((q + d) + v) + u
    OBVIOUS
  <2>16. sure \/ (h /\ Answered(a.outcomes, p, k)) \/ Pending(a, p) + once <= k + Asked(a, p)
    BY <2>7, <2>13, <2>14, <2>15
  <2>17. CASE p # z
    <3>1. one = 0
      BY <2>10, <2>17
    <3>2. ((q + d) + (v + one)) + n = ((q + d) + v) + n
      BY <3>1
    <3>3. sure \/ Answered(a.outcomes, p, k) \/ Standing(a, p) + once <= k + Asked(a, p)
      BY <2>7, <2>13, <2>14, <3>2
    <3>4. Balanced(a, h, sure, k, once, p)
      BY <2>16, <3>3 DEF Balanced
    <3>5. QED
      BY <2>1, <2>2, <2>3, <2>4, <3>4
  <2>18. CASE p = z
    <3>1. one = 1
      BY <2>10, <2>18
    <3>2. u - one \in Nat
      <4>1. HowMany(o, UncountedOf(p)) \in Nat
        BY <1>7, HowManyIs
      <4>2. QED
        BY <1>11, <2>12, <4>1
    <3>3. ASSUME ((q + d) + v) + u + once <= k + g
          PROVE  Answered(a.outcomes, p, k)
      <4>1. v + one <= k + g
        BY <3>1, <3>2, <3>3
      <4>2. PICK m : m = a.outcomes
        OBVIOUS
      <4>3. m \in Seq(Outcomes)
        BY <1>11, <4>2 DEF Backends
      <4>4. PICK i : i = Len(m)
        OBVIOUS
      <4>5. i \in 1..Len(m) /\ m[i] = Outcome("played", p)
        <5>1. PICK e : e = Outcome("played", z)
          OBVIOUS
        <5>2. said = <<e>> /\ e \in Outcomes
          BY <1>6, <5>1 DEF Outcomes, Outcome
        <5>3. m = Append(backend.outcomes, e)
          BY <1>11, <4>2, <5>2, BackendParts, AppendIsConcat
        <5>4. Len(m) = Len(backend.outcomes) + 1 /\ m[Len(backend.outcomes) + 1] = e
              /\ Len(backend.outcomes) \in Nat
          BY <5>2, <5>3, BackendParts, AppendProperties, LenProperties
        <5>5. QED
          BY <2>18, <4>4, <5>1, <5>4
      <4>6. CountTo(m, Says(p), i) = v + one /\ CountTo(m, Asks(p), i) = g
        <5>1. HowMany(m, Says(p)) = CountTo(m, Says(p), i) /\ HowMany(m, Asks(p)) = CountTo(m, Asks(p), i)
          BY <4>3, <4>4, HowManyIs
        <5>2. QED
          BY <2>11, <4>2, <5>1
      <4>7. QED
        BY <4>1, <4>2, <4>5, <4>6 DEF Answered
    <3>4. sure \/ Answered(a.outcomes, p, k)
      BY <2>7, <2>14, <3>3
    <3>5. Balanced(a, h, sure, k, once, p)
      BY <2>16, <3>4 DEF Balanced
    <3>6. QED
      BY <2>1, <2>2, <2>3, <2>4, <3>5
  <2>19. QED
    BY <2>17, <2>18
<1>14. UNCHANGED session /\ choosing # "choosing" /\ past'.told = past.told
       /\ past'.missed = past.missed /\ past'.forgot = past.forgot /\ past'.handed = past.handed
  BY <1>1
<1>15. QED
  BY <1>10, <1>11, <1>12, <1>13, <1>14, BackendKnows

-----------------------------------------------------------------------------
(* What leaves the accounts alone.                                         *)

LEMMA OthersKnow ==
    ASSUME IInv, KInv, UNCHANGED <<backend, director, notes, heard, history>>,
           past'.told = past.told, past'.missed = past.missed, past'.forgot = past.forgot,
           past'.handed = past.handed, Keeps(history', heard', rebuild', past'),
           choosing' = "choosing" => choosing = "choosing"
    PROVE  KInv'
<1>1. \A p : Once(past', p) = Once(past, p)
  BY DEF Once
<1>2. Balances(backend', director', notes', past')
  BY <1>1 DEF KInv, Balances
<1>3. Recalls(director', notes', past') /\ Refuses(director', past')
  BY <1>1 DEF KInv, Recalls, Refuses
<1>4. Holds(history', backend', past')
  BY DEF KInv, Holds
<1>5. Clear(choosing', backend', past')
  BY DEF KInv, Clear
<1>6. OneCountedAtMost(backend')
  BY DEF KInv
<1>7. QED
  BY <1>2, <1>3, <1>4, <1>5, <1>6 DEF KInv

LEMMA ThreadKnows ==
    ASSUME IInv, KInv, Ask \/ BuildReads \/ BuildEnds
    PROVE  KInv'
<1>0. Keeps(history, heard, rebuild, past) /\ Holds(history, backend, past)
  BY DEF KInv
<1>1. CASE Ask
  <2>1. past' = [past EXCEPT !.builds = @ + 1] /\ rebuild' = [rebuild EXCEPT !.asked = TRUE]
        /\ UNCHANGED <<backend, director, notes, unseen, heard, history, choosing>>
    BY <1>1 DEF Ask
  <2>2. past'.told = past.told /\ past'.missed = past.missed /\ past'.forgot = past.forgot
        /\ past'.handed = past.handed
    BY <2>1, BackendParts DEF Pasts
  <2>3. rebuild'.phase = rebuild.phase /\ rebuild'.read = rebuild.read
    BY <2>1, BackendParts DEF Builds
  <2>4. Keeps(history', heard', rebuild', past')
    BY <1>0, <2>1, <2>2, <2>3 DEF Keeps
  <2>5. QED
    BY <2>1, <2>2, <2>4, OthersKnow
<1>2. CASE BuildReads
  <2> DEFINE read == [played |-> history.played, rejected |-> history.rejected]
  <2>1. rebuild' = [rebuild EXCEPT !.phase = "read", !.read = read]
        /\ UNCHANGED <<backend, director, notes, unseen, heard, history, choosing, past>>
    BY <1>2 DEF BuildReads
  <2>2. \A o : Has(history, o) => Has(read, o)
    BY DEF Has
  <2> HIDE DEF read
  <2>3. rebuild'.phase = "read" /\ rebuild'.read = read
    BY <2>1, BackendParts DEF Builds
  <2>4. Keeps(history', heard', rebuild', past')
    <3>1. history.written => \A o \in past.told : Has(history, o)
      BY <1>0 DEF Holds
    <3>2. QED
      BY <1>0, <2>1, <2>2, <2>3, <3>1 DEF Keeps
  <2>5. QED
    BY <2>1, <2>4, OthersKnow
<1>3. CASE BuildEnds
  <2>1. PICK how \in {"sent", "failed"} : rebuild' = [rebuild EXCEPT !.phase = how]
    BY <1>3 DEF BuildEnds
  <2>2. UNCHANGED <<backend, director, notes, unseen, heard, history, choosing, past>>
        /\ rebuild.phase = "read"
    BY <1>3 DEF BuildEnds
  <2>3. rebuild'.read = rebuild.read
    BY <2>1, BackendParts DEF Builds
  <2>4. Keeps(history', heard', rebuild', past')
    BY <1>0, <2>2, <2>3 DEF Keeps
  <2>5. QED
    BY <2>2, <2>4, OthersKnow
<1>4. QED
  BY <1>1, <1>2, <1>3

LEMMA RestsKnow ==
    ASSUME IInv, KInv, Chosen \/ RestOver \/ GraceOver \/ UNCHANGED vars
    PROVE  KInv'
<1>1. UNCHANGED <<backend, director, notes, heard, rebuild, history, past>>
      /\ (choosing' = "choosing" => choosing = "choosing")
  BY DEF Chosen, RestOver, GraceOver, vars
<1>2. Keeps(history', heard', rebuild', past')
  BY <1>1 DEF KInv, Keeps
<1>3. QED
  BY <1>1, <1>2, OthersKnow

-----------------------------------------------------------------------------
(* What the Director chooses is queued and marked at once.                 *)

\* What is queued is marked: the accounts stay even, when no outcome waits.
LEMMA QueuedAndMarked ==
    ASSUME NEW b \in Backends, b.outcomes = <<>>, NEW c \in Backends, NEW p,
           NEW one \in Nat, NEW zero \in Int, zero = 0,
           Shifts(b, c, p, one, zero, zero, zero, zero, zero),
           NEW sure, NEW k \in Nat, NEW pa, Balanced(b, FALSE, sure, k, Once(pa, p), p)
    PROVE  Balanced(c, FALSE, sure, k + one, Once(pa, p), p)
<1>1. ~Answered(b.outcomes, p, k)
  <2>1. Len(b.outcomes) = 0
    BY EmptySeq
  <2>2. QED
    BY <2>1 DEF Answered
<1>2. PICK once \in Nat : once = Once(pa, p)
  BY DEF Once
<1>3. PICK q \in Nat, d \in Nat, v \in Nat, g \in Nat, u \in Nat, n \in Nat :
          /\ q = HowMany(b.queue, QueuedOf(p)) /\ d = HowMany(b.dropped, {p})
          /\ v = HowMany(b.outcomes, Says(p)) /\ g = HowMany(b.outcomes, Asks(p))
          /\ u = HowMany(b.out, UncountedOf(p)) /\ n = HowMany(b.out, OutOf(p))
  BY AmountsAre DEF Asked
<1>4. /\ Pending(b, p) = ((q + d) + v) + u /\ Standing(b, p) = ((q + d) + v) + n
      /\ Asked(b, p) = g
  BY <1>3 DEF Pending, Standing, Owed, Asked
<1>5. /\ HowMany(c.queue, QueuedOf(p)) = q + one /\ HowMany(c.dropped, {p}) = d
      /\ HowMany(c.outcomes, Says(p)) = v /\ HowMany(c.outcomes, Asks(p)) = g
      /\ HowMany(c.out, UncountedOf(p)) = u /\ HowMany(c.out, OutOf(p)) = n
  BY <1>3 DEF Shifts
<1>6. /\ Pending(c, p) = (((q + one) + d) + v) + u /\ Standing(c, p) = (((q + one) + d) + v) + n
      /\ Asked(c, p) = g
  BY <1>5 DEF Pending, Standing, Owed, Asked
<1>7. sure \/ (((q + d) + v) + u + once <= k + g /\ ((q + d) + v) + n + once <= k + g)
  BY <1>1, <1>2, <1>4 DEF Balanced
<1>8. sure \/ (/\ (((q + one) + d) + v) + u + once <= (k + one) + g
               /\ (((q + one) + d) + v) + n + once <= (k + one) + g)
  BY <1>7
<1>9. QED
  BY <1>2, <1>6, <1>8 DEF Balanced

LEMMA PickKnows ==
    ASSUME IInv, KInv, NEW x \in Passages, Pick(x)
    PROVE  KInv'
<1> DEFINE e == [p |-> x, by |-> "director"]
           q == Append(backend.queue, e)
<1>1. /\ backend' = [backend EXCEPT !.queue = q]
      /\ past' = [past EXCEPT !.queued = @ + 1]
      /\ UNCHANGED <<unseen, heard, rebuild, history, choosing>>
      /\ IF director.built
         THEN director' = NoteQueued(director, x) /\ notes' = [notes EXCEPT ![x] = @ + 1]
         ELSE UNCHANGED <<director, notes>>
      /\ choosing = "choosing"
  BY DEF Pick
<1>2. e \in Entries /\ e.p = x
  BY DEF Entries
<1> HIDE DEF e
<1>3. q \in Seq(Entries)
  BY <1>2, BackendParts, AppendProperties
<1>4. \A p : HowMany(q, QueuedOf(p)) = HowMany(backend.queue, QueuedOf(p)) + (IF p = x THEN 1 ELSE 0)
  <2> TAKE p
  <2>1. HowMany(q, QueuedOf(p)) = IF e \in QueuedOf(p) THEN HowMany(backend.queue, QueuedOf(p)) + 1
                                  ELSE HowMany(backend.queue, QueuedOf(p))
    BY <1>2, BackendParts, CountsAppended
  <2>2. e \in QueuedOf(p) <=> p = x
    BY <1>2 DEF QueuedOf
  <2>3. HowMany(backend.queue, QueuedOf(p)) \in Nat
    BY NowBackend, AmountsAre
  <2>4. QED
    BY <2>1, <2>2, <2>3
<1> HIDE DEF q
<1>5. PICK c : c = backend'
  OBVIOUS
<1>6. /\ c \in Backends /\ c.queue = q /\ c.out = backend.out /\ c.dropped = backend.dropped
      /\ c.outcomes = backend.outcomes
  BY <1>1, <1>3, <1>5, BackendParts DEF Backends
<1>7. past'.told = past.told /\ past'.missed = past.missed /\ past'.forgot = past.forgot
      /\ past'.handed = past.handed
  BY <1>1, BackendParts DEF Pasts
<1>8. backend.outcomes = <<>> /\ past.handed = FALSE
  BY <1>1, NowBackend DEF KInv, Clear
<1>9. PICK s : s = Now
  OBVIOUS
<1>10. PICK t : t = Mark(s, x)
  OBVIOUS
<1>11. s \in Honest(past.told, history.played)
  BY <1>9, NowIs
<1>12. Marking(s, t, x)
  BY <1>10, <1>11, MarkDoes
<1>13. director' = t.d /\ notes' = t.notes /\ s.d = director /\ s.notes = notes
  <2>1. s.d = director /\ s.notes = notes /\ s \in Sessions
    BY <1>9, NowIs
  <2>2. CASE director.built
    BY <1>1, <1>10, <2>1, <2>2 DEF Mark, Sessions
  <2>3. CASE ~director.built
    BY <1>1, <1>10, <2>1, <2>3 DEF Mark
  <2>4. QED
    BY <2>1, <2>2, <2>3
<1>14. /\ director'.built = director.built /\ director.windows \subseteq director'.windows
       /\ \A p \in Passages : Known(director, p) => Known(director', p)
       /\ director.built => \A p \in Passages :
              notes'[p] = notes[p] + (IF p = x THEN 1 ELSE 0)
  <2>1. \A p \in Passages : s.notes[p] \in Nat
    BY <1>11, HonestFacts
  <2>2. QED
    BY <1>12, <1>13, <2>1 DEF Marking, Wiser
<1>15. \A p \in Passages : Sure(director, past.missed, p) => Sure(director', past'.missed, p)
  BY <1>7, <1>14 DEF Sure
<1>16. \A p : Once(past', p) = Once(past, p)
  BY <1>7 DEF Once
<1>17. ASSUME director.built, NEW p \in Passages
       PROVE  Balanced(c, past'.handed, Sure(director', past'.missed, p), notes'[p], Once(past', p), p)
  <2>1. PICK one \in Nat : one = IF p = x THEN 1 ELSE 0
    OBVIOUS
  <2>2. PICK zero \in Int : zero = 0
    OBVIOUS
  <2>3. PICK k \in Nat : k = notes[p]
    BY NowBackend
  <2>4. PICK sure \in BOOLEAN : sure = Sure(director, past.missed, p)
    BY DEF Sure, Known
  <2>5. PICK wise \in BOOLEAN : wise = Sure(director', past'.missed, p)
    BY DEF Sure, Known
  <2>6. PICK b : b = backend
    OBVIOUS
  <2>7. b \in Backends /\ b.outcomes = <<>> /\ c.out = b.out /\ c.dropped = b.dropped
        /\ c.outcomes = b.outcomes
        /\ HowMany(c.queue, QueuedOf(p)) = HowMany(b.queue, QueuedOf(p)) + one
    BY <1>4, <1>6, <1>8, <2>1, <2>6, NowBackend
  <2>8. Balanced(b, FALSE, sure, k, Once(past, p), p)
    BY <1>8, <1>17, <2>3, <2>4, <2>6 DEF KInv, Balances
  <2>9. Shifts(b, c, p, one, zero, zero, zero, zero, zero)
    <3>1. /\ HowMany(b.dropped, {p}) \in Nat /\ HowMany(b.outcomes, Says(p)) \in Nat
          /\ HowMany(b.outcomes, Asks(p)) \in Nat /\ HowMany(b.out, UncountedOf(p)) \in Nat
          /\ HowMany(b.out, OutOf(p)) \in Nat
      BY <2>7, AmountsAre DEF Asked
    <3>2. QED
      BY <2>2, <2>7, <3>1 DEF Shifts
  <2>10. Balanced(c, FALSE, sure, k + one, Once(past, p), p)
    BY <1>6, <2>2, <2>7, <2>8, <2>9, QueuedAndMarked
  <2>11. sure => wise
    BY <1>15, <2>4, <2>5
  <2>12. Balanced(c, FALSE, wise, k + one, Once(past, p), p)
    BY <2>10, <2>11 DEF Balanced
  <2>13. notes'[p] = k + one /\ past'.handed = FALSE
    BY <1>7, <1>8, <1>14, <1>17, <2>1, <2>3
  <2>14. QED
    BY <1>16, <2>5, <2>12, <2>13
<1>18. Balances(backend', director', notes', past')
  BY <1>5, <1>14, <1>17 DEF Balances
<1>19. Recalls(director', notes', past')
  <2> SUFFICES ASSUME director'.built, ~past'.handed, NEW p \in Passages, Once(past', p) = 1
               PROVE  Sure(director', past'.missed, p) \/ notes'[p] > 0
    BY DEF Recalls
  <2>1. Sure(director, past.missed, p) \/ notes[p] > 0
    BY <1>7, <1>14, <1>16 DEF KInv, Recalls
  <2>2. notes[p] \in Nat
    BY NowBackend
  <2>3. notes'[p] = notes[p] + (IF p = x THEN 1 ELSE 0)
    BY <1>14
  <2>4. QED
    BY <1>15, <2>1, <2>2, <2>3
<1>20. Refuses(director', past')
  BY <1>7, <1>14 DEF KInv, Refuses
<1>21. Holds(history', backend', past')
  BY <1>1, <1>5, <1>6, <1>7 DEF KInv, Holds, SaidIn
<1>22. Keeps(history', heard', rebuild', past')
  BY <1>1, <1>7 DEF KInv, Keeps
<1>23. Clear(choosing', backend', past')
  BY <1>5, <1>6, <1>7, <1>8 DEF Clear
<1>24. OneCountedAtMost(backend')
  BY <1>5, <1>6 DEF KInv, OneCountedAtMost
<1>25. QED
  BY <1>18, <1>19, <1>20, <1>21, <1>22, <1>23, <1>24 DEF KInv

\* After a restart there is no Director, and of what was told only what was
\* written is left.
LEMMA RestartKnows ==
    ASSUME IInv, KInv, Restart
    PROVE  KInv'
<1> DEFINE q == Restored([i \in 1..Smaller(1, Len(Mixing)) |-> Mixing[i].p]
                             \o Those(Ids(backend.queue), Passages \ OnAir))
           told == IF history.written THEN past.told ELSE {}
<1>1. /\ backend' = [Silent EXCEPT !.queue = q]
      /\ director' = NoDirector /\ rebuild' = Build(TRUE, "none", NothingRead)
      /\ choosing' = "idle" /\ history' = history
      /\ past' = [past EXCEPT !.upsets = @ + 1, !.settled = {}, !.missed = {}, !.forgot = FALSE,
                              !.handed = FALSE, !.told = told]
  BY DEF Restart
<1> HIDE DEF q, told
<1>2. past'.told = told /\ past'.forgot = FALSE
  BY <1>1, BackendParts DEF Pasts
<1>3. backend'.out = <<>> /\ backend'.outcomes = <<>>
  BY <1>1 DEF Silent
<1>4. ~director'.built
  BY <1>1 DEF NoDirector
<1>5. Balances(backend', director', notes', past') /\ Recalls(director', notes', past')
      /\ Refuses(director', past')
  BY <1>4 DEF Balances, Recalls, Refuses
<1>6. OneCountedAtMost(backend')
  <2>1. Len(backend'.out) = 0
    BY <1>3, EmptySeq
  <2>2. QED
    BY <2>1 DEF OneCountedAtMost
<1>7. Holds(history', backend', past')
  <2>1. SaidIn(backend') = {}
    BY <1>3, EmptySeq DEF SaidIn, ToSet
  <2>2. QED
    BY <1>1, <1>2, <2>1 DEF KInv, Holds, told
<1>8. Keeps(history', heard', rebuild', past')
  <2>1. rebuild'.phase = "none"
    BY <1>1 DEF Build
  <2>2. ~history'.written => told = {}
    BY <1>1 DEF told
  <2>3. QED
    BY <1>2, <2>1, <2>2 DEF Keeps
<1>9. Clear(choosing', backend', past')
  BY <1>1 DEF Clear
<1>10. QED
  BY <1>5, <1>6, <1>7, <1>8, <1>9 DEF KInv

-----------------------------------------------------------------------------
(* A handover: what crosses, and the marks of what does not.               *)

Crosses == Those(Ids(backend.queue), Passages \ OnAir)

LEMMA CrossingCounts ==
    ASSUME backend \in Backends, NEW refused, NEW p \in Passages
    PROVE  /\ p \in OnAir => /\ HowMany(Those(Crosses, refused), {p}) = 0
                             /\ HowMany(Those(Crosses, Passages \ refused), {p}) = 0
           /\ p \notin OnAir /\ p \in refused =>
                  /\ HowMany(Those(Crosses, refused), {p}) = HowMany(backend.queue, QueuedOf(p))
                  /\ HowMany(Those(Crosses, Passages \ refused), {p}) = 0
           /\ p \notin OnAir /\ p \notin refused =>
                  /\ HowMany(Those(Crosses, refused), {p}) = 0
                  /\ HowMany(Those(Crosses, Passages \ refused), {p})
                       = HowMany(backend.queue, QueuedOf(p))
<1>1. PICK ids : ids = Ids(backend.queue)
  OBVIOUS
<1>2. ids \in Seq(Passages) /\ backend.queue \in Seq(Entries)
  BY <1>1, ProjectedArePassages DEF Backends
<1>3. PICK some : some = Crosses
  OBVIOUS
<1>4. some \in Seq(Passages) /\ \A S : HowMany(some, S) = HowMany(ids, S \cap (Passages \ OnAir))
  <2>1. PICK T : T = Passages \ OnAir
    OBVIOUS
  <2>2. some = Those(ids, T)
    BY <1>1, <1>3, <2>1 DEF Crosses
  <2>3. Those(ids, T) \in Seq(Passages) /\ \A S : HowMany(Those(ids, T), S) = HowMany(ids, S \cap T)
    BY <1>2, ThosePassages, CountsOfThose
  <2>4. QED
    BY <2>1, <2>2, <2>3
<1>5. \A T : HowMany(Those(some, T), {p}) = HowMany(some, {p} \cap T)
  BY <1>4, CountsOfThose
<1>6. \A T : HowMany(Those(some, T), {p}) = HowMany(ids, ({p} \cap T) \cap (Passages \ OnAir))
  BY <1>4, <1>5
<1>7. HowMany(ids, {}) = 0
  BY <1>2, SomeCounted
<1>8. HowMany(ids, {p}) = HowMany(backend.queue, QueuedOf(p))
  <2>1. \A x : HowMany(Ids(backend.queue), {x}) = HowMany(backend.queue, {e \in Entries : e.p = x})
    BY <1>2, CountsOfIds
  <2>2. QED
    BY <1>1, <2>1 DEF QueuedOf
<1>9. \A T : /\ p \in OnAir \/ p \notin T => ({p} \cap T) \cap (Passages \ OnAir) = {}
             /\ p \notin OnAir /\ p \in T => ({p} \cap T) \cap (Passages \ OnAir) = {p}
  OBVIOUS
<1>10. \A T : /\ p \in OnAir \/ p \notin T => HowMany(Those(some, T), {p}) = 0
              /\ p \notin OnAir /\ p \in T
                     => HowMany(Those(some, T), {p}) = HowMany(backend.queue, QueuedOf(p))
  BY <1>6, <1>7, <1>8, <1>9
<1>11. p \in Passages \ refused <=> p \notin refused
  OBVIOUS
<1>12. QED
  BY <1>3, <1>10, <1>11

\* What crosses of the mixer: its first passage, if anything.
Crossing == [i \in 1..Smaller(1, Len(Mixing)) |-> [Mixing[i] EXCEPT !.counted = FALSE]]

LEMMA CrossingIsFirst ==
    ASSUME backend \in Backends, NEW o, o = Crossing \/ o = <<>>
    PROVE  /\ o \in Seq(OutEntries) /\ Len(o) <= 1
           /\ \A p \in Passages :
                 /\ HowMany(o, UncountedOf(p)) = HowMany(o, OutOf(p))
                 /\ HowMany(o, OutOf(p)) <= HowMany(backend.out, OutOf(p))
                 /\ p \notin OnAir => HowMany(o, OutOf(p)) = 0
<1>1. Mixing \in Seq(OutEntries) /\ backend.out \in Seq(OutEntries)
  BY MixingIsOut DEF Backends
<1>2. \A p : HowMany(backend.out, OutOf(p)) \in Nat
  BY <1>1, HowManyIs
<1>3. CASE Mixing = <<>> \/ o = <<>>
  <2> DEFINE none == <<>>
  <2>1. o = none
    <3>1. ASSUME Mixing = <<>>
          PROVE  Crossing = none
      <4>1. Smaller(1, Len(Mixing)) = 0
        BY <3>1, EmptySeq DEF Smaller
      <4>2. 1..0 = {}
        OBVIOUS
      <4>3. Crossing = [i \in {} |-> [Mixing[i] EXCEPT !.counted = FALSE]]
        BY <4>1, <4>2 DEF Crossing
      <4>4. QED
        BY <4>3
    <3>2. QED
      BY <1>3, <3>1
  <2>2. none \in Seq(OutEntries) /\ Len(none) = 0 /\ \A S : HowMany(none, S) = 0
    BY EmptySeq, NoneCounted
  <2> HIDE DEF none
  <2>3. QED
    BY <1>2, <2>1, <2>2
<1>4. CASE Mixing # <<>> /\ o # <<>>
  <2>1. Len(Mixing) \in Nat /\ Len(Mixing) # 0 /\ Mixing[1] \in OutEntries
    BY <1>1, <1>4, EmptySeq, LenProperties, ElementOfSeq
  <2>2. Smaller(1, Len(Mixing)) = 1
    <3>1. PICK l : l = Len(Mixing)
      OBVIOUS
    <3>2. l \in Nat /\ l # 0
      BY <2>1, <3>1
    <3>3. Smaller(1, l) = 1
      BY <3>2 DEF Smaller
    <3>4. QED
      BY <3>1, <3>3
  <2>3. PICK x : x = [Mixing[1] EXCEPT !.counted = FALSE]
    OBVIOUS
  <2>4. x \in OutEntries /\ ~x.counted /\ x.p = Mixing[1].p
    BY <2>1, <2>3 DEF OutEntries
  <2>5. o = <<x>>
    <3>1. o = [i \in 1..1 |-> [Mixing[i] EXCEPT !.counted = FALSE]]
      BY <1>4, <2>2 DEF Crossing
    <3>2. \A i \in 1..1 : i = 1
      OBVIOUS
    <3>3. o = [i \in 1..1 |-> x]
      BY <2>3, <3>1, <3>2
    <3>4. QED
      BY <3>3
  <2>6. o \in Seq(OutEntries) /\ Len(o) = 1 /\ \A S : HowMany(o, S) = IF x \in S THEN 1 ELSE 0
    BY <2>4, <2>5, OneCounted
  <2>7. ASSUME NEW p \in Passages
        PROVE  /\ x \in UncountedOf(p) <=> x \in OutOf(p)
               /\ x \in OutOf(p) => p \in OnAir /\ HowMany(backend.out, OutOf(p)) # 0
    <3>1. x \in UncountedOf(p) <=> x \in OutOf(p)
      BY <2>4 DEF UncountedOf, OutOf
    <3>2. x \in OutOf(p) => p \in OnAir
      BY <1>4, <2>4, OnAirIsOne DEF OutOf
    <3>3. ASSUME x \in OutOf(p)
          PROVE  HowMany(backend.out, OutOf(p)) # 0
      <4>1. PICK T : T = {y \in ToSet(backend.out) : y.mixing}
        OBVIOUS
      <4>2. Mixing \in Seq(OutEntries \cap T)
        BY <1>1, <4>1, ThoseKept DEF Mixing
      <4>3. Mixing[1] \in T
        BY <1>4, <4>2, EmptySeq, ElementOfSeq
      <4>4. PICK i \in DOMAIN backend.out : backend.out[i] = Mixing[1]
        BY <4>1, <4>3 DEF ToSet
      <4>5. backend.out[i] \in OutOf(p)
        BY <2>1, <2>4, <3>3, <4>4 DEF OutOf
      <4>6. QED
        BY <1>1, <4>5, SomeCounted
    <3>4. QED
      BY <3>1, <3>2, <3>3
  <2>8. ASSUME NEW p \in Passages
        PROVE  /\ HowMany(o, UncountedOf(p)) = HowMany(o, OutOf(p))
               /\ HowMany(o, OutOf(p)) <= HowMany(backend.out, OutOf(p))
               /\ p \notin OnAir => HowMany(o, OutOf(p)) = 0
    BY <1>2, <2>6, <2>7
  <2>9. QED
    BY <2>6, <2>8
<1>5. QED
  BY <1>3, <1>4

\* The accounts of one passage: n and m are what is out of it before and after,
\* r of what was queued is refused, and as many marks are taken back.
LEMMA CrossedBalance ==
    ASSUME NEW b \in Backends, NEW c \in Backends, c.outcomes = b.outcomes, c.dropped = b.dropped,
           NEW p \in Passages, NEW sure, NEW k \in Nat, NEW j \in Nat, NEW r \in Nat, NEW pa,
           Balanced(b, FALSE, sure, k, Once(pa, p), p), k <= j + r,
           HowMany(c.out, UncountedOf(p)) = HowMany(c.out, OutOf(p)),
           HowMany(c.out, OutOf(p)) <= HowMany(b.out, OutOf(p)),
           \/ r = 0 /\ HowMany(c.queue, QueuedOf(p)) <= HowMany(b.queue, QueuedOf(p))
           \/ /\ r = HowMany(b.queue, QueuedOf(p)) /\ HowMany(c.queue, QueuedOf(p)) = 0
              /\ HowMany(c.out, OutOf(p)) = 0
    PROVE  Balanced(c, TRUE, sure, j, Once(pa, p), p)
<1>1. PICK once \in Nat : once = Once(pa, p)
  BY DEF Once
<1>2. PICK q \in Nat, d \in Nat, v \in Nat, g \in Nat, u \in Nat, n \in Nat :
          /\ q = HowMany(b.queue, QueuedOf(p)) /\ d = HowMany(b.dropped, {p})
          /\ v = HowMany(b.outcomes, Says(p)) /\ g = HowMany(b.outcomes, Asks(p))
          /\ u = HowMany(b.out, UncountedOf(p)) /\ n = HowMany(b.out, OutOf(p))
  BY AmountsAre DEF Asked
<1>3. PICK z \in Nat, m \in Nat : z = HowMany(c.queue, QueuedOf(p)) /\ m = HowMany(c.out, OutOf(p))
  BY AmountsAre
<1>4. /\ Pending(b, p) = ((q + d) + v) + u /\ Standing(b, p) = ((q + d) + v) + n
      /\ Asked(b, p) = g
  BY <1>2 DEF Pending, Standing, Owed, Asked
<1>5. /\ Pending(c, p) = ((z + d) + v) + m /\ Standing(c, p) = ((z + d) + v) + m
      /\ Asked(c, p) = g
  BY <1>2, <1>3 DEF Pending, Standing, Owed, Asked
<1>6. /\ sure \/ ((q + d) + v) + u + once <= k + g
      /\ sure \/ Answered(b.outcomes, p, k) \/ ((q + d) + v) + n + once <= k + g
  BY <1>1, <1>4 DEF Balanced
<1>7. /\ m <= n
      /\ \/ r = 0 /\ z <= q
         \/ r = q /\ z = 0 /\ m = 0
  BY <1>2, <1>3
<1>8. sure \/ Answered(c.outcomes, p, j) \/ ((z + d) + v) + m + once <= j + g
  <2>1. CASE r = 0 /\ z <= q
    <3>1. k <= j
      BY <2>1
    <3>2. Answered(b.outcomes, p, k) => Answered(c.outcomes, p, j)
      <4>1. PICK none : none = <<>>
        OBVIOUS
      <4>2. none \in Seq(Outcomes) /\ c.outcomes = b.outcomes \o none /\ b.outcomes \in Seq(Outcomes)
        BY <4>1, EmptySeq, ConcatEmptySeq DEF Backends
      <4>3. Answered(b.outcomes, p, k) => Answered(b.outcomes \o none, p, j)
        BY <3>1, <4>2, AnsweredYet
      <4>4. QED
        BY <4>2, <4>3
    <3>3. ((q + d) + v) + n + once <= k + g => ((z + d) + v) + m + once <= j + g
      BY <1>7, <2>1, <3>1
    <3>4. QED
      BY <1>6, <3>2, <3>3
  <2>2. CASE r = q /\ z = 0 /\ m = 0
    <3>1. ((q + d) + v) + u + once <= k + g => ((z + d) + v) + m + once <= j + g
      BY <2>2
    <3>2. QED
      BY <1>6, <3>1
  <2>3. QED
    BY <1>7, <2>1, <2>2
<1>9. QED
  BY <1>1, <1>5, <1>8 DEF Balanced

LEMMA HandOverKnows ==
    ASSUME IInv, KInv, HandOver
    PROVE  KInv'
<1>1. PICK worth \in BOOLEAN, refused \in SUBSET InQueue :
          /\ backend' = [backend EXCEPT
                 !.out = IF worth THEN Crossing ELSE <<>>,
                 !.queue = Restored(Those(Crosses, Passages \ refused))]
          /\ director' = InTurn(NeverPlayed, Now, Those(Crosses, refused)).d
          /\ notes' = InTurn(NeverPlayed, Now, Those(Crosses, refused)).notes
  BY DEF HandOver, Crosses, Crossing
<1>2. /\ past' = [past EXCEPT !.upsets = @ + 1, !.handed = TRUE]
      /\ UNCHANGED <<heard, rebuild, history, choosing>> /\ choosing # "choosing" /\ ~past.handed
  BY DEF HandOver, Upset, Between
<1>3. PICK o : o = IF worth THEN Crossing ELSE <<>>
  OBVIOUS
<1>4. PICK lost : lost = Those(Crosses, refused)
  OBVIOUS
<1>5. PICK taken : taken = Those(Crosses, Passages \ refused)
  OBVIOUS
<1>6. lost \in Seq(Passages) /\ taken \in Seq(Passages)
  <2>1. Ids(backend.queue) \in Seq(Passages)
    BY BackendParts, ProjectedArePassages
  <2>2. Crosses \in Seq(Passages)
    BY <2>1, ThosePassages DEF Crosses
  <2>3. QED
    BY <1>4, <1>5, <2>2, ThosePassages
<1>7. PICK q : q = Restored(taken)
  OBVIOUS
<1>8. q \in Seq(Entries) /\ \A p : HowMany(q, QueuedOf(p)) = HowMany(taken, {p})
  <2>1. q \in Seq(Entries) /\ Ids(q) = taken
    BY <1>6, <1>7, RestoredQueue, IdsRestored
  <2>2. \A p : HowMany(Ids(q), {p}) = HowMany(q, {e \in Entries : e.p = p})
    BY <2>1, CountsOfIds
  <2>3. QED
    BY <2>1, <2>2 DEF QueuedOf
<1>9. /\ o \in Seq(OutEntries) /\ Len(o) <= 1
      /\ \A p \in Passages :
            /\ HowMany(o, UncountedOf(p)) = HowMany(o, OutOf(p))
            /\ HowMany(o, OutOf(p)) <= HowMany(backend.out, OutOf(p))
            /\ p \notin OnAir => HowMany(o, OutOf(p)) = 0
  <2>1. o = Crossing \/ o = <<>>
    BY <1>3
  <2>2. QED
    BY <2>1, BackendParts, CrossingIsFirst
<1>10. PICK c : c = backend'
  OBVIOUS
<1>11. /\ c \in Backends /\ c.queue = q /\ c.out = o /\ c.dropped = backend.dropped
       /\ c.outcomes = backend.outcomes
  <2>1. backend' = [backend EXCEPT !.out = o, !.queue = q]
    BY <1>1, <1>3, <1>5, <1>7
  <2>2. QED
    BY <1>8, <1>10, <1>9, <2>1, BackendParts DEF Backends
<1>12. PICK n : n = Now
  OBVIOUS
<1>13. PICK s : s = InTurn(NeverPlayed, n, lost)
  OBVIOUS
<1>14. n \in Honest(past.told, history.played) /\ n.d = director /\ n.notes = notes
  BY <1>12, NowIs
<1>15. /\ Wiser(n, s) /\ \A p \in Passages : n.notes[p] <= s.notes[p] + HowMany(lost, {p})
  BY <1>6, <1>13, <1>14, DropsDo
<1>16. director' = s.d /\ notes' = s.notes
  BY <1>1, <1>4, <1>12, <1>13
<1>17. s.notes \in [Passages -> Nat]
  <2>1. s \in Honest(past.told, history.played)
    BY <1>6, <1>13, <1>14, DropsKeep
  <2>2. QED
    BY <2>1, HonestFacts
<1>18. past'.told = past.told /\ past'.missed = past.missed /\ past'.forgot = past.forgot
       /\ past'.handed = TRUE
  BY <1>2, BackendParts DEF Pasts
<1>19. /\ director'.built = director.built /\ director.windows \subseteq director'.windows
       /\ \A p \in Passages : Sure(director, past.missed, p) => Sure(director', past'.missed, p)
  BY <1>14, <1>15, <1>16, <1>18 DEF Wiser, Sure
<1>20. \A p : Once(past', p) = Once(past, p)
  BY <1>18 DEF Once
<1>21. ASSUME director.built, NEW p \in Passages
       PROVE  Balanced(c, past'.handed, Sure(director', past'.missed, p), notes'[p], Once(past', p), p)
  <2>1. PICK k \in Nat : k = notes[p]
    BY NowBackend
  <2>2. PICK j \in Nat : j = notes'[p]
    BY <1>16, <1>17
  <2>3. PICK r \in Nat : r = HowMany(lost, {p})
    BY <1>6, HowManyIs
  <2>4. PICK sure \in BOOLEAN : sure = Sure(director, past.missed, p)
    BY DEF Sure, Known
  <2>5. PICK wise \in BOOLEAN : wise = Sure(director', past'.missed, p)
    BY DEF Sure, Known
  <2>6. PICK b : b = backend
    OBVIOUS
  <2>7. b \in Backends /\ c.outcomes = b.outcomes /\ c.dropped = b.dropped /\ k <= j + r
    BY <1>11, <1>14, <1>15, <1>16, <2>1, <2>2, <2>3, <2>6, NowBackend
  <2>8. Balanced(b, FALSE, sure, k, Once(past, p), p)
    <3>1. past.handed = FALSE
      BY <1>2, NowBackend
    <3>2. QED
      BY <1>21, <2>1, <2>4, <2>6, <3>1 DEF KInv, Balances
  <2>9. /\ HowMany(c.out, UncountedOf(p)) = HowMany(c.out, OutOf(p))
        /\ HowMany(c.out, OutOf(p)) <= HowMany(b.out, OutOf(p))
        /\ p \notin OnAir => HowMany(c.out, OutOf(p)) = 0
    BY <1>9, <1>11, <2>6
  <2>10. HowMany(b.queue, QueuedOf(p)) \in Nat /\ HowMany(c.queue, QueuedOf(p)) = HowMany(taken, {p})
    BY <1>8, <1>11, <2>7, AmountsAre
  <2>11. \/ r = 0 /\ HowMany(c.queue, QueuedOf(p)) <= HowMany(b.queue, QueuedOf(p))
         \/ /\ r = HowMany(b.queue, QueuedOf(p)) /\ HowMany(c.queue, QueuedOf(p)) = 0
            /\ HowMany(c.out, OutOf(p)) = 0
    <3>1. /\ p \in OnAir => r = 0 /\ HowMany(taken, {p}) = 0
          /\ p \notin OnAir /\ p \in refused => r = HowMany(b.queue, QueuedOf(p)) /\ HowMany(taken, {p}) = 0
          /\ p \notin OnAir /\ p \notin refused => r = 0 /\ HowMany(taken, {p}) = HowMany(b.queue, QueuedOf(p))
      BY <1>4, <1>5, <2>3, <2>6, BackendParts, CrossingCounts
    <3>2. QED
      BY <2>9, <2>10, <3>1
  <2>12. Balanced(c, TRUE, sure, j, Once(past, p), p)
    BY <1>11, <2>7, <2>8, <2>9, <2>11, CrossedBalance
  <2>13. sure => wise
    BY <1>19, <2>4, <2>5
  <2>14. Balanced(c, TRUE, wise, j, Once(past, p), p)
    BY <2>12, <2>13 DEF Balanced
  <2>15. QED
    BY <1>18, <1>20, <2>2, <2>5, <2>14
<1>22. Balances(backend', director', notes', past')
  BY <1>10, <1>19, <1>21 DEF Balances
<1>23. Recalls(director', notes', past') /\ Refuses(director', past')
  BY <1>18, <1>19 DEF KInv, Recalls, Refuses
<1>24. Holds(history', backend', past') /\ Keeps(history', heard', rebuild', past')
  BY <1>2, <1>10, <1>11, <1>18 DEF KInv, Holds, SaidIn, Keeps
<1>25. Clear(choosing', backend', past')
  BY <1>2 DEF Clear
<1>26. OneCountedAtMost(backend')
  <2>1. Len(o) \in Nat
    BY <1>9, LenProperties
  <2>2. 2..Len(o) = {}
    BY <1>9, <2>1
  <2>3. QED
    BY <1>10, <1>11, <2>2 DEF OneCountedAtMost
<1>27. QED
  BY <1>22, <1>23, <1>24, <1>25, <1>26 DEF KInv

-----------------------------------------------------------------------------
(* A Director just built: what it is marked with, and what it knows.       *)

LEMMA InSightIs ==
    ASSUME backend \in Backends, NEW p \in Passages
    PROVE  HowMany(Projected, {p}) = InSight(p)
<1>1. PICK queued : queued = Ids(backend.queue)
  OBVIOUS
<1>2. queued \in Seq(Passages) /\ backend.queue \in Seq(Entries) /\ Len(queued) = Len(backend.queue)
  <2>1. backend.queue \in Seq(Entries) /\ \A e \in Entries : e.p \in Passages
    BY DEF Backends, Entries
  <2>2. QED
    BY <1>1, <2>1, IdsArePassages
<1>3. /\ queued = <<>> <=> backend.queue = <<>>
      /\ backend.queue # <<>> => queued[1] = backend.queue[1].p
  <2>1. queued = <<>> <=> backend.queue = <<>>
    BY <1>2, EmptySeq
  <2>2. backend.queue # <<>> => 1 \in DOMAIN backend.queue
    BY <1>2, EmptySeq, LenProperties
  <2>3. QED
    BY <1>1, <2>1, <2>2 DEF Ids
<1>4. HowMany(queued, {p}) \in Nat
  BY <1>2, HowManyIs
<1>5. PICK extra \in {0, 1} :
          extra = IF p \in OnAir /\ (backend.queue # <<>> => backend.queue[1].p # p) THEN 1 ELSE 0
  OBVIOUS
<1>6. InSight(p) = HowMany(queued, {p}) + extra
  BY <1>1, <1>5 DEF InSight
<1>7. CASE OnAir = {} \/ (queued # <<>> /\ OnAir = {queued[1]})
  <2>1. Projected = queued
    BY <1>1, <1>7 DEF Projected
  <2>2. extra = 0
    BY <1>3, <1>5, <1>7
  <2>3. QED
    BY <1>4, <1>6, <2>1, <2>2
<1>8. CASE ~(OnAir = {} \/ (queued # <<>> /\ OnAir = {queued[1]}))
  <2>1. Mixing # <<>> /\ Mixing[1].p \in Passages /\ OnAir = {Mixing[1].p}
    BY <1>8, OnAirIsOne DEF OnAir
  <2>2. PICK x \in Passages : x = Mixing[1].p
    BY <2>1
  <2>3. PICK one : one = <<x>>
    OBVIOUS
  <2>4. one \in Seq(Passages) /\ HowMany(one, {p}) = IF x \in {p} THEN 1 ELSE 0
    BY <2>3, OneCounted
  <2>5. Projected = one \o queued
    BY <1>1, <1>8, <2>2, <2>3 DEF Projected
  <2>6. HowMany(Projected, {p}) = HowMany(one, {p}) + HowMany(queued, {p})
    BY <1>2, <2>4, <2>5, CountsJoined
  <2>7. extra = IF x \in {p} THEN 1 ELSE 0
    BY <1>3, <1>5, <1>8, <2>1, <2>2
  <2>8. QED
    BY <1>4, <1>5, <1>6, <2>4, <2>6, <2>7
<1>9. QED
  BY <1>7, <1>8

LEMMA OutstandingIs ==
    ASSUME backend \in Backends, NEW p \in Passages
    PROVE  Outstanding(p) = Standing(backend, p)
<1>1. backend.queue \in Seq(Entries) /\ backend.out \in Seq(OutEntries)
  BY DEF Backends
<1>2. \A x : /\ HowMany(Ids(backend.queue), {x}) = HowMany(backend.queue, {e \in Entries : e.p = x})
             /\ HowMany(Ids(backend.out), {x}) = HowMany(backend.out, {e \in OutEntries : e.p = x})
  <2>1. \A x : HowMany(Ids(backend.queue), {x}) = HowMany(backend.queue, {e \in Entries : e.p = x})
    BY <1>1, CountsOfIds
  <2>2. \A x : HowMany(Ids(backend.out), {x}) = HowMany(backend.out, {e \in OutEntries : e.p = x})
    BY <1>1, CountsOfIds
  <2>3. QED
    BY <2>1, <2>2
<1>3. /\ HowMany(Ids(backend.queue), {p}) = HowMany(backend.queue, QueuedOf(p))
      /\ HowMany(Ids(backend.out), {p}) = HowMany(backend.out, OutOf(p))
  BY <1>2 DEF QueuedOf, OutOf
<1>4. PICK q \in Nat, d \in Nat, v \in Nat, n \in Nat :
          /\ q = HowMany(backend.queue, QueuedOf(p)) /\ d = HowMany(backend.dropped, {p})
          /\ v = HowMany(backend.outcomes, Says(p)) /\ n = HowMany(backend.out, OutOf(p))
  BY AmountsAre
<1>5. Outstanding(p) = q + n + d + v
  BY <1>3, <1>4 DEF Outstanding, Says
<1>6. Standing(backend, p) = ((q + d) + v) + n
  BY <1>4 DEF Standing, Owed
<1>7. QED
  BY <1>5, <1>6

Knows(d, o) == IF o.what = "played" THEN Known(d, o.p) ELSE o.p \in d.windows

LEMMA LoadedKnows ==
    ASSUME NEW read \in Reads, NEW o \in Verdict, Has(read, o)
    PROVE  Knows(Loaded(read), o)
<1>1. o.p \in Passages
  BY DEF Verdict
<1>2. KeysOf[o.p] \subseteq Keys
  BY <1>1, KeysAreKeys
<1>3. CASE o.what = "played"
  BY <1>2, <1>3 DEF Has, Knows, Known, Base, Loaded
<1>4. CASE o.what # "played"
  BY <1>4 DEF Has, Knows, Loaded
<1>5. QED
  BY <1>3, <1>4

\* What a rebuild makes of the session.
Adopts(s, t) ==
    /\ t.d.built /\ t.missed = OutOfSight /\ t.forgot = s.forgot
    /\ ~history.written => t.heard = s.heard
    /\ \A p \in Passages : t.notes[p] = InSight(p)
    /\ \A o \in Verdict : Has(rebuild.read, o) \/ o \in ToSet(s.heard) => Knows(t.d, o)

LEMMA AdoptedDoes ==
    ASSUME NEW told, NEW played, NEW s \in Honest(told, played), backend \in Backends,
           rebuild.read \in Reads, ReadFrom(rebuild.read, played)
    PROVE  Adopts(s, Adopted(s))
<1>1. PICK fresh : fresh = Fresh(s)
  OBVIOUS
<1>2. PICK marked : marked = InTurn(Mark, fresh, Projected)
  OBVIOUS
<1>3. PICK looked : looked = Missing(marked, OutOfSight)
  OBVIOUS
<1>4. PICK made : made = InTurn(Replay, looked, s.heard)
  OBVIOUS
<1>5. PICK t : t = Forgetting(made)
  OBVIOUS
<1>6. Adopted(s) = t
  BY <1>1, <1>2, <1>3, <1>4, <1>5 DEF Adopted, Fresh, Missing
<1>7. s \in Sessions /\ s.heard \in Seq(Verdict) /\ ToSet(s.heard) \subseteq told
  BY HonestFacts
<1>8. fresh \in Honest(told, played) /\ fresh.d.built
  BY <1>1, FreshKeeps
<1>9. /\ fresh.d = Loaded(rebuild.read) /\ fresh.notes = NoMarks /\ fresh.heard = s.heard
      /\ fresh.forgot = s.forgot
  BY <1>1, <1>7 DEF Fresh, Sessions
<1>10. marked \in Honest(told, played) /\ marked.d.built
  BY <1>2, <1>8, ProjectedArePassages, MarksKeep
<1>11. /\ Wiser(fresh, marked) /\ SameRest(fresh, marked)
       /\ \A p \in Passages : marked.notes[p] = fresh.notes[p] + HowMany(Projected, {p})
  BY <1>2, <1>8, ProjectedArePassages, MarksDo
<1>12. looked \in Honest(told, played) /\ looked.d = marked.d /\ looked.heard = marked.heard
       /\ looked.notes = marked.notes /\ looked.missed = OutOfSight /\ looked.forgot = marked.forgot
  <2>1. OutOfSight \in SUBSET Passages
    BY DEF OutOfSight
  <2>2. looked \in Honest(told, played) /\ looked.d = marked.d /\ looked.heard = marked.heard
    BY <1>3, <1>10, <2>1, MissingKeeps
  <2>3. marked \in Sessions
    BY <1>10, HonestFacts
  <2>4. QED
    BY <1>3, <2>2, <2>3 DEF Missing, Sessions
<1>13. looked.d.built
  BY <1>10, <1>12
<1>14. /\ Wiser(looked, made) /\ SameRest(looked, made) /\ made.notes = looked.notes
       /\ \A o \in ToSet(s.heard) :
              IF o.what = "played" THEN Known(made.d, o.p) ELSE o.p \in made.d.windows
  BY <1>4, <1>7, <1>12, <1>13, ReplaysDo
<1>15. made \in Sessions
  <2>1. made \in Honest(told, played)
    BY <1>4, <1>7, <1>12, <1>13, ReplaysKeep
  <2>2. QED
    BY <2>1, HonestFacts
<1>16. /\ t.d = made.d /\ t.notes = made.notes /\ t.missed = made.missed /\ t.forgot = made.forgot
       /\ ~history.written => t.heard = made.heard
  BY <1>5, <1>15 DEF Forgetting, Sessions
<1>17. t.d.built /\ t.missed = OutOfSight /\ t.forgot = s.forgot
       /\ (~history.written => t.heard = s.heard)
  BY <1>9, <1>11, <1>12, <1>13, <1>14, <1>16 DEF Wiser, SameRest
<1>18. ASSUME NEW p \in Passages
       PROVE  t.notes[p] = InSight(p)
  <2>1. fresh.notes[p] = 0
    BY <1>9 DEF NoMarks
  <2>2. HowMany(Projected, {p}) \in Nat /\ HowMany(Projected, {p}) = InSight(p)
    BY ProjectedArePassages, HowManyIs, InSightIs
  <2>3. QED
    BY <1>11, <1>12, <1>14, <1>16, <2>1, <2>2
<1>19. ASSUME NEW o \in Verdict, Has(rebuild.read, o) \/ o \in ToSet(s.heard)
       PROVE  Knows(t.d, o)
  <2>1. CASE Has(rebuild.read, o)
    <3>1. Knows(fresh.d, o)
      BY <1>9, <2>1, LoadedKnows
    <3>2. o.p \in Passages
      BY DEF Verdict
    <3>3. Knows(marked.d, o)
      BY <1>11, <3>1, <3>2 DEF Knows, Wiser
    <3>4. Knows(made.d, o)
      BY <1>12, <1>14, <3>2, <3>3 DEF Knows, Wiser
    <3>5. QED
      BY <1>16, <3>4
  <2>2. CASE o \in ToSet(s.heard)
    BY <1>14, <1>16, <2>2 DEF Knows
  <2>3. QED
    BY <1>19, <2>1, <2>2
<1>20. QED
  BY <1>6, <1>17, <1>18, <1>19 DEF Adopts

\* The session once the rebuild is tended: of every passage the Director knows
\* that it was heard, or will once it is told, or has its marks.
Ready(s) ==
    s.d.built =>
        /\ \A p \in Passages :
              \/ Sure(s.d, s.missed, p) \/ Answered(backend.outcomes, p, s.notes[p])
              \/ Standing(backend, p) + Once(past, p) <= s.notes[p] + Asked(backend, p)
        /\ ~past.forgot => \A o \in past.told : o.what = "rejected" => o.p \in s.d.windows

Tends(s, r) ==
    /\ Ready(s) /\ s.forgot = past.forgot
    /\ ~history.written => s.heard = heard
    /\ r.phase \in {"read", "sent"} => r = rebuild /\ s.heard = heard

LEMMA TendedDoes ==
    ASSUME IInv, KInv, NEW enough \in BOOLEAN, NEW tended, tended = Tended(enough)
    PROVE  Tends(tended.s, tended.rebuild)
<1> DEFINE r(asked, phase) == Build(asked, phase, NothingRead)
<1>1. PICK now : now = Now
  OBVIOUS
<1>2. /\ now \in Honest(past.told, history.played) /\ now \in Sessions
      /\ now.d = director /\ now.notes = notes /\ now.heard = heard
      /\ now.missed = past.missed /\ now.forgot = past.forgot
  BY <1>1, NowIs
<1>3. Ready(now)
  BY <1>2 DEF KInv, Balances, Balanced, Refuses, Ready
<1>4. PICK new : new = Adopted(now)
  OBVIOUS
<1>5. PICK less : less = Forgetting(now)
  OBVIOUS
<1>6. PICK ended : ended = r(rebuild.asked, "none")
  OBVIOUS
<1>7. PICK begun : begun = r(FALSE, "started")
  OBVIOUS
<1>8. ended.phase = "none" /\ begun.phase = "started"
  BY <1>6, <1>7 DEF Build
<1> HIDE DEF r
<1>9. \/ tended = [s |-> now, rebuild |-> rebuild]
      \/ tended = [s |-> new, rebuild |-> ended] /\ rebuild.phase = "sent"
      \/ tended = [s |-> now, rebuild |-> ended]
      \/ tended = [s |-> less, rebuild |-> begun]
  <2>0. rebuild.phase \in {"none", "started", "read", "sent", "failed"}
    BY BackendParts DEF Builds
  <2>1. CASE Building
    BY <1>1, <2>1 DEF Tended, Building
  <2>2. CASE rebuild.phase = "sent"
    BY <1>1, <1>4, <1>6, <2>2 DEF Tended, Building, r
  <2>3. CASE rebuild.phase = "failed"
    BY <1>1, <1>6, <2>3 DEF Tended, Building, r
  <2>4. CASE rebuild.phase = "none" /\ rebuild.asked /\ (enough \/ ~Short)
    BY <1>1, <1>5, <1>7, <2>4 DEF Tended, Building, r
  <2>5. CASE rebuild.phase = "none" /\ ~(rebuild.asked /\ (enough \/ ~Short))
    BY <1>1, <2>5 DEF Tended, Building
  <2>6. QED
    BY <2>0, <2>1, <2>2, <2>3, <2>4, <2>5 DEF Building
<1>10. CASE tended = [s |-> now, rebuild |-> rebuild]
  <2>1. tended.s = now /\ tended.rebuild = rebuild
    BY <1>10
  <2>2. QED
    BY <1>2, <1>3, <2>1 DEF Tends
<1>11. CASE tended = [s |-> now, rebuild |-> ended]
  <2>1. tended.s = now /\ tended.rebuild = ended
    BY <1>11
  <2>2. QED
    BY <1>2, <1>3, <1>8, <2>1 DEF Tends
<1>12. CASE tended = [s |-> less, rebuild |-> begun]
  <2>1. tended.s = less /\ tended.rebuild = begun
    BY <1>12
  <2>2. /\ less.d = now.d /\ less.notes = now.notes /\ less.missed = now.missed
        /\ less.forgot = now.forgot /\ (~history.written => less.heard = now.heard)
    BY <1>2, <1>5 DEF Forgetting, Sessions
  <2>3. Ready(less)
    BY <1>3, <2>2 DEF Ready
  <2>4. QED
    BY <1>2, <1>8, <2>1, <2>2, <2>3 DEF Tends
<1>13. CASE tended = [s |-> new, rebuild |-> ended] /\ rebuild.phase = "sent"
  <2>1. tended.s = new /\ tended.rebuild = ended
    BY <1>13
  <2>2. rebuild.read \in Reads /\ ReadFrom(rebuild.read, history.played) /\ backend \in Backends
    BY BackendParts DEF Builds
  <2>3. Adopts(now, new)
    BY <1>2, <1>4, <2>2, AdoptedDoes
  <2>4. new.d.built /\ new.missed = OutOfSight /\ new.forgot = past.forgot
        /\ (~history.written => new.heard = heard)
    BY <1>2, <2>3 DEF Adopts
  <2>5. ASSUME ~past.forgot, NEW o \in past.told
        PROVE  Knows(new.d, o)
    <3>1. Has(rebuild.read, o) \/ o \in ToSet(heard)
      BY <1>13, <2>5 DEF KInv, Keeps
    <3>2. o \in Verdict
      BY NowBackend
    <3>3. QED
      BY <1>2, <2>3, <3>1, <3>2 DEF Adopts
  <2>6. ASSUME NEW p \in Passages, ~Sure(new.d, new.missed, p)
        PROVE  Standing(backend, p) + Once(past, p) <= new.notes[p] + Asked(backend, p)
    <3>1. p \notin OutOfSight /\ ~Known(new.d, p)
      BY <2>4, <2>6 DEF Sure
    <3>2. PICK o : o = Outcome("played", p)
      OBVIOUS
    <3>3. o.what = "played" /\ o.p = p
      BY <3>2 DEF Outcome
    <3>4. Once(past, p) = 0
      BY <2>5, <3>1, <3>2, <3>3 DEF Once, Knows
    <3>5. ~(InSight(p) < Outstanding(p))
      BY <3>1 DEF OutOfSight
    <3>6. new.notes[p] = InSight(p) /\ Outstanding(p) = Standing(backend, p)
      BY <2>2, <2>3, OutstandingIs DEF Adopts
    <3>7. InSight(p) \in Nat
      <4>1. HowMany(Projected, {p}) \in Nat
        BY <2>2, ProjectedArePassages, HowManyIs
      <4>2. QED
        BY <2>2, <4>1, InSightIs
    <3>8. PICK i \in Nat, n \in Nat, a \in Nat :
              i = InSight(p) /\ n = Standing(backend, p) /\ a = Asked(backend, p)
      BY <2>2, <3>7, AmountsAre
    <3>9. n + 0 <= i + a
      BY <3>5, <3>6, <3>8
    <3>10. QED
      BY <3>4, <3>6, <3>8, <3>9
  <2>7. Ready(new)
    <3>1. ~past.forgot => \A o \in past.told : o.what = "rejected" => o.p \in new.d.windows
      BY <2>5 DEF Knows
    <3>2. QED
      BY <2>6, <3>1 DEF Ready
  <2>8. QED
    BY <1>8, <2>1, <2>4, <2>7 DEF Tends
<1>14. QED
  BY <1>9, <1>10, <1>11, <1>12, <1>13

-----------------------------------------------------------------------------
(* A refill, in the accounts.                                              *)

\* One passage: j marks are left once what was dropped is given back, and once
\* those of what was said are closed, and the grace is over, notes.
LEMMA RefilledBalance ==
    ASSUME NEW b \in Backends, NEW c \in Backends,
           c.queue = b.queue, c.out = b.out, c.dropped = <<>>, c.outcomes = <<>>,
           NEW p \in Passages, NEW k \in Nat, NEW j \in Nat, NEW u, u.notes[p] \in Nat,
           NEW n \in Nat, NEW sure \in BOOLEAN, NEW wise \in BOOLEAN, NEW pa, NEW pb,
           \/ sure \/ Answered(b.outcomes, p, k) \/ Standing(b, p) + Once(pa, p) <= k + Asked(b, p),
           sure => wise,
           k <= j + HowMany(b.dropped, {p}),
           \/ HowMany(b.dropped, {p}) = 0
           \/ wise
           \/ \A i \in 1..Len(b.outcomes) : b.outcomes[i].p # p,
           Reckoned(u, b.outcomes, p, j, Len(b.outcomes)),
           Known(u.d, p) => wise,
           n = u.notes[p] \/ wise,
           Once(pb, p) = 1 => Once(pa, p) = 1 \/ Outcome("played", p) \in ToSet(b.outcomes)
    PROVE  wise \/ Standing(c, p) + Once(pb, p) <= n
<1> SUFFICES ASSUME ~wise
             PROVE  Standing(c, p) + Once(pb, p) <= n
  OBVIOUS
<1>1. PICK q \in Nat, d \in Nat, v \in Nat, g \in Nat, o \in Nat :
          /\ q = HowMany(b.queue, QueuedOf(p)) /\ d = HowMany(b.dropped, {p})
          /\ v = HowMany(b.outcomes, Says(p)) /\ g = HowMany(b.outcomes, Asks(p))
          /\ o = HowMany(b.out, OutOf(p))
  BY AmountsAre DEF Asked
<1>2. PICK once \in {0, 1}, again \in {0, 1} : once = Once(pa, p) /\ again = Once(pb, p)
  BY DEF Once
<1>3. Standing(b, p) = ((q + d) + v) + o /\ Asked(b, p) = g
  BY <1>1 DEF Standing, Owed, Asked
<1>4. Standing(c, p) = q + o
  <2>1. HowMany(c.dropped, {p}) = 0 /\ HowMany(c.outcomes, Says(p)) = 0
    BY NoneCounted
  <2>2. Standing(c, p) = ((q + 0) + 0) + o
    BY <1>1, <2>1 DEF Standing, Owed
  <2>3. QED
    BY <2>2
<1>5. PICK l : l = Len(b.outcomes)
  OBVIOUS
<1>6. b.outcomes \in Seq(Outcomes) /\ l \in Nat /\ DOMAIN b.outcomes = 1..l
  <2>1. b.outcomes \in Seq(Outcomes)
    BY DEF Backends
  <2>2. QED
    BY <1>5, <2>1, LenProperties
<1>7. CountTo(b.outcomes, Says(p), l) = v /\ CountTo(b.outcomes, Asks(p), l) = g
  BY <1>1, <1>5, <1>6, HowManyIs
<1>8. n = u.notes[p] /\ ~Known(u.d, p) /\ ~sure
  OBVIOUS
<1>9. /\ j + g <= n + v
      /\ \A i \in 1..l : b.outcomes[i] = Outcome("played", p) => j + g + 1 <= n + v
      /\ ~Answered(b.outcomes, p, j)
  <2>1. Reckoned(u, b.outcomes, p, j, l)
    BY <1>5
  <2>2. /\ j + CountTo(b.outcomes, Asks(p), l) <= u.notes[p] + CountTo(b.outcomes, Says(p), l)
        /\ \A i \in 1..l : b.outcomes[i] = Outcome("played", p) =>
              \/ Known(u.d, p)
              \/ j + CountTo(b.outcomes, Asks(p), l) + 1 <= u.notes[p] + CountTo(b.outcomes, Says(p), l)
        /\ \A i \in 1..l :
              b.outcomes[i] = Outcome("played", p)
              /\ CountTo(b.outcomes, Says(p), i) <= j + CountTo(b.outcomes, Asks(p), i)
                  => Known(u.d, p)
    BY <2>1 DEF Reckoned
  <2>3. ~Answered(b.outcomes, p, j)
    BY <1>5, <1>8, <2>2 DEF Answered
  <2>4. QED
    BY <1>7, <1>8, <2>2, <2>3
<1>10. ~Answered(b.outcomes, p, k)
  <2>1. CASE d = 0
    <3>1. k <= j
      BY <1>1, <2>1
    <3>2. PICK none : none = <<>>
      OBVIOUS
    <3>3. none \in Seq(Outcomes) /\ b.outcomes = b.outcomes \o none
      BY <1>6, <3>2, EmptySeq, ConcatEmptySeq
    <3>4. Answered(b.outcomes, p, k) => Answered(b.outcomes \o none, p, j)
      BY <1>6, <3>1, <3>3, AnsweredYet
    <3>5. QED
      BY <1>9, <3>3, <3>4
  <2>2. CASE \A i \in 1..Len(b.outcomes) : b.outcomes[i].p # p
    <3>1. Outcome("played", p).p = p
      BY DEF Outcome
    <3>2. QED
      BY <2>2, <3>1 DEF Answered
  <2>3. QED
    BY <1>1, <2>1, <2>2
<1>11. ((q + d) + v) + o + once <= k + g
  BY <1>2, <1>3, <1>8, <1>10
<1>12. k <= j + d
  BY <1>1
<1>13. CASE again = 0
  <2>1. q + o + again <= n
    BY <1>9, <1>11, <1>12, <1>13
  <2>2. QED
    BY <1>2, <1>4, <2>1
<1>14. CASE again = 1
  <2>1. once = 1 \/ \E i \in 1..l : b.outcomes[i] = Outcome("played", p)
    BY <1>2, <1>6, <1>14 DEF ToSet
  <2>2. once = 1 \/ j + g + 1 <= n + v
    BY <1>9, <2>1
  <2>3. q + o + again <= n
    BY <1>9, <1>11, <1>12, <1>14, <2>2
  <2>4. QED
    BY <1>2, <1>4, <2>3
<1>15. QED
  BY <1>13, <1>14

\* Session::refill: the rebuild tended, what was dropped given back, what was
\* said told of, what is out of sight settled.
Refilling(t, u, s, keeping) ==
    /\ \E back \in Honest(past.told \cup SaidIn(backend), history.played) :
          /\ Wiser(t, back) /\ SameRest(t, back)
          /\ \A p \in Passages : t.notes[p] <= back.notes[p] + HowMany(backend.dropped, {p})
          /\ Tells(back, u, backend.outcomes, keeping, Len(backend.outcomes))
          /\ back.d.built =>
                \A p \in Passages :
                    Reckoned(u, backend.outcomes, p, back.notes[p], Len(backend.outcomes))
    /\ Spent(u, s)
    /\ t.notes \in [Passages -> Nat] /\ u.notes \in [Passages -> Nat] /\ s.notes \in [Passages -> Nat]

LEMMA RefillDoes ==
    ASSUME IInv, NEW enough \in BOOLEAN, NEW tended, tended = Tended(enough),
           NEW keeping \in BOOLEAN, NEW u, u = HeardOutcomes(tended.s, keeping),
           NEW s, s = SettleUnseen(u)
    PROVE  Refilling(tended.s, u, s, keeping)
<1>1. PICK told : told = past.told \cup SaidIn(backend)
  OBVIOUS
<1>2. PICK played : played = history.played
  OBVIOUS
<1>3. /\ backend \in Backends /\ rebuild \in Builds /\ ReadFrom(rebuild.read, played)
      /\ backend.outcomes \in Seq(Outcomes) /\ backend.dropped \in Seq(Passages)
  BY <1>2, BackendParts
<1>4. Now \in Honest(told, played)
  <2>1. PICK n : n = Now
    OBVIOUS
  <2>2. n \in Honest(past.told, played)
    BY <1>2, <2>1, NowIs
  <2>3. past.told \subseteq told
    BY <1>1
  <2>4. n \in Honest(told, played)
    BY <2>2, <2>3, HonestGrows
  <2>5. QED
    BY <2>1, <2>4
<1>5. PICK t : t = tended.s
  OBVIOUS
<1>6. t \in Honest(told, played)
  <2>1. Tended(enough).s \in Honest(told, played)
    BY <1>3, <1>4, TendedKeeps
  <2>2. QED
    BY <1>5, <2>1
<1>7. PICK back : back = InTurn(NeverPlayed, t, backend.dropped)
  OBVIOUS
<1>8. back \in Honest(told, played)
  BY <1>3, <1>6, <1>7, DropsKeep
<1>9. /\ Wiser(t, back) /\ SameRest(t, back)
      /\ \A p \in Passages : t.notes[p] <= back.notes[p] + HowMany(backend.dropped, {p})
  BY <1>3, <1>6, <1>7, DropsDo
<1>10. \A i \in 1..Len(backend.outcomes) :
           backend.outcomes[i].what # "queued" => backend.outcomes[i] \in told
  <2>1. DOMAIN backend.outcomes = 1..Len(backend.outcomes)
    BY <1>3, LenProperties
  <2>2. QED
    BY <1>1, <2>1 DEF SaidIn, ToSet
<1>11. u = AllTold(back, keeping, backend.outcomes)
  BY <1>5, <1>7 DEF HeardOutcomes, AllTold
<1>12. /\ Tells(back, u, backend.outcomes, keeping, Len(backend.outcomes))
       /\ back.d.built => \A p \in Passages :
              Reckoned(u, backend.outcomes, p, back.notes[p], Len(backend.outcomes))
  BY <1>3, <1>8, <1>10, <1>11, TellingsDo
<1>13. u \in Honest(told, played)
  <2>1. {o \in ToSet(backend.outcomes) : o.what # "queued"} \subseteq told
    BY <1>1 DEF SaidIn
  <2>2. HeardOutcomes(t, keeping) \in Honest(told, played)
    BY <1>3, <1>6, <2>1, OutcomesKeep
  <2>3. QED
    BY <1>5, <2>2
<1>14. Spent(u, s) /\ s \in Honest(told, played)
  BY <1>13, UnseenDoes, UnseenKeeps
<1>15. t.notes \in [Passages -> Nat] /\ u.notes \in [Passages -> Nat] /\ s.notes \in [Passages -> Nat]
  BY <1>6, <1>13, <1>14, HonestFacts
<1>16. QED
  BY <1>1, <1>2, <1>5, <1>8, <1>9, <1>12, <1>14, <1>15 DEF Refilling

LEMMA RefillKnows ==
    ASSUME IInv, KInv, Refill
    PROVE  KInv'
<1> DEFINE keeping(r) == r.phase # "none" \/ ~history.written
<1>1. PICK enough \in BOOLEAN :
          \E tended \in {Tended(enough)} :
              /\ rebuild' = tended.rebuild
              /\ \E s \in {SettleUnseen(HeardOutcomes(tended.s, keeping(tended.rebuild)))} : Becomes(s)
  BY DEF Refill
<1>2. PICK tended : /\ tended = Tended(enough)
                    /\ rebuild' = tended.rebuild
                    /\ \E s \in {SettleUnseen(HeardOutcomes(tended.s, keeping(tended.rebuild)))} : Becomes(s)
  BY <1>1
<1>3. PICK keep \in BOOLEAN : keep = keeping(tended.rebuild)
  OBVIOUS
<1>4. PICK u : u = HeardOutcomes(tended.s, keep)
  OBVIOUS
<1>5. PICK s : s = SettleUnseen(u) /\ Becomes(s)
  BY <1>2, <1>3, <1>4
<1>6. keep <=> (rebuild'.phase # "none" \/ ~history.written)
  BY <1>2, <1>3
<1> HIDE DEF keeping
<1>7. PICK t : t = tended.s
  OBVIOUS
<1>8. Tends(t, rebuild')
  <2>1. Tends(tended.s, tended.rebuild)
    BY <1>2, TendedDoes
  <2>2. QED
    BY <1>2, <1>7, <2>1
<1>9. Refilling(t, u, s, keep)
  <2>1. Refilling(tended.s, u, s, keep)
    BY <1>2, <1>4, <1>5, RefillDoes
  <2>2. QED
    BY <1>7, <2>1
<1>10. PICK back :
          /\ Wiser(t, back) /\ SameRest(t, back)
          /\ \A p \in Passages : t.notes[p] <= back.notes[p] + HowMany(backend.dropped, {p})
          /\ Tells(back, u, backend.outcomes, keep, Len(backend.outcomes))
          /\ back.d.built =>
                \A p \in Passages :
                    Reckoned(u, backend.outcomes, p, back.notes[p], Len(backend.outcomes))
          /\ back.notes \in [Passages -> Nat]
  BY <1>9, HonestFacts DEF Refilling
<1>11. Spent(u, s) /\ t.notes \in [Passages -> Nat] /\ u.notes \in [Passages -> Nat]
       /\ s.notes \in [Passages -> Nat]
  BY <1>9 DEF Refilling
<1>12. /\ Wiser(back, u) /\ u.missed = back.missed /\ (back.forgot => u.forgot)
       /\ ~u.forgot => ToSet(back.heard) \subseteq ToSet(u.heard)
       /\ ~u.forgot /\ keep => SaidIn(backend) \subseteq ToSet(u.heard)
       /\ back.d.built => \A o \in SaidIn(backend) : o.what = "rejected" => o.p \in u.d.windows
  <2>1. DOMAIN backend.outcomes = 1..Len(backend.outcomes)
    BY BackendParts, LenProperties
  <2>2. \A o \in SaidIn(backend) : o.what # "queued" /\ \E i \in 1..Len(backend.outcomes) : o = backend.outcomes[i]
    BY <2>1 DEF SaidIn, ToSet
  <2>3. QED
    BY <1>10, <2>2 DEF Tells
<1>13. /\ Wiser(u, s) /\ SameRest(u, s) /\ \A p \in Passages : s.notes[p] = u.notes[p] \/ Known(s.d, p)
  BY <1>11 DEF Spent
<1>14. /\ s.d.built = t.d.built /\ back.d.built = t.d.built /\ s.missed = t.missed
       /\ t.d.windows \subseteq s.d.windows /\ u.d.windows \subseteq s.d.windows
       /\ \A p \in Passages : Known(t.d, p) => Known(s.d, p)
       /\ \A p \in Passages : Known(u.d, p) => Known(s.d, p)
       /\ t.forgot => s.forgot
       /\ ~s.forgot => ToSet(t.heard) \subseteq ToSet(s.heard)
       /\ ~s.forgot /\ keep => SaidIn(backend) \subseteq ToSet(s.heard)
  BY <1>10, <1>12, <1>13 DEF Wiser, SameRest
<1>15. /\ director' = s.d /\ notes' = s.notes /\ heard' = s.heard /\ history' = history
       /\ past'.missed = s.missed \cup Muddled /\ past'.forgot = s.forgot /\ past'.handed = FALSE
       /\ past'.told = past.told \cup SaidIn(backend)
  <2>1. history' = history
    BY DEF Refill
  <2>2. QED
    BY <1>5, <2>1, BackendParts DEF Becomes, Pasts, SaidIn
<1>16. PICK c : c = backend'
  OBVIOUS
<1>17. c \in Backends /\ c.queue = backend.queue /\ c.out = backend.out /\ c.dropped = <<>>
       /\ c.outcomes = <<>>
  <2>1. PICK none : none = <<>>
    OBVIOUS
  <2>2. none \in Seq(Passages) /\ none \in Seq(Outcomes)
    BY <2>1, EmptySeq
  <2>3. backend' = [backend EXCEPT !.dropped = none, !.outcomes = none]
    BY <2>1 DEF Refill
  <2>4. c \in Backends /\ c.queue = backend.queue /\ c.out = backend.out /\ c.dropped = none
        /\ c.outcomes = none
    BY <1>16, <2>2, <2>3, BackendParts DEF Backends
  <2>5. QED
    BY <2>1, <2>4
<1>18. /\ t.forgot = past.forgot /\ (~history.written => t.heard = heard)
       /\ rebuild'.phase \in {"read", "sent"} => rebuild' = rebuild /\ t.heard = heard
       /\ t.d.built =>
            /\ \A p \in Passages :
                  \/ Sure(t.d, t.missed, p) \/ Answered(backend.outcomes, p, t.notes[p])
                  \/ Standing(backend, p) + Once(past, p) <= t.notes[p] + Asked(backend, p)
            /\ ~past.forgot => \A o \in past.told : o.what = "rejected" => o.p \in t.d.windows
  BY <1>8 DEF Tends, Ready
<1>19. ASSUME director'.built, NEW p \in Passages
       PROVE  Sure(director', past'.missed, p) \/ Standing(c, p) + Once(past', p) <= notes'[p]
  <2>1. PICK b : b = backend
    OBVIOUS
  <2>2. PICK k \in Nat : k = t.notes[p]
    BY <1>11
  <2>3. PICK j \in Nat : j = back.notes[p]
    BY <1>10
  <2>4. PICK n \in Nat : n = s.notes[p]
    BY <1>11
  <2>5. PICK sure \in BOOLEAN : sure = Sure(t.d, t.missed, p)
    BY DEF Sure, Known
  <2>6. PICK wise \in BOOLEAN : wise = Sure(director', past'.missed, p)
    BY DEF Sure, Known
  <2>7. t.d.built /\ back.d.built
    BY <1>14, <1>15, <1>19
  <2>8. b \in Backends /\ c.queue = b.queue /\ c.out = b.out /\ u.notes[p] \in Nat
    BY <1>11, <1>17, <2>1, NowBackend
  <2>9. \/ sure \/ Answered(b.outcomes, p, k)
        \/ Standing(b, p) + Once(past, p) <= k + Asked(b, p)
    BY <1>18, <2>1, <2>2, <2>5, <2>7
  <2>10. (Known(s.d, p) => wise) /\ (p \in Muddled => wise) /\ (p \in s.missed => wise)
    BY <1>15, <2>6 DEF Sure
  <2>11. sure => wise
    BY <1>14, <2>5, <2>10 DEF Sure
  <2>12. k <= j + HowMany(b.dropped, {p})
    BY <1>10, <2>1, <2>2, <2>3
  <2>13. \/ HowMany(b.dropped, {p}) = 0 \/ wise
         \/ \A i \in 1..Len(b.outcomes) : b.outcomes[i].p # p
    <3>1. CASE p \notin ToSet(b.dropped)
      <4>1. b.dropped \in Seq(Passages) /\ \A i \in DOMAIN b.dropped : b.dropped[i] \notin {p}
        BY <2>8, <3>1 DEF ToSet, Backends
      <4>2. QED
        BY <4>1, SomeCounted
    <3>2. CASE p \in ToSet(b.dropped)
      <4>1. DOMAIN b.outcomes = 1..Len(b.outcomes)
        BY <2>1, BackendParts, LenProperties
      <4>2. wise \/ \A o \in ToSet(b.outcomes) : o.p # p
        BY <2>1, <2>10, <3>2 DEF Muddled
      <4>3. QED
        BY <4>1, <4>2 DEF ToSet
    <3>3. QED
      BY <3>1, <3>2
  <2>14. Reckoned(u, b.outcomes, p, j, Len(b.outcomes))
    BY <1>10, <2>1, <2>3, <2>7
  <2>15. (Known(u.d, p) => wise) /\ (n = u.notes[p] \/ wise)
    BY <1>13, <1>14, <2>4, <2>10
  <2>16. Once(past', p) = 1 => Once(past, p) = 1 \/ Outcome("played", p) \in ToSet(b.outcomes)
    <3>1. Once(past', p) = 1 => ~past.forgot /\ Outcome("played", p) \in past.told \cup SaidIn(b)
      BY <1>14, <1>15, <1>18, <2>1 DEF Once
    <3>2. QED
      BY <3>1 DEF Once, SaidIn
  <2>17. PICK pb : pb = past'
    OBVIOUS
  <2>18. Once(pb, p) = 1 => Once(past, p) = 1 \/ Outcome("played", p) \in ToSet(b.outcomes)
    BY <2>16, <2>17
  <2>19. wise \/ Standing(c, p) + Once(pb, p) <= n
    BY <1>17, <2>8, <2>9, <2>11, <2>12, <2>13, <2>14, <2>15, <2>18, RefilledBalance
  <2>20. QED
    BY <1>15, <2>4, <2>6, <2>17, <2>19
<1>20. ASSUME director'.built, NEW p \in Passages
       PROVE  Balanced(c, past'.handed, Sure(director', past'.missed, p), notes'[p], Once(past', p), p)
  <2>1. PICK sure \in BOOLEAN : sure = Sure(director', past'.missed, p)
    BY DEF Sure, Known
  <2>2. PICK n \in Nat : n = notes'[p]
    BY <1>11, <1>15
  <2>3. PICK once \in {0, 1} : once = Once(past', p)
    BY DEF Once
  <2>4. sure \/ Standing(c, p) + once <= n
    BY <1>19, <1>20, <2>1, <2>2, <2>3
  <2>5. /\ Owed(c, p) \in Nat /\ HowMany(c.out, UncountedOf(p)) \in Nat /\ HowMany(c.out, OutOf(p)) \in Nat
        /\ Asked(c, p) \in Nat
    BY <1>17, AmountsAre
  <2>6. HowMany(c.out, UncountedOf(p)) <= HowMany(c.out, OutOf(p))
    <3>1. UncountedOf(p) \subseteq OutOf(p) /\ c.out \in Seq(OutEntries)
      BY <1>17 DEF UncountedOf, OutOf, Backends
    <3>2. QED
      BY <3>1, SomeCounted
  <2>7. PICK w \in Nat, l \in Nat, m \in Nat, a \in Nat :
            /\ w = Owed(c, p) /\ l = HowMany(c.out, UncountedOf(p)) /\ m = HowMany(c.out, OutOf(p))
            /\ a = Asked(c, p)
    BY <2>5
  <2>8. Standing(c, p) = w + m /\ Pending(c, p) = w + l /\ l <= m
    BY <2>6, <2>7 DEF Standing, Pending
  <2>9. sure \/ (w + m + once <= n + a /\ w + l + once <= n + a)
    BY <2>4, <2>8
  <2>10. Balanced(c, past'.handed, sure, n, once, p)
    BY <2>7, <2>8, <2>9 DEF Balanced
  <2>11. QED
    BY <2>1, <2>2, <2>3, <2>10
<1>21. Balances(backend', director', notes', past')
  BY <1>16, <1>20 DEF Balances
<1>22. Recalls(director', notes', past')
  <2> SUFFICES ASSUME director'.built, NEW p \in Passages, Once(past', p) = 1
               PROVE  Sure(director', past'.missed, p) \/ notes'[p] > 0
    BY DEF Recalls
  <2>1. Standing(c, p) \in Nat
    BY <1>17, AmountsAre
  <2>2. PICK n \in Nat, i \in Nat : n = notes'[p] /\ i = Standing(c, p)
    BY <1>11, <1>15, <2>1
  <2>3. i + 1 <= n => n > 0
    OBVIOUS
  <2>4. QED
    BY <1>19, <2>2, <2>3
<1>23. Refuses(director', past')
  <2> SUFFICES ASSUME director'.built, ~past'.forgot, NEW o \in past'.told, o.what = "rejected"
               PROVE  o.p \in director'.windows
    BY DEF Refuses
  <2>1. CASE o \in past.told
    BY <1>14, <1>15, <1>18, <2>1
  <2>2. CASE o \in SaidIn(backend)
    BY <1>12, <1>14, <1>15, <2>2
  <2>3. QED
    BY <1>15, <2>1, <2>2
<1>24. Holds(history', backend', past')
  <2>1. SaidIn(c) = {}
    BY <1>17, EmptySeq DEF SaidIn, ToSet
  <2>2. QED
    BY <1>15, <1>16, <2>1 DEF KInv, Holds
<1>25. Keeps(history', heard', rebuild', past')
  <2> SUFFICES ASSUME ~past'.forgot, NEW o \in past'.told
               PROVE  /\ ~history'.written => o \in ToSet(heard')
                      /\ rebuild'.phase \in {"read", "sent"} =>
                             Has(rebuild'.read, o) \/ o \in ToSet(heard')
    BY DEF Keeps
  <2>1. ~past.forgot /\ ToSet(t.heard) \subseteq ToSet(heard')
    BY <1>14, <1>15, <1>18
  <2>2. CASE o \in SaidIn(backend)
    BY <1>6, <1>14, <1>15, <2>2
  <2>3. CASE o \in past.told
    BY <1>15, <1>18, <2>1, <2>3 DEF KInv, Keeps
  <2>4. QED
    BY <1>15, <2>2, <2>3
<1>26. Clear(choosing', backend', past')
  BY <1>15, <1>16, <1>17 DEF Clear
<1>27. OneCountedAtMost(backend')
  BY <1>16, <1>17 DEF KInv, OneCountedAtMost
<1>28. QED
  BY <1>21, <1>22, <1>23, <1>24, <1>25, <1>26, <1>27 DEF KInv

-----------------------------------------------------------------------------
LEMMA InitKnows ==
    ASSUME Init
    PROVE  KInv
<1>1. /\ backend = Silent /\ director = NoDirector /\ heard = <<>> /\ choosing = "idle"
      /\ past = [queued |-> 0, builds |-> 0, upsets |-> 0, told |-> {}, settled |-> {},
                 missed |-> {}, forgot |-> FALSE, handed |-> FALSE]
  BY DEF Init
<1>2. past.told = {} /\ ~director.built
  BY <1>1 DEF NoDirector
<1>3. backend.out = <<>> /\ backend.outcomes = <<>> /\ Len(backend.out) = 0
  BY <1>1, EmptySeq DEF Silent
<1>4. SaidIn(backend) = {}
  BY <1>3, EmptySeq DEF SaidIn, ToSet
<1>5. Balances(backend, director, notes, past) /\ Recalls(director, notes, past)
      /\ Refuses(director, past)
  BY <1>2 DEF Balances, Recalls, Refuses
<1>6. Holds(history, backend, past) /\ Keeps(history, heard, rebuild, past)
  BY <1>2, <1>4 DEF Holds, Keeps
<1>7. OneCountedAtMost(backend) /\ Clear(choosing, backend, past)
  BY <1>1, <1>3 DEF OneCountedAtMost, Clear
<1>8. QED
  BY <1>5, <1>6, <1>7 DEF KInv

LEMMA NextKnows ==
    ASSUME IInv, KInv, [Next]_vars
    PROVE  KInv'
<1>1. ASSUME NEW p \in Passages, PersonQueues(p)
      PROVE  KInv'
  BY <1>1, PersonQueuesKnows
<1>2. ASSUME NEW p \in Passages, Pick(p)
      PROVE  KInv'
  BY <1>2, PickKnows
<1>3. ASSUME NEW i \in 1..(Depth + MaxQueued), PersonRemoves(i)
      PROVE  KInv'
  BY <1>3, PersonRemovesKnows
<1>4. CASE Admit
  BY <1>4, AdmitKnows
<1>5. CASE MixedOut
  BY <1>5, MixedOutKnows
<1>6. CASE Counted
  BY <1>6, CountedKnows
<1>7. CASE Departs
  BY <1>7, DepartsKnows
<1>8. CASE Skip
  BY <1>8, SkipKnows
<1>9. CASE Ask \/ BuildReads \/ BuildEnds
  BY <1>9, ThreadKnows
<1>10. CASE Refill
  BY <1>10, RefillKnows
<1>11. CASE Chosen \/ RestOver \/ GraceOver \/ UNCHANGED vars
  BY <1>11, RestsKnow
<1>12. CASE Restart
  BY <1>12, RestartKnows
<1>13. CASE HandOver
  BY <1>13, HandOverKnows
<1>14. QED
  BY <1>1, <1>2, <1>3, <1>4, <1>5, <1>6, <1>7, <1>8, <1>9, <1>10, <1>11, <1>12, <1>13 DEF Next

\* The accounts stay even throughout: of every passage the Director knows that
\* it was heard, or was never told of it, or holds a mark for each entry that
\* may yet be told of.
THEOREM AccountsStayEven ==
    Spec => [](IInv /\ KInv)
<1>1. Init => IInv /\ KInv
  BY InitHolds, InitKnows
<1>2. IInv /\ KInv /\ [Next]_vars => (IInv /\ KInv)'
  BY NextKeeps, NextKnows
<1>3. QED
  BY <1>1, <1>2, PTL DEF Spec

\* A key of a passage that is known, or has a mark, holds Recent.
LEMMA StampedRecent ==
    ASSUME IInv, NEW p \in Passages, Known(director, p) \/ notes[p] > 0, NEW k \in KeysOf[p]
    PROVE  director.stamp[k] = Recent
<1>1. PICK s : s = Now
  OBVIOUS
<1>2. s \in Honest(past.told, history.played) /\ s.d = director /\ s.notes = notes
  BY <1>1, NowIs
<1>3. Consistent(director) /\ Matched(notes, director) /\ notes \in [Passages -> Nat]
  BY <1>2, HonestFacts
<1>4. k \in Keys
  BY KeysAreKeys
<1>5. director.open[k] \in Nat /\ (director.open[k] > 0 => director.stamp[k] = Recent)
  BY <1>3, <1>4 DEF Consistent, Directors
<1>6. CASE Known(director, p)
  BY <1>5, <1>6 DEF Known, Base
<1>7. CASE notes[p] > 0
  <2>1. IsFiniteSet(NotedOn(notes, k)) /\ director.open[k] = Cardinality(NotedOn(notes, k))
    BY <1>3, <1>4 DEF Matched
  <2>2. director.open[k] > 0
    BY <1>3, <1>7, <2>1, NotedSome
  <2>3. QED
    BY <1>5, <2>2
<1>8. QED
  BY <1>6, <1>7

\* What the running Director was told, or read, of what was heard or declined
\* it knows for good: across rebuilds that read the history too early, marks
\* closed in any order, restarts and handovers, for any passages, keys and
\* bounds.
THEOREM WhatWasHeardIsKnown ==
    Spec => []KnowsWhatWasHeard
<1>1. IInv /\ KInv => KnowsWhatWasHeard
  <2> SUFFICES ASSUME IInv, KInv, director.built, ~past.forgot, ~past.handed,
                      NEW o \in past.told, o.what = "played" => o.p \notin past.missed
               PROVE  IF o.what = "rejected" THEN o.p \in director.windows
                      ELSE \A k \in KeysOf[o.p] : director.stamp[k] = Recent
    BY DEF KnowsWhatWasHeard
  <2>1. o \in Verdict
    BY NowBackend
  <2>2. CASE o.what = "rejected"
    BY <2>2 DEF KInv, Refuses
  <2>3. CASE o.what # "rejected"
    <3>1. o.what = "played" /\ o.p \in Passages /\ o = Outcome("played", o.p)
      BY <2>1, <2>3 DEF Verdict, Outcome
    <3>2. Once(past, o.p) = 1
      BY <3>1 DEF Once
    <3>3. Sure(director, past.missed, o.p) \/ notes[o.p] > 0
      BY <3>1, <3>2 DEF KInv, Recalls
    <3>4. Known(director, o.p) \/ notes[o.p] > 0
      BY <3>1, <3>3 DEF Sure
    <3>5. QED
      BY <2>3, <3>1, <3>4, StampedRecent
  <2>4. QED
    BY <2>2, <2>3
<1>2. QED
  BY <1>1, AccountsStayEven, PTL

\* When a choice is made, every key of a passage that is queued, or that the
\* mixer holds first, is Recent to rotation, but for what the Director in
\* place was never told of: whoever queued it, and whatever came between.
THEOREM WhatIsComingIsKnown ==
    Spec => []ComingIsKnown
<1>1. IInv /\ KInv => ComingIsKnown
  <2> SUFFICES ASSUME IInv, KInv, choosing = "choosing", director.built,
                      NEW p \in (InQueue \cup OnAir) \ past.missed
               PROVE  \A k \in KeysOf[p] : director.stamp[k] = Recent
    BY DEF ComingIsKnown
  <2>1. backend \in Backends /\ backend.queue \in Seq(Entries) /\ backend.out \in Seq(OutEntries)
    BY BackendParts
  <2>2. p \in Passages /\ (HowMany(backend.queue, QueuedOf(p)) # 0 \/ HowMany(backend.out, OutOf(p)) # 0)
    <3>1. CASE p \in InQueue
      <4>1. PICK i \in DOMAIN backend.queue : p = backend.queue[i].p
        BY <3>1 DEF InQueue, Ids, ToSet
      <4>2. backend.queue[i] \in Entries
        BY <2>1, <4>1, LenProperties, ElementOfSeq
      <4>3. p \in Passages /\ backend.queue[i] \in QueuedOf(p)
        BY <4>1, <4>2 DEF Entries, QueuedOf
      <4>4. QED
        BY <2>1, <4>3, SomeCounted
    <3>2. CASE p \in OnAir
      <4>1. PICK T : T = {y \in ToSet(backend.out) : y.mixing}
        OBVIOUS
      <4>2. Mixing \in Seq(OutEntries \cap T)
        BY <2>1, <4>1, ThoseKept DEF Mixing
      <4>3. Mixing # <<>> /\ p = Mixing[1].p /\ p \in Passages
        BY <2>1, <3>2, OnAirIsOne DEF OnAir
      <4>4. Mixing[1] \in OutEntries /\ Mixing[1] \in T
        BY <4>2, <4>3, EmptySeq, ElementOfSeq
      <4>5. PICK i \in DOMAIN backend.out : backend.out[i] = Mixing[1]
        BY <4>1, <4>4 DEF ToSet
      <4>6. backend.out[i] \in OutOf(p)
        BY <4>3, <4>4, <4>5 DEF OutOf
      <4>7. QED
        BY <2>1, <4>3, <4>6, SomeCounted
    <3>3. QED
      BY <3>1, <3>2
  <2>3. backend.outcomes = <<>>
    BY DEF KInv, Clear
  <2>4. ~Answered(backend.outcomes, p, notes[p]) /\ Asked(backend, p) = 0
    <3>1. Len(backend.outcomes) = 0
      BY <2>3, EmptySeq
    <3>2. QED
      BY <2>3, <3>1, NoneCounted DEF Answered, Asked
  <2>5. Sure(director, past.missed, p) \/ Standing(backend, p) + Once(past, p) <= notes[p] + 0
    BY <2>2, <2>4 DEF KInv, Balances, Balanced
  <2>6. Known(director, p) \/ notes[p] > 0
    <3>1. PICK w \in Nat, q \in Nat, d \in Nat, v \in Nat, m \in Nat, once \in Nat, n \in Nat :
              /\ q = HowMany(backend.queue, QueuedOf(p)) /\ d = HowMany(backend.dropped, {p})
              /\ v = HowMany(backend.outcomes, Says(p)) /\ m = HowMany(backend.out, OutOf(p))
              /\ once = Once(past, p) /\ n = notes[p] /\ w = Standing(backend, p)
      <4>1. Once(past, p) \in Nat
        BY DEF Once
      <4>2. QED
        BY <2>1, <2>2, <4>1, AmountsAre, NowBackend
    <3>2. w = ((q + d) + v) + m
      BY <3>1 DEF Standing, Owed
    <3>3. q # 0 \/ m # 0
      BY <2>2, <3>1
    <3>4. Sure(director, past.missed, p) \/ w + once <= n + 0
      BY <2>5, <3>1
    <3>5. w + once <= n + 0 => n > 0
      BY <3>2, <3>3
    <3>6. QED
      BY <3>1, <3>4, <3>5 DEF Sure
  <2>7. QED
    BY <2>2, <2>6, StampedRecent
<1>2. QED
  BY <1>1, AccountsStayEven, PTL
=============================================================================
