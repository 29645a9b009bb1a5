------------------------- MODULE PassageQueueProofs -------------------------
(***************************************************************************)
(* The queue's invariants and its identity contract, for queues of any     *)
(* length and any number of passages and identifiers.                      *)
(***************************************************************************)
EXTENDS PassageQueue, SequenceTheorems, TLAPS

(* What an insertion leaves at each place: nothing is lost or altered.     *)
LEMMA SpliceFacts ==
    ASSUME NEW S, NEW q \in Seq(S), NEW es \in Seq(S), NEW at \in 0..Len(q)
    PROVE  /\ Splice(q, at, es) \in Seq(S)
           /\ Len(Splice(q, at, es)) = Len(q) + Len(es)
           /\ \A i \in 1..(Len(q) + Len(es)) :
                 Splice(q, at, es)[i] = IF i <= at THEN q[i]
                                        ELSE IF i <= at + Len(es) THEN es[i - at]
                                        ELSE q[i - Len(es)]
<1> DEFINE front == SubSeq(q, 1, at)
           back == SubSeq(q, at + 1, Len(q))
<1>1. /\ front \in Seq(S) /\ Len(front) = at
      /\ \A i \in 1..at : front[i] = q[i]
  <2>1. \A i \in 1..at : q[i] \in S
    BY ElementOfSeq, LenProperties
  <2>2. /\ front \in Seq(S) /\ Len(front) = IF 1 <= at THEN at - 1 + 1 ELSE 0
        /\ \A i \in 1..(at - 1 + 1) : front[i] = q[1 + i - 1]
    BY <2>1, SubSeqProperties
  <2>3. QED
    BY <2>2
<1>2. /\ back \in Seq(S) /\ Len(back) = Len(q) - at
      /\ \A i \in 1..(Len(q) - at) : back[i] = q[at + i]
  <2>1. \A i \in (at + 1)..Len(q) : q[i] \in S
    BY ElementOfSeq, LenProperties
  <2>2. /\ back \in Seq(S)
        /\ Len(back) = IF at + 1 <= Len(q) THEN Len(q) - (at + 1) + 1 ELSE 0
        /\ \A i \in 1..(Len(q) - (at + 1) + 1) : back[i] = q[(at + 1) + i - 1]
    BY <2>1, LenProperties, SubSeqProperties
  <2>3. QED
    BY <2>2, LenProperties
<1>3. Splice(q, at, es) = (front \o es) \o back
  BY DEF Splice
<1> HIDE DEF front, back
<1>4. Len(q) \in Nat /\ Len(es) \in Nat /\ at \in Nat /\ at <= Len(q)
  BY LenProperties
<1>5. /\ front \o es \in Seq(S) /\ Len(front \o es) = at + Len(es)
      /\ \A i \in 1..(at + Len(es)) :
            (front \o es)[i] = IF i <= at THEN front[i] ELSE es[i - at]
  <2>1. /\ front \o es \in Seq(S)
        /\ Len(front \o es) = Len(front) + Len(es)
        /\ \A i \in 1..(Len(front) + Len(es)) :
              (front \o es)[i] = IF i <= Len(front) THEN front[i] ELSE es[i - Len(front)]
    BY <1>1, ConcatProperties
  <2>2. QED
    BY <2>1, <1>1
<1> DEFINE whole == (front \o es) \o back
<1>6. /\ whole \in Seq(S) /\ Len(whole) = Len(q) + Len(es)
      /\ \A i \in 1..(Len(q) + Len(es)) :
            whole[i] = IF i <= at + Len(es) THEN (front \o es)[i]
                       ELSE back[i - (at + Len(es))]
  <2> DEFINE most == front \o es
  <2>1. most \in Seq(S) /\ Len(most) = at + Len(es)
    BY <1>5
  <2> HIDE DEF most
  <2>2. /\ most \o back \in Seq(S)
        /\ Len(most \o back) = Len(most) + Len(back)
        /\ \A i \in 1..(Len(most) + Len(back)) :
              (most \o back)[i] = IF i <= Len(most) THEN most[i] ELSE back[i - Len(most)]
    BY <2>1, <1>2, ConcatProperties
  <2>3. Len(most) + Len(back) = Len(q) + Len(es)
    BY <2>1, <1>2, <1>4
  <2>4. whole = most \o back
    BY DEF most
  <2>5. QED
    BY <2>1, <2>2, <2>3, <2>4 DEF most
<1> HIDE DEF whole
<1>7. Splice(q, at, es) = whole
  BY <1>3 DEF whole
<1>8. ASSUME NEW i \in 1..(Len(q) + Len(es))
      PROVE  whole[i] = IF i <= at THEN q[i]
                        ELSE IF i <= at + Len(es) THEN es[i - at]
                        ELSE q[i - Len(es)]
  <2>1. CASE i <= at
    <3>1. whole[i] = (front \o es)[i] /\ (front \o es)[i] = front[i] /\ front[i] = q[i]
      BY <2>1, <1>1, <1>4, <1>5, <1>6
    <3>2. QED
      BY <2>1, <3>1
  <2>2. CASE i > at /\ i <= at + Len(es)
    <3>1. whole[i] = (front \o es)[i] /\ (front \o es)[i] = es[i - at]
      BY <2>2, <1>4, <1>5, <1>6
    <3>2. QED
      BY <2>2, <3>1, <1>4
  <2>3. CASE i > at + Len(es)
    <3>1. i - (at + Len(es)) \in 1..(Len(q) - at)
      BY <2>3, <1>4
    <3>2. back[i - (at + Len(es))] = q[at + (i - (at + Len(es)))]
      BY <3>1, <1>2
    <3>3. at + (i - (at + Len(es))) = i - Len(es)
      BY <1>4
    <3>4. whole[i] = back[i - (at + Len(es))]
      BY <2>3, <1>4, <1>6
    <3>5. QED
      BY <2>3, <3>2, <3>3, <3>4, <1>4
  <2>4. QED
    BY <2>1, <2>2, <2>3, <1>4
<1>9. QED
  BY <1>6, <1>7, <1>8

(* Taking out one entry leaves the others as they were.                    *)
LEMMA CutFacts ==
    ASSUME NEW S, NEW q \in Seq(S), NEW k \in 1..Len(q)
    PROVE  /\ Cut(q, k) \in Seq(S)
           /\ Len(Cut(q, k)) = Len(q) - 1
           /\ \A i \in 1..(Len(q) - 1) :
                 Cut(q, k)[i] = IF i < k THEN q[i] ELSE q[i + 1]
<1> DEFINE front == SubSeq(q, 1, k - 1)
           back == SubSeq(q, k + 1, Len(q))
<1>0. Len(q) \in Nat
  BY LenProperties
<1>1. /\ front \in Seq(S) /\ Len(front) = k - 1
      /\ \A i \in 1..(k - 1) : front[i] = q[i]
  <2>1. \A i \in 1..(k - 1) : q[i] \in S
    BY <1>0, ElementOfSeq
  <2>2. /\ front \in Seq(S)
        /\ Len(front) = IF 1 <= k - 1 THEN (k - 1) - 1 + 1 ELSE 0
        /\ \A i \in 1..((k - 1) - 1 + 1) : front[i] = q[1 + i - 1]
    BY <2>1, SubSeqProperties
  <2>3. QED
    BY <2>2
<1>2. /\ back \in Seq(S) /\ Len(back) = Len(q) - k
      /\ \A i \in 1..(Len(q) - k) : back[i] = q[k + i]
  <2>1. \A i \in (k + 1)..Len(q) : q[i] \in S
    BY <1>0, ElementOfSeq
  <2>2. /\ back \in Seq(S)
        /\ Len(back) = IF k + 1 <= Len(q) THEN Len(q) - (k + 1) + 1 ELSE 0
        /\ \A i \in 1..(Len(q) - (k + 1) + 1) : back[i] = q[(k + 1) + i - 1]
    BY <2>1, <1>0, SubSeqProperties
  <2>3. QED
    BY <2>2, <1>0
<1>3. Cut(q, k) = front \o back
  BY DEF Cut
<1> HIDE DEF front, back
<1>4. /\ front \o back \in Seq(S)
      /\ Len(front \o back) = Len(front) + Len(back)
      /\ \A i \in 1..(Len(front) + Len(back)) :
            (front \o back)[i] = IF i <= Len(front) THEN front[i] ELSE back[i - Len(front)]
  BY <1>1, <1>2, ConcatProperties
<1>5. Len(front) + Len(back) = Len(q) - 1
  BY <1>0, <1>1, <1>2
<1>6. ASSUME NEW i \in 1..(Len(q) - 1)
      PROVE  (front \o back)[i] = IF i < k THEN q[i] ELSE q[i + 1]
  <2>1. CASE i < k
    <3>1. (front \o back)[i] = front[i] /\ front[i] = q[i]
      BY <2>1, <1>0, <1>1, <1>4, <1>5
    <3>2. QED
      BY <2>1, <3>1
  <2>2. CASE i >= k
    <3>1. i - (k - 1) \in 1..(Len(q) - k)
      BY <2>2, <1>0
    <3>2. back[i - (k - 1)] = q[k + (i - (k - 1))]
      BY <3>1, <1>2
    <3>3. k + (i - (k - 1)) = i + 1
      BY <1>0
    <3>4. (front \o back)[i] = back[i - (k - 1)]
      BY <2>2, <1>0, <1>1, <1>4, <1>5
    <3>5. QED
      BY <2>2, <3>2, <3>3, <3>4
  <2>3. i < k \/ i >= k
    BY <1>0
  <2>4. QED
    BY <2>1, <2>2, <2>3
<1>7. QED
  BY <1>3, <1>4, <1>5, <1>6

-----------------------------------------------------------------------------
(* The three invariants as one condition on a queue and its next           *)
(* identifier, which an insertion of entries of its own keeps, and so does *)
(* a removal.                                                              *)
Numbered(q, n) ==
    /\ q \in Seq(Entries)
    /\ n \in Nat
    /\ \A i \in 1..Len(q) : q[i].qid < n

Unambiguous(q) ==
    \A i, j \in 1..Len(q) : q[i].qid = q[j].qid => i = j

OneShutdown(q) ==
    \A i, j \in 1..Len(q) :
        q[i].passage = Shutdown /\ q[j].passage = Shutdown => i = j

Sound(q, n) == Numbered(q, n) /\ Unambiguous(q) /\ OneShutdown(q)

\* es brings nothing q already has.
Apart(q, es) ==
    \A i \in 1..Len(q), j \in 1..Len(es) :
        /\ q[i].qid # es[j].qid
        /\ ~(q[i].passage = Shutdown /\ es[j].passage = Shutdown)

(* An insertion of entries that bring nothing the queue has keeps it       *)
(* sound.                                                                  *)
LEMMA SpliceSound ==
    ASSUME NEW q, NEW es, NEW n, NEW m, NEW at \in 0..Len(q),
           Sound(q, n), Sound(es, m), n <= m, Apart(q, es)
    PROVE  Sound(Splice(q, at, es), m)
<1> DEFINE r == Splice(q, at, es)
           mine(i) == i <= at \/ i > at + Len(es)
           place(i) == IF i <= at THEN i ELSE i - Len(es)
<1>1. /\ q \in Seq(Entries) /\ es \in Seq(Entries) /\ n \in Nat /\ m \in Nat
      /\ Len(q) \in Nat /\ Len(es) \in Nat /\ at \in Nat /\ at <= Len(q)
  BY LenProperties DEF Sound, Numbered
<1>2. /\ r \in Seq(Entries) /\ Len(r) = Len(q) + Len(es)
      /\ \A i \in 1..(Len(q) + Len(es)) :
            r[i] = IF i <= at THEN q[i]
                   ELSE IF i <= at + Len(es) THEN es[i - at] ELSE q[i - Len(es)]
  BY <1>1, SpliceFacts
<1> HIDE DEF r
<1>3. ASSUME NEW i \in 1..Len(r), mine(i)
      PROVE  place(i) \in 1..Len(q) /\ r[i] = q[place(i)]
  BY <1>1, <1>2, <1>3
<1>4. ASSUME NEW i \in 1..Len(r), ~mine(i)
      PROVE  i - at \in 1..Len(es) /\ r[i] = es[i - at]
  BY <1>1, <1>2, <1>4
<1>5. \A i \in 1..Len(r) : i \in Nat
  BY <1>1, <1>2
<1>6. ASSUME NEW i \in 1..Len(r), NEW j \in 1..Len(r), mine(i), mine(j),
             place(i) = place(j)
      PROVE  i = j
  BY <1>1, <1>5, <1>6
<1>7. Numbered(r, m)
  <2>1. ASSUME NEW k \in 1..Len(q) PROVE q[k].qid \in Nat /\ q[k].qid < n
    <3>1. q[k] \in Entries
      BY <1>1, ElementOfSeq
    <3>2. QED
      BY <3>1 DEF Sound, Numbered, Entries
  <2>2. \A k \in 1..Len(es) : es[k].qid < m
    BY DEF Sound, Numbered
  <2>3. ASSUME NEW i \in 1..Len(r) PROVE r[i].qid < m
    <3>1. CASE mine(i)
      <4>1. q[place(i)].qid \in Nat /\ q[place(i)].qid < n
        BY <3>1, <1>3, <2>1
      <4>2. r[i] = q[place(i)]
        BY <3>1, <1>3
      <4> HIDE DEF place
      <4>3. r[i].qid \in Nat /\ r[i].qid < n /\ n \in Nat /\ m \in Nat
        BY <4>1, <4>2, <1>1
      <4>4. QED
        BY <4>3
    <3>2. CASE ~mine(i)
      BY <3>2, <1>4, <2>2
    <3>3. QED
      BY <3>1, <3>2
  <2>4. QED
    BY <1>1, <1>2, <2>3 DEF Numbered
<1>8. ASSUME NEW i \in 1..Len(r), NEW j \in 1..Len(r),
             \/ r[i].qid = r[j].qid
             \/ r[i].passage = Shutdown /\ r[j].passage = Shutdown
      PROVE  i = j
  <2>1. CASE mine(i) /\ mine(j)
    <3>1. /\ place(i) \in 1..Len(q) /\ r[i] = q[place(i)]
          /\ place(j) \in 1..Len(q) /\ r[j] = q[place(j)]
      BY <2>1, <1>3
    <3> HIDE DEF place, mine
    <3>2. place(i) = place(j)
      BY <1>8, <3>1 DEF Sound, Unambiguous, OneShutdown
    <3>3. QED
      BY <2>1, <3>2, <1>6
  <2>2. CASE ~mine(i) /\ ~mine(j)
    <3>1. /\ i - at \in 1..Len(es) /\ r[i] = es[i - at]
          /\ j - at \in 1..Len(es) /\ r[j] = es[j - at]
      BY <2>2, <1>4
    <3>2. i - at = j - at
      BY <1>8, <3>1 DEF Sound, Unambiguous, OneShutdown
    <3>3. QED
      BY <3>2, <1>1, <1>5
  <2>3. CASE mine(i) /\ ~mine(j)
    <3>1. place(i) \in 1..Len(q) /\ r[i] = q[place(i)]
      BY <2>3, <1>3
    <3>2. j - at \in 1..Len(es) /\ r[j] = es[j - at]
      BY <2>3, <1>4
    <3> HIDE DEF place, mine
    <3>3. /\ q[place(i)].qid # es[j - at].qid
          /\ ~(q[place(i)].passage = Shutdown /\ es[j - at].passage = Shutdown)
      BY <3>1, <3>2 DEF Apart
    <3>4. QED
      BY <3>1, <3>2, <3>3, <1>8
  <2>4. CASE ~mine(i) /\ mine(j)
    <3>1. place(j) \in 1..Len(q) /\ r[j] = q[place(j)]
      BY <2>4, <1>3
    <3>2. i - at \in 1..Len(es) /\ r[i] = es[i - at]
      BY <2>4, <1>4
    <3> HIDE DEF place, mine
    <3>3. /\ q[place(j)].qid # es[i - at].qid
          /\ ~(q[place(j)].passage = Shutdown /\ es[i - at].passage = Shutdown)
      BY <3>1, <3>2 DEF Apart
    <3>4. QED
      BY <3>1, <3>2, <3>3, <1>8
  <2>5. QED
    BY <2>1, <2>2, <2>3, <2>4
<1>9. Unambiguous(r) /\ OneShutdown(r)
  BY <1>8 DEF Unambiguous, OneShutdown
<1>10. QED
  BY <1>7, <1>9 DEF Sound, r

(* Taking an entry out keeps the queue sound, and what is left has nothing *)
(* of it.                                                                  *)
LEMMA CutSound ==
    ASSUME NEW q, NEW n, NEW k \in 1..Len(q), Sound(q, n)
    PROVE  Sound(Cut(q, k), n) /\ Apart(Cut(q, k), <<q[k]>>)
<1> DEFINE r == Cut(q, k)
           place(i) == IF i < k THEN i ELSE i + 1
<1>1. q \in Seq(Entries) /\ n \in Nat /\ Len(q) \in Nat /\ k \in Nat
  BY LenProperties DEF Sound, Numbered
<1>2. /\ r \in Seq(Entries) /\ Len(r) = Len(q) - 1
      /\ \A i \in 1..(Len(q) - 1) : r[i] = IF i < k THEN q[i] ELSE q[i + 1]
  BY <1>1, CutFacts
<1> HIDE DEF r
<1>3. ASSUME NEW i \in 1..Len(r)
      PROVE  place(i) \in 1..Len(q) /\ place(i) # k /\ r[i] = q[place(i)]
  BY <1>1, <1>2
<1>4. ASSUME NEW i \in 1..Len(r), NEW j \in 1..Len(r), place(i) = place(j)
      PROVE  i = j
  BY <1>1, <1>2, <1>4
<1> HIDE DEF place
<1>5. Numbered(r, n)
  BY <1>1, <1>2, <1>3 DEF Sound, Numbered
<1>6. ASSUME NEW i \in 1..Len(r), NEW j \in 1..Len(r),
             \/ r[i].qid = r[j].qid
             \/ r[i].passage = Shutdown /\ r[j].passage = Shutdown
      PROVE  i = j
  <2>1. /\ place(i) \in 1..Len(q) /\ r[i] = q[place(i)]
        /\ place(j) \in 1..Len(q) /\ r[j] = q[place(j)]
    BY <1>3
  <2>2. place(i) = place(j)
    BY <1>6, <2>1 DEF Sound, Unambiguous, OneShutdown
  <2>3. QED
    BY <2>2, <1>4
<1>7. Unambiguous(r) /\ OneShutdown(r)
  BY <1>6 DEF Unambiguous, OneShutdown
<1>8. Apart(r, <<q[k]>>)
  <2>1. Len(<<q[k]>>) = 1 /\ <<q[k]>>[1] = q[k]
    OBVIOUS
  <2>2. ASSUME NEW i \in 1..Len(r)
        PROVE  r[i].qid # q[k].qid /\ ~(r[i].passage = Shutdown /\ q[k].passage = Shutdown)
    BY <1>3 DEF Sound, Unambiguous, OneShutdown
  <2> DEFINE one == <<q[k]>>
  <2> HIDE DEF one
  <2>3. \A j \in 1..Len(one) : one[j] = q[k]
    BY <2>1 DEF one
  <2>4. QED
    BY <2>2, <2>3 DEF Apart, one
<1>9. QED
  BY <1>5, <1>7, <1>8 DEF Sound, r

-----------------------------------------------------------------------------
(* From (q, n) to (r, m) is a change the queue may make: r is sound, and   *)
(* what it holds was in q or is new.                                       *)
Grows(q, n, r, m) ==
    /\ Sound(r, m)
    /\ n <= m
    /\ \A i \in 1..Len(r) : (\E k \in 1..Len(q) : r[i] = q[k]) \/ n <= r[i].qid

(* A batch stamped from n on is a sound queue of its own, all of it new.   *)
LEMMA StampedFacts ==
    ASSUME NEW n \in Nat, NEW batch \in Seq(Passages \cup {Shutdown}),
           \A i, j \in 1..Len(batch) : batch[i] = Shutdown /\ batch[j] = Shutdown => i = j
    PROVE  /\ Sound(Stamped(n, batch), n + Len(batch))
           /\ Len(Stamped(n, batch)) = Len(batch)
           /\ \A i \in 1..Len(batch) :
                 /\ Stamped(n, batch)[i].qid \in Nat
                 /\ n <= Stamped(n, batch)[i].qid
                 /\ Stamped(n, batch)[i].passage = batch[i]
<1> DEFINE es == Stamped(n, batch)
<1>1. Len(batch) \in Nat /\ \A i \in 1..Len(batch) : batch[i] \in Passages \cup {Shutdown}
  BY LenProperties, ElementOfSeq
<1>2. es = [i \in 1..Len(batch) |-> [qid |-> n + i - 1, passage |-> batch[i]]]
  BY DEF Stamped
<1> HIDE DEF es
<1>3. \A i \in 1..Len(batch) :
         /\ es[i] \in Entries
         /\ es[i].qid = n + i - 1 /\ es[i].passage = batch[i]
  BY <1>1, <1>2 DEF Entries
<1>4. es \in Seq(Entries) /\ Len(es) = Len(batch)
  BY <1>1, <1>2, <1>3
<1>5. Numbered(es, n + Len(batch))
  <2>1. ASSUME NEW i \in 1..Len(es) PROVE es[i].qid < n + Len(batch)
    <3>1. es[i].qid = n + i - 1 /\ i \in Int /\ i <= Len(batch)
      BY <1>1, <1>3, <1>4
    <3>2. QED
      BY <3>1, <1>1
  <2>2. n + Len(batch) \in Nat
    BY <1>1
  <2>3. QED
    BY <2>1, <2>2, <1>4 DEF Numbered
<1>6. Unambiguous(es) /\ OneShutdown(es)
  <2>1. ASSUME NEW i \in 1..Len(es), NEW j \in 1..Len(es), es[i].qid = es[j].qid
        PROVE  i = j
    <3>1. n + i - 1 = n + j - 1 /\ i \in Int /\ j \in Int
      BY <2>1, <1>1, <1>3, <1>4
    <3>2. QED
      BY <3>1
  <2>2. \A i, j \in 1..Len(es) :
           es[i].passage = Shutdown /\ es[j].passage = Shutdown => i = j
    BY <1>3, <1>4
  <2>3. QED
    BY <2>1, <2>2 DEF Unambiguous, OneShutdown
<1>7. Sound(es, n + Len(batch))
  BY <1>5, <1>6 DEF Sound
<1>8. ASSUME NEW i \in 1..Len(batch)
      PROVE  es[i].qid \in Nat /\ n <= es[i].qid /\ es[i].passage = batch[i]
  <2>1. es[i].qid = n + i - 1 /\ i \in Int /\ i >= 1
    BY <1>1, <1>3
  <2>2. es[i].qid \in Nat /\ n <= es[i].qid
    BY <2>1
  <2>3. QED
    BY <2>2, <1>3
<1>9. QED
  BY <1>4, <1>7, <1>8 DEF es

(* A batch with no shutdown in it, or into a queue with none, may arrive   *)
(* anywhere.                                                               *)
LEMMA ArrivalGrows ==
    ASSUME NEW q, NEW n, Sound(q, n), NEW at \in 0..Len(q),
           NEW batch \in Seq(Passages \cup {Shutdown}),
           \A i, j \in 1..Len(batch) : batch[i] = Shutdown /\ batch[j] = Shutdown => i = j,
           ~HasShutdown(q) \/ \A i \in 1..Len(batch) : batch[i] # Shutdown
    PROVE  Grows(q, n, Splice(q, at, Stamped(n, batch)), n + Len(batch))
<1> DEFINE es == Stamped(n, batch)
           m == n + Len(batch)
<1>1. q \in Seq(Entries) /\ n \in Nat /\ Len(q) \in Nat /\ Len(batch) \in Nat
  BY LenProperties DEF Sound, Numbered
<1>2. /\ Sound(es, m) /\ Len(es) = Len(batch)
      /\ \A i \in 1..Len(batch) :
            es[i].qid \in Nat /\ n <= es[i].qid /\ es[i].passage = batch[i]
  BY <1>1, StampedFacts
<1> HIDE DEF es
<1>3. ASSUME NEW i \in 1..Len(q) PROVE q[i].qid \in Nat /\ q[i].qid < n
  <2>1. q[i] \in Entries
    BY <1>1, ElementOfSeq
  <2>2. QED
    BY <2>1 DEF Sound, Numbered, Entries
<1>4. Apart(q, es)
  BY <1>1, <1>2, <1>3 DEF Apart, HasShutdown
<1>5. n <= m
  BY <1>1
<1>6. Sound(Splice(q, at, es), m)
  BY <1>2, <1>4, <1>5, SpliceSound
<1>7. ASSUME NEW i \in 1..Len(Splice(q, at, es))
      PROVE  (\E k \in 1..Len(q) : Splice(q, at, es)[i] = q[k]) \/ n <= Splice(q, at, es)[i].qid
  <2> DEFINE r == Splice(q, at, es)
  <2>1. es \in Seq(Entries)
    BY <1>2 DEF Sound, Numbered
  <2>2. /\ Len(r) = Len(q) + Len(es)
        /\ \A k \in 1..(Len(q) + Len(es)) :
              r[k] = IF k <= at THEN q[k]
                     ELSE IF k <= at + Len(es) THEN es[k - at] ELSE q[k - Len(es)]
    BY <1>1, <2>1, SpliceFacts
  <2>3. i \in 1..Len(r)
    BY <1>7
  <2> HIDE DEF r
  <2>4. CASE i <= at
    <3>1. i \in 1..Len(q) /\ r[i] = q[i]
      BY <2>2, <2>3, <2>4, <1>1, <1>2
    <3>2. QED
      BY <3>1 DEF r
  <2>5. CASE i > at /\ i <= at + Len(es)
    <3>1. i - at \in 1..Len(es) /\ r[i] = es[i - at]
      BY <2>2, <2>3, <2>5, <1>1, <1>2
    <3>2. n <= r[i].qid
      BY <3>1, <1>2
    <3>3. QED
      BY <3>2 DEF r
  <2>6. CASE i > at + Len(es)
    <3>1. i - Len(es) \in 1..Len(q) /\ r[i] = q[i - Len(es)]
      BY <2>2, <2>3, <2>6, <1>1, <1>2
    <3>2. QED
      BY <3>1 DEF r
  <2>7. QED
    BY <2>3, <2>4, <2>5, <2>6, <1>1, <1>2 DEF r
<1>8. QED
  BY <1>5, <1>6, <1>7 DEF Grows, es

LEMMA PushIsSplice ==
    ASSUME NEW q \in Seq(Entries), NEW es \in Seq(Entries)
    PROVE  q \o es = Splice(q, Len(q), es)
<1>1. Len(q) \in Nat
  BY LenProperties
<1>2. SubSeq(q, 1, Len(q)) = q
  BY SubSeqFull
<1>3. SubSeq(q, Len(q) + 1, Len(q)) = <<>>
  BY <1>1, SubSeqEmpty
<1>4. q \o es \in Seq(Entries)
  BY ConcatProperties
<1>5. (q \o es) \o <<>> = q \o es
  BY <1>4, ConcatEmptySeq
<1>6. QED
  BY <1>2, <1>3, <1>5 DEF Splice

(* A removal brings nothing.                                               *)
LEMMA CutGrows ==
    ASSUME NEW q, NEW n, Sound(q, n), NEW k \in 1..Len(q)
    PROVE  Grows(q, n, Cut(q, k), n)
<1>1. q \in Seq(Entries) /\ n \in Nat /\ Len(q) \in Nat /\ k \in Nat
  BY LenProperties DEF Sound, Numbered
<1>2. Sound(Cut(q, k), n)
  BY CutSound
<1> DEFINE r == Cut(q, k)
<1>3. /\ Len(r) = Len(q) - 1
      /\ \A i \in 1..(Len(q) - 1) : r[i] = IF i < k THEN q[i] ELSE q[i + 1]
  BY <1>1, CutFacts
<1> HIDE DEF r
<1>4. ASSUME NEW i \in 1..Len(r) PROVE \E j \in 1..Len(q) : r[i] = q[j]
  <2>1. i \in 1..Len(q) /\ i + 1 \in 1..Len(q)
    BY <1>1, <1>3
  <2>2. r[i] = q[i] \/ r[i] = q[i + 1]
    BY <1>1, <1>3
  <2>3. QED
    BY <2>1, <2>2
<1>5. QED
  BY <1>1, <1>2, <1>4 DEF Grows, r

(* A move is a removal and an insertion of what was removed.               *)
LEMMA MovedGrows ==
    ASSUME NEW q, NEW n, Sound(q, n), NEW k \in 1..Len(q), NEW to \in 1..Len(q)
    PROVE  Grows(q, n, Moved(q, k, to), n)
<1> DEFINE c == Cut(q, k)
           one == <<q[k]>>
           r == Splice(c, to - 1, one)
<1>1. q \in Seq(Entries) /\ n \in Nat /\ Len(q) \in Nat /\ q[k] \in Entries
  BY LenProperties, ElementOfSeq DEF Sound, Numbered
<1>2. Sound(c, n) /\ Apart(c, one)
  BY CutSound
<1>3. c \in Seq(Entries) /\ Len(c) = Len(q) - 1
  BY <1>1, CutFacts
<1>4. /\ one \in Seq(Entries) /\ Len(one) = 1
      /\ \A i \in 1..Len(one) : i = 1 /\ one[i] = q[k]
  BY <1>1
<1>5. \A i \in 1..Len(c) : \E j \in 1..Len(q) : c[i] = q[j]
  <2>1. Grows(q, n, c, n)
    BY CutGrows
  <2>2. ASSUME NEW i \in 1..Len(c) PROVE c[i].qid \in Nat /\ c[i].qid < n
    <3>1. c[i] \in Entries
      BY <1>3, ElementOfSeq
    <3>2. QED
      BY <3>1, <1>2 DEF Sound, Numbered, Entries
  <2> HIDE DEF c
  <2>3. QED
    BY <2>1, <2>2, <1>1 DEF Grows
<1> HIDE DEF c, one
<1>6. to - 1 \in 0..Len(c)
  BY <1>1, <1>3
<1>7. Sound(one, n)
  BY <1>1, <1>4 DEF Sound, Numbered, Unambiguous, OneShutdown
<1>8. Sound(r, n)
  <2>1. n <= n
    BY <1>1
  <2>2. QED
    BY <2>1, <1>2, <1>6, <1>7, SpliceSound
<1>9. /\ Len(r) = Len(c) + Len(one)
      /\ \A i \in 1..(Len(c) + Len(one)) :
            r[i] = IF i <= to - 1 THEN c[i]
                   ELSE IF i <= (to - 1) + Len(one) THEN one[i - (to - 1)]
                   ELSE c[i - Len(one)]
  <2> DEFINE at == to - 1
  <2>1. at \in 0..Len(c)
    BY <1>6
  <2> HIDE DEF at
  <2>2. /\ Len(Splice(c, at, one)) = Len(c) + Len(one)
        /\ \A i \in 1..(Len(c) + Len(one)) :
              Splice(c, at, one)[i] =
                 IF i <= at THEN c[i]
                 ELSE IF i <= at + Len(one) THEN one[i - at] ELSE c[i - Len(one)]
    <3>1. c \in Seq(Entries) /\ one \in Seq(Entries)
      BY <1>3, <1>4
    <3>2. QED
      BY <2>1, <3>1, SpliceFacts
  <2>3. r = Splice(c, at, one)
    BY DEF at
  <2> HIDE DEF r
  <2>4. at = to - 1
    BY DEF at
  <2>5. QED
    BY <2>2, <2>3, <2>4
<1> HIDE DEF r
<1>10. /\ Len(one) = 1 /\ Len(c) = Len(q) - 1 /\ Len(r) = Len(q)
       /\ Len(q) \in Nat /\ to \in Int /\ to >= 1 /\ to <= Len(q)
  BY <1>1, <1>3, <1>4, <1>9
<1>11. ASSUME NEW i \in 1..Len(q)
       PROVE  r[i] = IF i <= to - 1 THEN c[i]
                     ELSE IF i <= (to - 1) + 1 THEN one[i - (to - 1)]
                     ELSE c[i - 1]
  <2>1. i \in 1..(Len(c) + Len(one))
    BY <1>10
  <2>2. QED
    BY <2>1, <1>9, <1>10
<1>12. ASSUME NEW i \in 1..Len(r) PROVE \E j \in 1..Len(q) : r[i] = q[j]
  <2>0. i \in 1..Len(q) /\ i \in Int
    BY <1>10
  <2>1. CASE i <= to - 1
    <3>1. i \in 1..Len(c)
      BY <2>0, <2>1, <1>10
    <3>2. r[i] = c[i]
      BY <2>0, <2>1, <1>11
    <3>3. QED
      BY <3>1, <3>2, <1>5
  <2>2. CASE i = to
    <3>1. 1 \in 1..Len(one)
      BY <1>10
    <3>2. ~(i <= to - 1) /\ i <= (to - 1) + 1 /\ i - (to - 1) = 1
      BY <2>0, <2>2, <1>10
    <3>3. r[i] = one[1]
      BY <2>0, <3>2, <1>11
    <3>4. QED
      BY <3>1, <3>3, <1>4
  <2>3. CASE i > to
    <3>1. i - 1 \in 1..Len(c)
      BY <2>0, <2>3, <1>10
    <3>2. ~(i <= to - 1) /\ ~(i <= (to - 1) + 1)
      BY <2>0, <2>3, <1>10
    <3>3. r[i] = c[i - 1]
      BY <2>0, <3>2, <1>11
    <3>4. QED
      BY <3>1, <3>3, <1>5
  <2>4. QED
    BY <2>0, <2>1, <2>2, <2>3, <1>10
<1>13. QED
  BY <1>1, <1>8, <1>12 DEF Grows, Moved, r, c, one

-----------------------------------------------------------------------------
(* The steps of the queue.                                                 *)

LEMMA BatchFacts ==
    ASSUME NEW batch \in Batches
    PROVE  /\ batch \in Seq(Passages \cup {Shutdown}) /\ Len(batch) \in Nat
           /\ \A i \in 1..Len(batch) : batch[i] # Shutdown
<1>1. PICK n \in 0..MaxBatch : batch \in [1..n -> Passages]
  BY DEF Batches
<1>2. n \in Nat
  BY BoundsAssumption
<1>3. batch \in Seq(Passages) /\ Len(batch) = n
  BY <1>1, <1>2
<1>4. \A i \in 1..Len(batch) : batch[i] \in Passages
  BY <1>3, ElementOfSeq
<1>5. batch \in Seq(Passages \cup {Shutdown})
  BY <1>3, SeqMonotonic
<1>6. QED
  BY <1>2, <1>3, <1>4, <1>5, PassagesAssumption

LEMMA EmptySound ==
    ASSUME NEW n \in Nat
    PROVE  Sound(<<>>, n)
BY DEF Sound, Numbered, Unambiguous, OneShutdown

(* Whatever the queue does, it makes a change it may make.                 *)
LEMMA StepGrows ==
    Sound(queue, nextQid) /\ [Next]_vars => Grows(queue, nextQid, queue', nextQid')
<1> SUFFICES ASSUME Sound(queue, nextQid), [Next]_vars
             PROVE  Grows(queue, nextQid, queue', nextQid')
  OBVIOUS
<1>1. queue \in Seq(Entries) /\ nextQid \in Nat /\ Len(queue) \in Nat
  BY LenProperties DEF Sound, Numbered
<1>2. Grows(queue, nextQid, queue, nextQid)
  BY <1>1 DEF Grows
<1>3. ASSUME NEW batch \in Batches, NEW at \in 0..Len(queue)
      PROVE  Grows(queue, nextQid, Splice(queue, at, Stamped(nextQid, batch)),
                   nextQid + Len(batch))
  BY BatchFacts, ArrivalGrows
<1>4. ASSUME NEW batch \in Batches, Enqueue(batch)
      PROVE  Grows(queue, nextQid, queue', nextQid')
  <2>1. Stamped(nextQid, batch) \in Seq(Entries)
    BY <1>1, BatchFacts, StampedFacts DEF Sound, Numbered
  <2>2. queue' = Splice(queue, Len(queue), Stamped(nextQid, batch))
    BY <1>1, <1>4, <2>1, PushIsSplice DEF Enqueue, Push
  <2>3. Len(queue) \in 0..Len(queue)
    BY <1>1
  <2>4. QED
    BY <1>3, <1>4, <2>2, <2>3 DEF Enqueue
<1>5. ASSUME NEW batch \in Batches, NEW at \in 0..(MaxLen + 1), EnqueueAt(at, batch)
      PROVE  Grows(queue, nextQid, queue', nextQid')
  <2>1. Least(at, Len(queue)) \in 0..Len(queue)
    BY <1>1, BoundsAssumption DEF Least
  <2>2. QED
    BY <1>3, <1>5, <2>1 DEF EnqueueAt, InsertAt
<1>6. CASE EnqueueShutdown
  <2> DEFINE batch == <<Shutdown>>
  <2>1. /\ batch \in Seq(Passages \cup {Shutdown}) /\ Len(batch) = 1
        /\ \A i, j \in 1..Len(batch) : i = j
    OBVIOUS
  <2> HIDE DEF batch
  <2>2. Stamped(nextQid, batch) \in Seq(Entries)
    BY <1>1, <2>1, StampedFacts DEF Sound, Numbered
  <2>3. queue' = Splice(queue, Len(queue), Stamped(nextQid, batch))
    BY <1>1, <1>6, <2>2, PushIsSplice DEF EnqueueShutdown, Push, batch
  <2>4. Len(queue) \in 0..Len(queue) /\ ~HasShutdown(queue)
    BY <1>1, <1>6 DEF EnqueueShutdown
  <2>5. Grows(queue, nextQid, Splice(queue, Len(queue), Stamped(nextQid, batch)),
              nextQid + Len(batch))
    BY <2>1, <2>4, ArrivalGrows
  <2>6. QED
    BY <1>6, <2>1, <2>3, <2>5 DEF EnqueueShutdown
<1>7. ASSUME NEW qid \in 1..MaxQid, RemoveQueued(qid)
      PROVE  Grows(queue, nextQid, queue', nextQid')
  <2>1. CASE At(queue, qid) = {}
    BY <1>2, <1>7, <2>1 DEF RemoveQueued, Remove
  <2>2. CASE At(queue, qid) # {}
    <3> DEFINE k == CHOOSE i \in At(queue, qid) : TRUE
    <3>1. k \in 1..Len(queue)
      BY <2>2 DEF At
    <3>2. queue' = Cut(queue, k) /\ nextQid' = nextQid
      BY <1>7, <2>2 DEF RemoveQueued, Remove
    <3> HIDE DEF k
    <3>3. QED
      BY <3>1, <3>2, CutGrows
  <2>3. QED
    BY <2>1, <2>2
<1>8. ASSUME NEW qid \in 1..MaxQid, NEW delta \in {-2, -1, 1, 2}, ShiftQueued(qid, delta)
      PROVE  Grows(queue, nextQid, queue', nextQid')
  <2> DEFINE k == CHOOSE i \in At(queue, qid) : TRUE
  <2>1. CASE queue' = queue
    BY <1>2, <1>8, <2>1 DEF ShiftQueued
  <2>2. CASE At(queue, qid) # {} /\ queue' = Moved(queue, k, ShiftedTo(queue, k, delta))
    <3>1. k \in 1..Len(queue)
      BY <2>2 DEF At
    <3> HIDE DEF k
    <3>2. ShiftedTo(queue, k, delta) \in 1..Len(queue)
      BY <1>1, <3>1 DEF ShiftedTo, Clamp
    <3>3. QED
      BY <1>8, <2>2, <3>1, <3>2, MovedGrows DEF ShiftQueued
  <2>3. QED
    BY <1>8, <2>1, <2>2 DEF ShiftQueued, Shift
<1>9. CASE Advance
  <2>1. queue # <<>> /\ 1 \in 1..Len(queue)
    BY <1>1, <1>9, EmptySeq DEF Advance
  <2>2. SubSeq(queue, 1, 1 - 1) = <<>>
    BY SubSeqEmpty
  <2>3. Tail(queue) = SubSeq(queue, 1 + 1, Len(queue)) /\ Tail(queue) \in Seq(Entries)
    BY <1>1, <2>1, TailIsSubSeq, HeadTailProperties
  <2>4. <<>> \o Tail(queue) = Tail(queue)
    BY <2>3, ConcatEmptySeq
  <2>5. Cut(queue, 1) = Tail(queue)
    BY <2>2, <2>3, <2>4 DEF Cut
  <2>6. QED
    BY <1>9, <2>1, <2>5, CutGrows DEF Advance
<1>10. CASE Clear
  BY <1>1, <1>10, EmptySound DEF Clear, Grows
<1>11. ASSUME NEW batch \in Batches, ReplaceUpcoming(batch)
       PROVE  Grows(queue, nextQid, queue', nextQid')
  <2> DEFINE es == Stamped(nextQid, batch)
  <2>1. /\ Sound(es, nextQid + Len(batch)) /\ Len(es) = Len(batch)
        /\ \A i \in 1..Len(batch) : nextQid <= es[i].qid
    BY <1>1, BatchFacts, StampedFacts
  <2> HIDE DEF es
  <2>2. es \in Seq(Entries)
    BY <2>1 DEF Sound, Numbered
  <2>3. queue' = es /\ nextQid' = nextQid + Len(batch)
    BY <1>11, <2>2, ConcatEmptySeq DEF ReplaceUpcoming, Push, es
  <2>4. nextQid <= nextQid'
    BY <1>1, <2>3, BatchFacts
  <2>5. QED
    BY <2>1, <2>3, <2>4 DEF Grows
<1>12. CASE UNCHANGED vars
  BY <1>2, <1>12 DEF vars
<1>13. QED
  BY <1>4, <1>5, <1>6, <1>7, <1>8, <1>9, <1>10, <1>11, <1>12 DEF Next

(* The queue is always sound: its entries are of their type and their      *)
(* identifiers below the next, distinct, and at most one of them is the    *)
(* shutdown.                                                               *)
THEOREM QueueSound == Spec => []Sound(queue, nextQid)
<1>1. Init => Sound(queue, nextQid)
  BY EmptySound DEF Init
<1>2. Sound(queue, nextQid) /\ [Next]_vars => Sound(queue, nextQid)'
  BY StepGrows DEF Grows
<1>3. QED
  BY <1>1, <1>2, PTL DEF Spec

(* The type invariant of the queue, whatever is done to it.                *)
THEOREM TypeCorrect == Spec => []TypeOK
<1>1. Sound(queue, nextQid) => TypeOK
  BY DEF Sound, Numbered, Unambiguous, OneShutdown, TypeOK, QidsDistinct, AtMostOneShutdown
<1>2. QED
  BY <1>1, QueueSound, PTL

(* Two waiting entries never carry one identifier, so a listener who       *)
(* names an entry names one (Queue::next_qid).                             *)
THEOREM QidsAreDistinct == Spec => []QidsDistinct
<1>1. Sound(queue, nextQid) => QidsDistinct
  BY DEF Sound, Unambiguous, QidsDistinct
<1>2. QED
  BY <1>1, QueueSound, PTL

(* At most one shutdown waits, however often it is asked for               *)
(* (push_shutdown).                                                        *)
THEOREM ShutdownIsAlone == Spec => []AtMostOneShutdown
<1>1. Sound(queue, nextQid) => AtMostOneShutdown
  BY DEF Sound, OneShutdown, AtMostOneShutdown
<1>2. QED
  BY <1>1, QueueSound, PTL

(* The queue implements the contract of its identifiers: an identifier may *)
(* be stale, and is never ambiguous and never given out twice              *)
(* (EntryIdentity).                                                        *)
THEOREM IdentityImplemented == Spec => IdentityKept
<1>1. Init => Identity!Init
  BY DEF Init, Identity!Init, Waiting
<1>2. Sound(queue, nextQid) /\ [Next]_vars => [Identity!Step]_<<Waiting, nextQid>>
  <2> SUFFICES ASSUME Sound(queue, nextQid), [Next]_vars
               PROVE  Identity!Step
    OBVIOUS
  <2>1. Grows(queue, nextQid, queue', nextQid')
    BY StepGrows
  <2>2. nextQid' \in Nat /\ nextQid' >= nextQid
    BY <2>1 DEF Grows, Sound, Numbered
  <2>3. ASSUME NEW e \in Waiting'
        PROVE  e \in Waiting \/ (nextQid <= e.qid /\ e.qid < nextQid')
    <3>1. PICK i \in 1..Len(queue') : e = queue'[i]
      BY <2>3 DEF Waiting
    <3>2. queue'[i].qid < nextQid'
      BY <2>1 DEF Grows, Sound, Numbered
    <3>3. QED
      BY <2>1, <3>1, <3>2 DEF Grows, Waiting
  <2>4. \A a, b \in Waiting' : a.qid = b.qid => a = b
    BY <2>1 DEF Grows, Sound, Unambiguous, Waiting
  <2>5. QED
    BY <2>2, <2>3, <2>4 DEF Identity!Step, Identity!Distinct
<1>3. QED
  BY <1>1, <1>2, QueueSound, PTL DEF Spec, IdentityKept, Identity!Spec
=============================================================================
