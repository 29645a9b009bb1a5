--------------------------- MODULE EngineProofs ----------------------------
(***************************************************************************)
(* What holds of the engine for any passages, spans, ring and settings:    *)
(* the shape of its state, the last word of a queued shutdown, that        *)
(* nothing is turned down unheard, that what is credited was heard, and    *)
(* that the display never goes back.                                       *)
(*                                                                         *)
(* The lemmas about the shape go from the data to the steps: what each     *)
(* edit of a queue leaves; what names admissions, and still does when more *)
(* are made; what a cut, a skip and a mixed unit leave of the ring; then   *)
(* the shape part by part through each action.                             *)
(***************************************************************************)
EXTENDS Engine, SequenceTheorems, FiniteSetTheorems, FunctionTheorems,
        WellFoundedInduction, TLAPS

(* What an insertion and a removal leave at each place is proved beside the *)
(* queue, for sequences of anything: the machine it is proved beside stays  *)
(* empty here.                                                              *)
Queues == INSTANCE PassageQueueProofs
          WITH MaxQid <- 0, MaxLen <- 0, MaxBatch <- 0, queue <- <<>>, nextQid <- 1

LEMMA SpliceFacts ==
    ASSUME NEW S, NEW q \in Seq(S), NEW es \in Seq(S), NEW at \in 0..Len(q)
    PROVE  /\ Splice(q, at, es) \in Seq(S)
           /\ Len(Splice(q, at, es)) = Len(q) + Len(es)
           /\ \A i \in 1..(Len(q) + Len(es)) :
                 Splice(q, at, es)[i] = IF i <= at THEN q[i]
                                        ELSE IF i <= at + Len(es) THEN es[i - at]
                                        ELSE q[i - Len(es)]
BY Queues!SpliceFacts, PassagesAssumption DEF Splice, Queues!Splice

LEMMA CutFacts ==
    ASSUME NEW S, NEW q \in Seq(S), NEW k \in 1..Len(q)
    PROVE  /\ Cut(q, k) \in Seq(S)
           /\ Len(Cut(q, k)) = Len(q) - 1
           /\ \A i \in 1..(Len(q) - 1) :
                 Cut(q, k)[i] = IF i < k THEN q[i] ELSE q[i + 1]
BY Queues!CutFacts, PassagesAssumption DEF Cut, Queues!Cut

-----------------------------------------------------------------------------
(* Queues: what each edit leaves is a queue, with one shutdown at most.    *)

LEMMA QueueLength ==
    ASSUME NEW q, IsQueue(q)
    PROVE  /\ Len(q) \in Nat
           /\ \A i \in 1..Len(q) : q[i] \in Passages \cup {Shutdown}
BY LenProperties, ElementOfSeq DEF IsQueue

(* Passages alone are a queue.                                             *)
LEMMA PassagesQueue ==
    ASSUME NEW q \in Seq(Passages)
    PROVE  IsQueue(q) /\ \A i \in 1..Len(q) : q[i] # Shutdown
<1>1. \A i \in 1..Len(q) : q[i] # Shutdown
  BY ElementOfSeq, PassagesAssumption
<1>2. q \in Seq(Passages \cup {Shutdown})
  BY SeqMonotonic
<1>3. QED
  BY <1>1, <1>2 DEF IsQueue

(* One shutdown between two queues, of which one has none.                 *)
LEMMA JoinedQueue ==
    ASSUME NEW q, NEW r, IsQueue(q), IsQueue(r),
           \/ \A i \in 1..Len(q) : q[i] # Shutdown
           \/ \A i \in 1..Len(r) : r[i] # Shutdown
    PROVE  IsQueue(q \o r)
<1> DEFINE w == q \o r
<1>1. q \in Seq(Passages \cup {Shutdown}) /\ r \in Seq(Passages \cup {Shutdown})
  BY DEF IsQueue
<1>2. Len(q) \in Nat /\ Len(r) \in Nat
  BY QueueLength
<1>3. /\ w \in Seq(Passages \cup {Shutdown}) /\ Len(w) = Len(q) + Len(r)
      /\ \A i \in 1..(Len(q) + Len(r)) :
            w[i] = IF i <= Len(q) THEN q[i] ELSE r[i - Len(q)]
  BY <1>1, ConcatProperties
<1> HIDE DEF w
<1>4. ASSUME NEW i \in 1..Len(w), NEW j \in 1..Len(w), w[i] = Shutdown, w[j] = Shutdown
      PROVE  i = j
  <2>1. \A k \in 1..Len(w) : k <= Len(q) => k \in 1..Len(q) /\ w[k] = q[k]
    BY <1>2, <1>3
  <2>2. \A k \in 1..Len(w) : k > Len(q) => k - Len(q) \in 1..Len(r) /\ w[k] = r[k - Len(q)]
    BY <1>2, <1>3
  <2>3. CASE i <= Len(q) /\ j <= Len(q)
    BY <2>1, <2>3, <1>4 DEF IsQueue
  <2>4. CASE i > Len(q) /\ j > Len(q)
    <3>1. i - Len(q) = j - Len(q)
      BY <2>2, <2>4, <1>4 DEF IsQueue
    <3>2. QED
      BY <3>1, <1>2
  <2>5. CASE (i <= Len(q) /\ j > Len(q)) \/ (j <= Len(q) /\ i > Len(q))
    BY <2>1, <2>2, <2>5, <1>4
  <2>6. i \in Nat /\ j \in Nat
    OBVIOUS
  <2>7. QED
    BY <2>3, <2>4, <2>5, <2>6, <1>2
<1>5. IsQueue(w)
  BY <1>3, <1>4 DEF IsQueue
<1>6. QED
  BY <1>5 DEF w

LEMMA SingleQueue ==
    ASSUME NEW x \in Passages \cup {Shutdown}
    PROVE  IsQueue(<<x>>) /\ <<x>> \in Seq(Passages \cup {Shutdown})
BY DEF IsQueue

(* A passage at either end of a queue; a shutdown where there is none.     *)
LEMMA ArrivedQueue ==
    ASSUME NEW q, IsQueue(q), NEW x \in Passages \cup {Shutdown},
           x = Shutdown => \A i \in 1..Len(q) : q[i] # Shutdown
    PROVE  IsQueue(Append(q, x)) /\ IsQueue(<<x>> \o q)
<1>1. x # Shutdown => \A i \in 1..Len(<<x>>) : <<x>>[i] # Shutdown
  OBVIOUS
<1>2. Append(q, x) = q \o <<x>>
  BY AppendIsConcat DEF IsQueue
<1>3. IsQueue(<<x>>)
  BY SingleQueue
<1>4. IsQueue(q \o <<x>>) /\ IsQueue(<<x>> \o q)
  BY <1>1, <1>3, JoinedQueue
<1>5. QED
  BY <1>2, <1>4

LEMMA CutQueue ==
    ASSUME NEW q, IsQueue(q), NEW k \in 1..Len(q)
    PROVE  /\ IsQueue(Cut(q, k))
           /\ q[k] = Shutdown => Cut(q, k) \in Seq(Passages)
           /\ \A i \in 1..Len(Cut(q, k)) : \E j \in 1..Len(q) : j # k /\ Cut(q, k)[i] = q[j]
<1> DEFINE c == Cut(q, k)
<1>1. Len(q) \in Nat
  BY QueueLength
<1>2. /\ c \in Seq(Passages \cup {Shutdown}) /\ Len(c) = Len(q) - 1
      /\ \A i \in 1..(Len(q) - 1) : c[i] = IF i < k THEN q[i] ELSE q[i + 1]
  BY CutFacts DEF IsQueue
<1> HIDE DEF c
<1> DEFINE place(i) == IF i < k THEN i ELSE i + 1
<1>3. \A i \in 1..Len(c) : place(i) \in 1..Len(q) /\ place(i) # k /\ c[i] = q[place(i)]
  BY <1>1, <1>2
<1>4. \A i, j \in 1..Len(c) : place(i) = place(j) => i = j
  BY <1>1, <1>2
<1> HIDE DEF place
<1>5. IsQueue(c)
  BY <1>2, <1>3, <1>4, SMTT(30) DEF IsQueue
<1>6. q[k] = Shutdown => c \in Seq(Passages)
  <2> SUFFICES ASSUME q[k] = Shutdown PROVE c \in Seq(Passages)
    OBVIOUS
  <2>1. \A i \in 1..Len(c) : c[i] # Shutdown
    BY <1>3 DEF IsQueue
  <2>2. \A i \in 1..Len(c) : c[i] \in Passages
    BY <2>1, <1>5, QueueLength
  <2>3. Len(c) \in Nat /\ c = [i \in 1..Len(c) |-> c[i]]
    BY <1>2, LenProperties
  <2>4. QED
    BY <2>2, <2>3, SeqDef
<1>7. QED
  BY <1>3, <1>5, <1>6 DEF c

LEMMA TailQueue ==
    ASSUME NEW q, IsQueue(q), q # <<>>
    PROVE  IsQueue(Tail(q)) /\ Head(q) \in Passages \cup {Shutdown} /\ Len(q) > 0
<1>1. q \in Seq(Passages \cup {Shutdown})
  BY DEF IsQueue
<1>2. /\ Head(q) \in Passages \cup {Shutdown}
      /\ Tail(q) \in Seq(Passages \cup {Shutdown}) /\ Len(Tail(q)) = Len(q) - 1
      /\ \A i \in 1..Len(Tail(q)) : Tail(q)[i] = q[i + 1]
  BY <1>1, HeadTailProperties
<1>3. Len(q) \in Nat /\ Len(q) # 0
  BY <1>1, EmptySeq
<1>4. \A i, j \in 1..Len(Tail(q)) :
         Tail(q)[i] = Shutdown /\ Tail(q)[j] = Shutdown => i = j
  <2>1. \A i \in 1..Len(Tail(q)) : i + 1 \in 1..Len(q)
    BY <1>2, <1>3
  <2>2. QED
    BY <2>1, <1>2, <1>3 DEF IsQueue
<1>5. QED
  BY <1>2, <1>3, <1>4 DEF IsQueue

(* A passage moved within the queue.                                       *)
LEMMA MovedQueue ==
    ASSUME NEW q, IsQueue(q), NEW k \in 1..Len(q), NEW to \in 1..Len(q),
           q[k] # Shutdown
    PROVE  IsQueue(Moved(q, k, to))
<1> DEFINE c == Cut(q, k)
           one == <<q[k]>>
           m == Splice(c, to - 1, one)
<1>1. Len(q) \in Nat /\ q[k] \in Passages \cup {Shutdown}
  BY QueueLength
<1>0. q \in Seq(Passages \cup {Shutdown})
  BY DEF IsQueue
<1>2. IsQueue(c) /\ c \in Seq(Passages \cup {Shutdown}) /\ Len(c) = Len(q) - 1
  <2>1. IsQueue(c)
    BY CutQueue
  <2>2. c \in Seq(Passages \cup {Shutdown}) /\ Len(c) = Len(q) - 1
    BY <1>0, CutFacts
  <2>3. QED
    BY <2>1, <2>2
<1>3. one \in Seq(Passages \cup {Shutdown}) /\ Len(one) = 1 /\ one[1] = q[k]
  BY <1>1
<1> HIDE DEF c, one
<1>4. /\ m \in Seq(Passages \cup {Shutdown}) /\ Len(m) = Len(q)
      /\ \A i \in 1..Len(q) : m[i] = IF i <= to - 1 THEN c[i]
                                     ELSE IF i <= to THEN one[i - (to - 1)]
                                     ELSE c[i - 1]
  <2>1. to - 1 \in 0..Len(c)
    BY <1>1, <1>2
  <2>2. /\ m \in Seq(Passages \cup {Shutdown}) /\ Len(m) = Len(c) + Len(one)
        /\ \A i \in 1..(Len(c) + Len(one)) :
              m[i] = IF i <= to - 1 THEN c[i]
                     ELSE IF i <= to - 1 + Len(one) THEN one[i - (to - 1)]
                     ELSE c[i - Len(one)]
    BY <2>1, <1>2, <1>3, SpliceFacts, ZenonT(60)
  <2>3. QED
    BY <2>2, <1>1, <1>2, <1>3
<1> HIDE DEF m
<1>5. m[to] # Shutdown
  BY <1>1, <1>3, <1>4
<1> DEFINE place(i) == IF i <= to - 1 THEN i ELSE i - 1
<1>6. \A i \in 1..Len(m) : i # to => place(i) \in 1..Len(c) /\ m[i] = c[place(i)]
  BY <1>1, <1>2, <1>4
<1>7. \A i, j \in 1..Len(m) : i # to /\ j # to /\ place(i) = place(j) => i = j
  BY <1>1, <1>4
<1> HIDE DEF place
<1>8. \A i, j \in 1..Len(m) : m[i] = Shutdown /\ m[j] = Shutdown => i = j
  <2> SUFFICES ASSUME NEW i \in 1..Len(m), NEW j \in 1..Len(m),
                      m[i] = Shutdown, m[j] = Shutdown
               PROVE  i = j
    OBVIOUS
  <2>1. i # to /\ j # to
    BY <1>5
  <2>2. /\ place(i) \in 1..Len(c) /\ c[place(i)] = Shutdown
        /\ place(j) \in 1..Len(c) /\ c[place(j)] = Shutdown
    BY <2>1, <1>6
  <2>3. place(i) = place(j)
    BY <2>2, <1>2 DEF IsQueue
  <2>4. QED
    BY <2>1, <2>3, <1>7
<1>9. IsQueue(m)
  BY <1>4, <1>8 DEF IsQueue
<1>10. QED
  BY <1>9 DEF m, c, one, Moved

(* What is remembered or carried away holds passages alone.                *)
LEMMA WithoutShutdown ==
    ASSUME NEW q, IsQueue(q)
    PROVE  Without(q, Shutdown) \in Seq(Passages)
<1>1. CASE \E i \in 1..Len(q) : q[i] = Shutdown
  <2> DEFINE k == CHOOSE i \in 1..Len(q) : q[i] = Shutdown
  <2>1. k \in 1..Len(q) /\ q[k] = Shutdown
    BY <1>1
  <2> HIDE DEF k
  <2>2. Cut(q, k) \in Seq(Passages)
    BY <2>1, CutQueue
  <2>3. QED
    BY <1>1, <2>2 DEF Without, k
<1>2. CASE \A i \in 1..Len(q) : q[i] # Shutdown
  <2>1. \A i \in 1..Len(q) : q[i] \in Passages
    BY <1>2, QueueLength
  <2>2. Len(q) \in Nat /\ q = [i \in 1..Len(q) |-> q[i]]
    BY LenProperties DEF IsQueue
  <2>3. q \in Seq(Passages)
    BY <2>1, <2>2, SeqDef
  <2>4. QED
    BY <1>2, <2>3 DEF Without
<1>3. QED
  BY <1>1, <1>2

LEMMA WithoutPassage ==
    ASSUME NEW q \in Seq(Passages), NEW x
    PROVE  Without(q, x) \in Seq(Passages)
<1>1. CASE \E i \in 1..Len(q) : q[i] = x
  <2> DEFINE k == CHOOSE i \in 1..Len(q) : q[i] = x
  <2>1. k \in 1..Len(q)
    BY <1>1
  <2> HIDE DEF k
  <2>2. Cut(q, k) \in Seq(Passages)
    BY <2>1, CutFacts
  <2>3. QED
    BY <1>1, <2>2 DEF Without, k
<1>2. CASE ~\E i \in 1..Len(q) : q[i] = x
  BY <1>2 DEF Without
<1>3. QED
  BY <1>1, <1>2

-----------------------------------------------------------------------------
(* The admission that came last, or first, of any.                         *)

LEMMA LeastOfAny ==
    ASSUME NEW T, T \subseteq Nat, T # {}
    PROVE  \E x \in T : \A y \in T : x <= y
<1> DEFINE R == StrictSubsetOrdering(Nat)
           below == {1..x : x \in T}
<1>1. IsWellFoundedOn(R, FiniteSubsetsOf(Nat))
  BY FS_StrictSubsetOrderingWellFounded
<1>2. below \subseteq FiniteSubsetsOf(Nat) /\ below # {}
  <2>1. \A x \in T : 1..x \in SUBSET Nat /\ IsFiniteSet(1..x)
    BY FS_Interval
  <2>2. QED
    BY <2>1 DEF FiniteSubsetsOf
<1> HIDE DEF R, below
<1>3. PICK b \in below : \A c \in below : ~(<<c, b>> \in R)
  BY <1>1, <1>2, WFMin
<1>4. PICK x \in T : b = 1..x
  BY DEF below
<1>5. ASSUME NEW y \in T, ~(x <= y)
      PROVE  FALSE
  <2>1. x \in Nat /\ y \in Nat
    OBVIOUS
  <2>2. 1..y \subseteq 1..x /\ 1..y # 1..x
    <3>1. x \in 1..x /\ x \notin 1..y
      BY <1>5, <2>1
    <3>2. \A k \in 1..y : k \in 1..x
      BY <1>5, <2>1
    <3>3. QED
      BY <3>1, <3>2
  <2>3. <<1..y, 1..x>> \in R
    BY <2>1, <2>2 DEF R, StrictSubsetOrdering
  <2>4. 1..y \in below
    BY DEF below
  <2>5. QED
    BY <1>3, <1>4, <2>3, <2>4
<1>6. QED
  BY <1>5

LEMMA LatestOfUnit ==
    ASSUME NEW n \in Nat, NEW unit, unit \subseteq [adm : 1..n, at : Nat], unit # {}
    PROVE  Latest(unit) \in unit /\ Eldest(unit) \in unit
<1>1. \E c \in unit : \A d \in unit : c.adm <= d.adm
  <2> DEFINE T == {c.adm : c \in unit}
  <2>1. T \subseteq Nat /\ T # {}
    OBVIOUS
  <2>2. PICK x \in T : \A y \in T : x <= y
    BY <2>1, LeastOfAny
  <2>3. QED
    BY <2>2
<1>2. \E c \in unit : \A d \in unit : d.adm <= c.adm
  <2> DEFINE T == {n - c.adm : c \in unit}
  <2>1. T \subseteq Nat /\ T # {}
    OBVIOUS
  <2>2. PICK x \in T : \A y \in T : x <= y
    BY <2>1, LeastOfAny
  <2>3. PICK c \in unit : x = n - c.adm
    BY <2>2
  <2>4. \A d \in unit : d.adm <= c.adm
    <3> TAKE d \in unit
    <3>1. n - c.adm <= n - d.adm
      BY <2>2, <2>3
    <3>2. c.adm \in Nat /\ d.adm \in Nat
      OBVIOUS
    <3>3. QED
      BY <3>1, <3>2
  <2>5. QED
    BY <2>4
<1>3. QED
  BY <1>1, <1>2 DEF Latest, Eldest

-----------------------------------------------------------------------------
(* What is admitted, cut and heard is of admissions that were made.        *)

\* r carries on from the admissions already made.
Extends(r) ==
    /\ r \in Seq(Passages) /\ Len(r) >= Len(roll)
    /\ \A i \in 1..Len(roll) : r[i] = roll[i]

IsMixer(l, r) ==
    /\ l \subseteq [adm : 1..Len(r), at : Nat] /\ IsFiniteSet(l)
    /\ \A c \in l : c.at <= Length[r[c.adm]]

Units(r) == SUBSET [adm : 1..Len(r), at : Nat]

LEMMA LengthOf ==
    ASSUME NEW p \in Passages
    PROVE  Length[p] \in Nat /\ Length[p] > 0
BY SpanAssumption

LEMMA RollFacts ==
    ASSUME TypeOK
    PROVE  /\ Len(roll) \in Nat /\ Extends(roll) /\ IsMixer(live, roll)
           /\ \A i \in 1..Len(roll) : roll[i] \in Passages
BY LenProperties, ElementOfSeq DEF TypeOK, Contributions, Extends, IsMixer

(* An admission made carries the roll on by one.                           *)
LEMMA RollGrows ==
    ASSUME TypeOK, NEW p \in Passages
    PROVE  /\ Extends(Append(roll, p)) /\ Len(Append(roll, p)) = Len(roll) + 1
           /\ Append(roll, p)[Len(roll) + 1] = p
BY AppendProperties, RollFacts DEF TypeOK, Extends

(* What names admissions already made names them still.                    *)
LEMMA MixerKept ==
    ASSUME TypeOK, NEW r, Extends(r), NEW l, IsMixer(l, roll)
    PROVE  IsMixer(l, r)
<1>1. Len(roll) \in Nat /\ Len(r) \in Nat /\ Len(r) >= Len(roll)
  BY RollFacts, LenProperties DEF Extends
<1>2. \A c \in l : c.adm \in 1..Len(roll) /\ c.at \in Nat /\ c \in [adm : 1..Len(r), at : Nat]
  BY <1>1 DEF IsMixer
<1>3. \A c \in l : r[c.adm] = roll[c.adm]
  BY <1>2 DEF Extends
<1>4. QED
  BY <1>2, <1>3 DEF IsMixer

LEMMA UnitsKept ==
    ASSUME TypeOK, NEW r, Extends(r)
    PROVE  Units(roll) \subseteq Units(r)
<1>1. Len(roll) \in Nat /\ Len(r) \in Nat /\ Len(r) >= Len(roll)
  BY RollFacts, LenProperties DEF Extends
<1>2. 1..Len(roll) \subseteq 1..Len(r)
  BY <1>1
<1>3. QED
  BY <1>2 DEF Units

LEMMA OpenedTyped ==
    ASSUME TypeOK, NEW p \in Passages, NEW at \in Nat, at < Length[p]
    PROVE  IsMixer({Opened(at)}, Append(roll, p))
<1> DEFINE r == Append(roll, p)
<1>1. /\ Len(r) = Len(roll) + 1 /\ Len(roll) \in Nat /\ r[Len(roll) + 1] = p
  BY RollGrows, RollFacts
<1> HIDE DEF r
<1>2. Opened(at) \in [adm : 1..Len(r), at : Nat]
  BY <1>1 DEF Opened
<1>3. Opened(at).at <= Length[r[Opened(at).adm]]
  BY <1>1, LengthOf DEF Opened
<1>4. QED
  BY <1>2, <1>3, FS_Singleton DEF IsMixer, r

LEMMA OriginTyped ==
    ASSUME TypeOK, NEW p \in Passages
    PROVE  Origin(p) \in Nat /\ Origin(p) < Length[p]
<1>1. Length[p] \in Nat /\ Length[p] > 0
  BY LengthOf
<1>2. pendingResume \in Nat \cup {Nowhere}
  BY DEF TypeOK
<1>3. QED
  BY <1>1, <1>2 DEF Origin, Least, Nowhere

LEMMA MixerOfBoth ==
    ASSUME NEW r, NEW l, NEW m, IsMixer(l, r), IsMixer(m, r)
    PROVE  IsMixer(l \cup m, r)
<1>2. IsFiniteSet(l \cup m)
  BY FS_Union DEF IsMixer
<1>3. QED
  BY <1>2 DEF IsMixer

(* admit_due leaves a queue, an admission or none, and drops passages.     *)
LEMMA AdmissionTyped ==
    ASSUME TypeOK, NEW q, IsQueue(q), NEW l, IsMixer(l, roll)
    PROVE  LET a == Admission(q, l)
           IN  /\ IsQueue(a.queue) /\ Extends(a.roll)
               /\ IsMixer(a.live, a.roll)
               /\ a.resume \in Nat \cup {Nowhere} /\ a.dropped \subseteq Passages
               /\ l = {} => \/ a.live = {}
                            \/ \E at \in Nat : a.live = {Opened(at)}
<1> DEFINE a == Admission(q, l)
<1>1. Extends(roll) /\ pendingResume \in Nat \cup {Nowhere} /\ IsMixer({}, roll)
  BY RollFacts, FS_EmptySet DEF TypeOK, IsMixer
<1>2. CASE ~Due(q, l)
  BY <1>1, <1>2 DEF Admission
<1>3. CASE Due(q, l) /\ Head(q) \in Unopenable
  BY <1>1, <1>3, TailQueue, DeviceAssumption DEF Admission, Due
<1>4. CASE Due(q, l) /\ Head(q) \notin Unopenable
  <2>1. Head(q) \in Passages /\ IsQueue(Tail(q))
    BY <1>4, TailQueue DEF Due
  <2>2. a = [queue |-> Tail(q), live |-> l \cup {Opened(Origin(Head(q)))},
             roll |-> Append(roll, Head(q)), resume |-> Nowhere, dropped |-> {}]
    BY <1>4 DEF Admission
  <2>3. Origin(Head(q)) \in Nat /\ IsMixer({Opened(Origin(Head(q)))}, Append(roll, Head(q)))
    BY <2>1, OriginTyped, OpenedTyped
  <2>4. Extends(Append(roll, Head(q)))
    BY <2>1, RollGrows
  <2>5. IsMixer(l \cup {Opened(Origin(Head(q)))}, Append(roll, Head(q)))
    BY <2>3, <2>4, MixerKept, MixerOfBoth
  <2>6. QED
    BY <2>1, <2>2, <2>3, <2>4, <2>5
<1>5. QED
  BY <1>2, <1>3, <1>4

LEMMA HeardEndTyped ==
    ASSUME TypeOK, NEW r, Extends(r)
    PROVE  NewAdmissions(r) \in Seq(Nat) /\ Len(NewAdmissions(r)) = Len(r)
<1> DEFINE n == Len(r) - Len(roll)
           more == [i \in 1..n |-> 0]
<1>1. n \in Nat /\ Len(roll) \in Nat /\ Len(r) \in Nat
  BY RollFacts, LenProperties DEF Extends
<1>2. more \in Seq(Nat) /\ Len(more) = n
  <2> HIDE DEF n
  <2>1. more \in [1..n -> Nat]
    OBVIOUS
  <2>2. QED
    BY <2>1, <1>1, SeqDef, LenProperties
<1> HIDE DEF more
<1>3. heardEnd \o more \in Seq(Nat) /\ Len(heardEnd \o more) = Len(heardEnd) + Len(more)
  BY <1>2, ConcatProperties DEF TypeOK
<1>4. Len(heardEnd) = Len(roll)
  BY DEF TypeOK
<1>5. QED
  BY <1>1, <1>2, <1>3, <1>4 DEF NewAdmissions, more

-----------------------------------------------------------------------------
(* The ring.                                                               *)

\* A ring of the admissions in r.
IsRing(units, r) == units \in Seq(Units(r)) /\ Len(units) <= RingCap

LEMMA RingTyped ==
    ASSUME TypeOK
    PROVE  IsRing(ring, roll)
BY DEF TypeOK, IsRing, Units, Contributions

LEMMA KeptTyped ==
    ASSUME NEW r, NEW units, IsRing(units, r)
    PROVE  /\ IsRing(Kept(units), r) /\ Len(Kept(units)) <= Fade
           /\ Len(Kept(units)) \in Nat /\ Len(Kept(units)) <= Len(units)
           /\ \A i \in 1..Len(Kept(units)) : Kept(units)[i] = units[i]
<1> DEFINE n == Least(Len(units), Fade)
<1>1. Len(units) \in Nat /\ units \in Seq(Units(r)) /\ RingCap \in Nat /\ Fade \in Nat
  BY LenProperties, DeviceAssumption DEF IsRing
<1>2. n \in Nat /\ n <= Len(units) /\ n <= Fade
  BY <1>1 DEF Least
<1> HIDE DEF n
<1>3. \A i \in 1..n : units[i] \in Units(r)
  BY <1>1, <1>2, ElementOfSeq
<1>4. /\ SubSeq(units, 1, n) \in Seq(Units(r))
      /\ Len(SubSeq(units, 1, n)) = IF 1 <= n THEN n - 1 + 1 ELSE 0
      /\ \A i \in 1..(n - 1 + 1) : SubSeq(units, 1, n)[i] = units[1 + i - 1]
  BY <1>2, <1>3, SubSeqProperties
<1>5. Kept(units) = SubSeq(units, 1, n)
  BY DEF Kept, n
<1> DEFINE k == SubSeq(units, 1, n)
<1>6. k \in Seq(Units(r)) /\ Len(k) = n /\ \A i \in 1..n : k[i] = units[i]
  BY <1>2, <1>4
<1> HIDE DEF k
<1>7. IsRing(k, r)
  BY <1>1, <1>2, <1>6 DEF IsRing
<1>8. QED
  BY <1>2, <1>5, <1>6, <1>7 DEF k

LEMMA ForgottenTyped ==
    ASSUME NEW r, NEW units, IsRing(units, r), NEW adms
    PROVE  IsRing(Forgotten(units, adms), r) /\ Len(Forgotten(units, adms)) = Len(units)
<1> DEFINE f == [i \in 1..Len(units) |-> {c \in units[i] : c.adm \notin adms}]
<1>1. Len(units) \in Nat /\ \A i \in 1..Len(units) : units[i] \in Units(r)
  BY LenProperties, ElementOfSeq DEF IsRing
<1>2. f \in [1..Len(units) -> Units(r)]
  BY <1>1 DEF Units
<1>3. f \in Seq(Units(r)) /\ DOMAIN f = 1..Len(units)
  BY <1>1, <1>2, SeqDef
<1> HIDE DEF f
<1>4. Len(f) = Len(units)
  BY <1>1, <1>3, LenProperties
<1>5. QED
  BY <1>3, <1>4 DEF IsRing, Forgotten, f

LEMMA OnTyped ==
    ASSUME NEW r, NEW l, l \subseteq [adm : 1..Len(r), at : Nat], NEW n \in Nat
    PROVE  On(l, n) \subseteq [adm : 1..Len(r), at : Nat]
<1>1. \A c \in l : [c EXCEPT !.at = @ + n] \in [adm : 1..Len(r), at : Nat]
  OBVIOUS
<1>2. QED
  BY <1>1 DEF On

(* What a cut lays under the fade is of the admission it cuts to.          *)
LEMMA CutOverTyped ==
    ASSUME TypeOK, NEW units, IsRing(units, roll), NEW r, Extends(r),
           NEW l, IsMixer(l, r), NEW n \in Nat
    PROVE  IsRing(CutOver(units, l, n), r) /\ Len(CutOver(units, l, n)) = Len(Kept(units))
<1> DEFINE k == Kept(units)
           laid(i) == IF i > Lead /\ i <= Lead + n THEN On(l, i - Lead - 1) ELSE {}
           f == [i \in 1..Len(k) |-> units[i] \cup laid(i)]
<1>1. IsRing(k, roll) /\ Len(k) \in Nat /\ \A i \in 1..Len(k) : k[i] = units[i]
  BY KeptTyped
<1> HIDE DEF k
<1>2. \A i \in 1..Len(k) : units[i] \in Units(r)
  BY <1>1, UnitsKept, ElementOfSeq DEF IsRing
<1>3. ASSUME NEW i \in 1..Len(k)
      PROVE  laid(i) \in Units(r)
  <2>1. Lead \in Nat /\ i \in Nat
    BY <1>1, DeviceAssumption
  <2>2. ASSUME i > Lead
        PROVE  On(l, i - Lead - 1) \in Units(r)
    <3>1. i - Lead - 1 \in Nat /\ l \subseteq [adm : 1..Len(r), at : Nat]
      BY <2>1, <2>2 DEF IsMixer
    <3>2. QED
      BY <3>1, OnTyped DEF Units
  <2>3. {} \in Units(r)
    BY DEF Units
  <2>4. QED
    BY <2>2, <2>3
<1>4. \A i \in 1..Len(k) : units[i] \cup laid(i) \in Units(r)
  BY <1>2, <1>3 DEF Units
<1> HIDE DEF laid
<1>5. f \in [1..Len(k) -> Units(r)]
  BY <1>4
<1>6. f \in Seq(Units(r)) /\ DOMAIN f = 1..Len(k)
  BY <1>1, <1>5, SeqDef, ZenonT(60)
<1>7. CutOver(units, l, n) = f
  BY DEF CutOver, k, laid
<1> HIDE DEF f
<1>8. Len(f) = Len(k)
  BY <1>1, <1>6, LenProperties
<1>9. IsRing(f, r)
  BY <1>1, <1>6, <1>8 DEF IsRing
<1>10. QED
  BY <1>7, <1>8, <1>9 DEF k

(* A cut mixes no more than the newcomer has.                              *)
LEMMA DecodedTyped ==
    ASSUME NEW units, NEW r, IsRing(units, roll), NEW l, IsMixer(l, r),
           r \in Seq(Passages),
           l = {} \/ \E at \in Nat : l = {Opened(at)}, NEW n \in Decoded(units, l, r)
    PROVE  n \in Nat /\ IsMixer(On(l, n), r)
<1>1. Wanted(units) \in Nat
  BY KeptTyped, DeviceAssumption DEF Wanted
<1>2. \A c \in l : /\ c \in [adm : 1..Len(r), at : Nat]
                   /\ Length[r[c.adm]] \in Nat /\ c.at <= Length[r[c.adm]]
  BY ElementOfSeq, LengthOf DEF IsMixer
<1>3. CASE l = {}
  <2>1. On(l, n) = {} /\ n = 0
    BY <1>3 DEF Decoded, On
  <2>2. QED
    BY <2>1, FS_EmptySet DEF IsMixer
<1>4. CASE l # {}
  <2>1. PICK c : l = {c}
    BY <1>4
  <2>2. n = 0 \/ n = Least(Wanted(units), Length[r[c.adm]] - c.at)
    BY <2>1 DEF Decoded
  <2>3. n \in Nat /\ c.at + n <= Length[r[c.adm]]
    BY <1>1, <1>2, <2>1, <2>2 DEF Least
  <2> DEFINE d == [c EXCEPT !.at = @ + n]
  <2>4. On(l, n) = {d}
    BY <2>1 DEF On
  <2>6. d \in [adm : 1..Len(r), at : Nat] /\ d.adm = c.adm /\ d.at = c.at + n
    BY <1>2, <2>1, <2>3
  <2> HIDE DEF d
  <2>7. IsMixer({d}, r)
    BY <2>3, <2>6, FS_Singleton DEF IsMixer
  <2>8. QED
    BY <2>3, <2>4, <2>7
<1>5. QED
  BY <1>3, <1>4

-----------------------------------------------------------------------------
(* What is heard.                                                          *)

LEMMA CoveringTyped ==
    ASSUME TypeOK
    PROVE  Covering \subseteq [adm : 1..Len(roll), at : Nat]
<1>1. CASE ring = <<>>
  BY <1>1 DEF Covering
<1>2. CASE ring # <<>>
  <2>1. Head(ring) \in Units(roll)
    BY <1>2, RingTyped, HeadTailProperties DEF IsRing
  <2>2. QED
    BY <1>2, <2>1 DEF Covering, Units
<1>3. QED
  BY <1>1, <1>2

LEMMA HeardEndOf ==
    ASSUME TypeOK, NEW adm \in 1..Len(roll)
    PROVE  heardEnd[adm] \in Nat
<1>1. heardEnd \in Seq(Nat) /\ adm \in 1..Len(heardEnd)
  BY DEF TypeOK
<1>2. QED
  BY <1>1, ElementOfSeq

LEMMA AudibleTyped ==
    ASSUME TypeOK
    PROVE  /\ Audible.adm \in 0..Len(roll) /\ Audible.at \in Nat
           /\ HeardNow.adm \in 0..Len(roll) /\ HeardNow.at \in Nat
<1>1. Len(roll) \in Nat /\ lastHeard \in 0..Len(roll)
  BY RollFacts DEF TypeOK
<1>2. CASE Covering # {}
  <2>1. Latest(Covering) \in [adm : 1..Len(roll), at : Nat]
    BY <1>1, <1>2, CoveringTyped, LatestOfUnit
  <2>2. QED
    BY <1>1, <1>2, <2>1 DEF Audible, HeardNow
<1>3. CASE Covering = {}
  <2>1. lastHeard # 0 => heardEnd[lastHeard] \in Nat
    BY <1>1, HeardEndOf
  <2>2. QED
    BY <1>1, <1>3, <2>1 DEF Audible, HeardNow
<1>4. QED
  BY <1>2, <1>3

LEMMA PassageHeardTyped ==
    ASSUME TypeOK
    PROVE  PassageHeard \in Passages \cup {Nobody}
BY AudibleTyped, RollFacts DEF PassageHeard

LEMMA HeardToTyped ==
    ASSUME TypeOK, NEW adm \in 1..Len(roll)
    PROVE  HeardTo(adm) \in Nat \cup {Nowhere}
<1>1. heardEnd[adm] \in Nat
  BY HeardEndOf
<1>2. CASE \E c \in Covering : c.adm = adm
  <2> DEFINE d == CHOOSE c \in Covering : c.adm = adm
  <2>1. d \in Covering
    BY <1>2
  <2> HIDE DEF d
  <2>2. d.at \in Nat
    BY <2>1, CoveringTyped
  <2>3. QED
    BY <1>2, <2>2 DEF HeardTo, d
<1>3. CASE ~\E c \in Covering : c.adm = adm
  BY <1>1, <1>3 DEF HeardTo
<1>4. QED
  BY <1>2, <1>3

-----------------------------------------------------------------------------
(* Verdicts.                                                               *)

Reported == [verdict : Verdicts, heard : Nat]
Reports == [Passages -> Seq(Reported)]

LEMMA VerdictTyped ==
    ASSUME NEW told \in Reports, NEW p \in Passages, NEW v \in Reported
    PROVE  [told EXCEPT ![p] = Append(@, v)] \in Reports
<1>1. Append(told[p], v) \in Seq(Reported)
  BY AppendProperties DEF Reports
<1>2. QED
  BY <1>1 DEF Reports

LEMMA ToldTyped ==
    ASSUME TypeOK, NEW p \in Passages, NEW v \in Verdicts, NEW n \in Nat
    PROVE  Told(p, v, n) \in Reports
<1>1. reports \in Reports
  BY DEF TypeOK, Reports, Reported
<1>2. [verdict |-> v, heard |-> n] \in Reported
  BY DEF Reported
<1>3. QED
  BY <1>1, <1>2, VerdictTyped DEF Told

LEMMA DroppedTyped ==
    ASSUME TypeOK, NEW ps
    PROVE  AllDropped(ps) \in Reports
<1>1. reports \in Reports
  BY DEF TypeOK, Reports, Reported
<1>2. [verdict |-> "dropped", heard |-> 0] \in Reported
  BY DEF Reported, Verdicts
<1>3. \A p \in Passages : Append(reports[p], [verdict |-> "dropped", heard |-> 0]) \in Seq(Reported)
  BY <1>1, <1>2, AppendProperties DEF Reports
<1>4. \A p \in Passages : reports[p] \in Seq(Reported)
  BY <1>1 DEF Reports
<1>5. QED
  BY <1>3, <1>4 DEF AllDropped, Reports

-----------------------------------------------------------------------------
(* What a skip leaves, whatever the queue it starts from.                  *)

LEMMA AfterSkip ==
    ASSUME TypeOK, NEW q, IsQueue(q), SkipFrom(q)
    PROVE  /\ IsQueue(queue') /\ Extends(roll') /\ IsMixer(live', roll')
           /\ heardEnd' \in Seq(Nat) /\ Len(heardEnd') = Len(roll')
           /\ IsRing(ring', roll') /\ pendingResume' \in Nat \cup {Nowhere}
           /\ lastHeard' = lastHeard /\ reports' \in Reports
           /\ shown' \in 0..Len(roll') /\ announced' \in 0..(Len(roll') + 1)
<1>1. /\ Len(roll) \in Nat /\ Extends(roll) /\ IsMixer(live, roll) /\ IsRing(ring, roll)
      /\ heardEnd \in Seq(Nat) /\ Len(heardEnd) = Len(roll)
      /\ pendingResume \in Nat \cup {Nowhere} /\ reports \in Reports
      /\ shown \in 0..Len(roll) /\ announced \in 0..(Len(roll) + 1)
  BY RollFacts, RingTyped DEF TypeOK, Reports, Reported
<1>2. IsMixer({}, roll)
  BY FS_EmptySet DEF IsMixer
<1>3. CASE SkipNothing(q)
  BY <1>1, <1>3 DEF SkipNothing, mixer, output, display
<1>4. CASE SkipToShutdown(q)
  <2>1. IsRing(Kept(ring), roll)
    BY <1>1, KeptTyped
  <2>2. Len(roll) + 1 \in 0..(Len(roll) + 1)
    BY <1>1
  <2>3. QED
    BY <1>1, <1>2, <1>4, <2>1, <2>2 DEF SkipToShutdown
<1>5. CASE SkipToNext(q)
  <2> DEFINE a == Admission(q, {})
             left == Forgotten(ring, Unheard)
  <2>1. /\ IsQueue(a.queue) /\ Extends(a.roll) /\ IsMixer(a.live, a.roll)
        /\ a.resume \in Nat \cup {Nowhere}
        /\ a.live = {} \/ \E at \in Nat : a.live = {Opened(at)}
    BY <1>2, AdmissionTyped
  <2>2. IsRing(left, roll)
    BY <1>1, ForgottenTyped
  <2>3. PICK n \in Decoded(left, a.live, a.roll) :
             /\ queue' = a.queue
             /\ live' = On(a.live, n)
             /\ roll' = a.roll
             /\ pendingResume' = a.resume
             /\ ring' = CutOver(left, a.live, n)
             /\ heardEnd' = NewAdmissions(a.roll)
             /\ shown' = IF a.live = {} THEN 0 ELSE Len(a.roll)
             /\ announced' = Len(roll) + 1
             /\ reports' = AllDropped({roll[adm] : adm \in Unheard} \cup a.dropped)
             /\ lastHeard' = lastHeard
    BY <1>5 DEF SkipToNext
  <2> HIDE DEF a, left
  <2>4. a.roll \in Seq(Passages)
    BY <2>1 DEF Extends
  <2>5. n \in Nat /\ IsMixer(On(a.live, n), a.roll)
    <3> DEFINE l == a.live
               r == a.roll
    <3>1. /\ IsMixer(l, r) /\ r \in Seq(Passages) /\ n \in Decoded(left, l, r)
          /\ l = {} \/ \E at \in Nat : l = {Opened(at)}
      BY <2>1, <2>4
    <3> HIDE DEF l, r
    <3>2. n \in Nat /\ IsMixer(On(l, n), r)
      BY <3>1, <2>2, DecodedTyped
    <3>3. QED
      BY <3>2 DEF l, r
  <2>6. IsRing(CutOver(left, a.live, n), a.roll)
    BY <2>1, <2>2, <2>5, CutOverTyped
  <2>7. NewAdmissions(a.roll) \in Seq(Nat) /\ Len(NewAdmissions(a.roll)) = Len(a.roll)
    BY <2>1, HeardEndTyped
  <2>8. Len(a.roll) \in Nat /\ Len(a.roll) >= Len(roll)
    BY <2>1, LenProperties DEF Extends
  <2>9. shown' \in 0..Len(roll') /\ announced' \in 0..(Len(roll') + 1)
    BY <1>1, <2>3, <2>8
  <2>10. reports' \in Reports
    BY <2>3, DroppedTyped
  <2>11. QED
    BY <2>1, <2>3, <2>5, <2>6, <2>7, <2>9, <2>10
<1>6. QED
  BY <1>3, <1>4, <1>5 DEF SkipFrom

(* The names of admissions, with the roll carried on.                      *)
LEMMA NamesKept ==
    ASSUME TypeOK, NEW r, Extends(r)
    PROVE  /\ lastHeard \in 0..Len(r) /\ shown \in 0..Len(r)
           /\ headAdm \in 0..Len(r) /\ announced \in 0..(Len(r) + 1)
<1>1. Len(roll) \in Nat /\ Len(r) \in Nat /\ Len(r) >= Len(roll)
  BY RollFacts, LenProperties DEF Extends
<1>2. QED
  BY <1>1 DEF TypeOK

-----------------------------------------------------------------------------
(* The shape is kept part by part.                                         *)

Sounding ==
    /\ roll \in Seq(Passages) /\ heardEnd \in Seq(Nat) /\ Len(heardEnd) = Len(roll)
    /\ IsMixer(live, roll) /\ IsRing(ring, roll)
    /\ lastHeard \in 0..Len(roll) /\ shown \in 0..Len(roll)
    /\ announced \in 0..(Len(roll) + 1)
    /\ pendingResume \in Nat \cup {Nowhere}

Judging ==
    /\ headAdm \in 0..Len(roll)
    /\ head \in Passages \cup {Nobody} /\ heard \in Nat
    /\ heardFrom \in Nat \cup {Nowhere} /\ {recorded, handingOver} \subseteq BOOLEAN

Keeping ==
    /\ pc \in {"commands", "look", "show", "settle", "remember", "down"}
    /\ {playing, shutdownSaved} \subseteq BOOLEAN
    /\ disk \in Columns /\ away \in Seq(Passages)

Telling ==
    reports \in Reports /\ listened \in [Passages -> Nat] /\ offered \subseteq Passages

LEMMA ShapeParts ==
    TypeOK <=> IsQueue(queue) /\ Sounding /\ Judging /\ Keeping /\ Telling
BY DEF TypeOK, Sounding, Judging, Keeping, Telling, IsMixer, IsRing, Units,
       Contributions, Reports, Reported

LEMMA ShapeKept ==
    ASSUME IsQueue(queue'), Sounding', Judging', Keeping', Telling'
    PROVE  TypeOK'
BY DEF TypeOK, Sounding, Judging, Keeping, Telling, IsMixer, IsRing, Units,
       Contributions, Reports, Reported, IsQueue

LEMMA AfterSkipSounding ==
    ASSUME TypeOK, NEW q, IsQueue(q), SkipFrom(q),
           UNCHANGED <<judgement, handingOver>>
    PROVE  IsQueue(queue') /\ Sounding' /\ reports' \in Reports
           /\ headAdm' \in 0..Len(roll')
<1>1. Extends(roll') /\ roll' \in Seq(Passages)
  BY AfterSkip DEF Extends
<1>2. lastHeard \in 0..Len(roll') /\ headAdm \in 0..Len(roll')
  BY <1>1, NamesKept
<1>3. QED
  BY <1>1, <1>2, AfterSkip DEF Sounding, judgement, IsMixer, IsRing, Units

-----------------------------------------------------------------------------
(* The shape through each step: commands.                                  *)

LEMMA ArrivedTyped ==
    ASSUME TypeOK, NEW p \in Passages
    PROVE  IsQueue(Append(queue, p)) /\ IsQueue(<<p>> \o queue)
BY ArrivedQueue, PassagesAssumption DEF TypeOK

LEMMA SoundingStays ==
    ASSUME TypeOK, UNCHANGED <<mixer, output, display, handover>>
    PROVE  Sounding'
BY ShapeParts DEF Sounding, mixer, output, display, IsMixer, IsRing, Units

LEMMA JudgingStays ==
    ASSUME TypeOK, UNCHANGED <<roll, judgement, handingOver>>
    PROVE  Judging'
BY ShapeParts DEF Judging, judgement

LEMMA CommandsKeepShape ==
    ASSUME TypeOK,
           \/ Play \/ Pause \/ Skip \/ EnqueueShutdown
           \/ \E p \in Passages : Enqueue(p) \/ EnqueueNext(p) \/ PlayNow(p)
           \/ \E i \in 1..(Cardinality(Passages) + 1) :
                 RemoveQueued(i) \/ \E delta \in {-1, 1} : ShiftQueued(i, delta)
    PROVE  TypeOK'
<1>0. IsQueue(queue) /\ Sounding /\ Judging /\ Keeping /\ Telling
  BY ShapeParts
<1>1. CASE Play
  <2>1. Sounding' /\ Judging'
    BY <1>1, SoundingStays, JudgingStays DEF Play, mixer, handover
  <2>2. Keeping' /\ Telling' /\ IsQueue(queue')
    BY <1>0, <1>1 DEF Play, Keeping, Telling, handover, store, history, IsQueue
  <2>3. QED
    BY <2>1, <2>2, ShapeKept
<1>2. CASE Pause
  <2>1. Sounding' /\ Judging'
    BY <1>2, SoundingStays, JudgingStays DEF Pause, mixer, handover
  <2>2. Keeping' /\ Telling' /\ IsQueue(queue')
    BY <1>0, <1>2 DEF Pause, Keeping, Telling, handover, store, history, IsQueue
  <2>3. QED
    BY <2>1, <2>2, ShapeKept
<1>3. CASE Skip
  <2>1. /\ IsQueue(queue') /\ Sounding' /\ reports' \in Reports
        /\ headAdm' \in 0..Len(roll')
    BY <1>0, <1>3, AfterSkipSounding DEF Skip, handover
  <2>2. Judging' /\ Keeping' /\ Telling'
    BY <1>0, <1>3, <2>1 DEF Skip, Judging, Keeping, Telling, handover, store, judgement
  <2>3. QED
    BY <2>1, <2>2, ShapeKept
<1>4. CASE EnqueueShutdown
  <2>1. Sounding' /\ Judging'
    BY <1>4, SoundingStays, JudgingStays DEF EnqueueShutdown, mixer, handover
  <2>2. Keeping' /\ Telling'
    BY <1>0, <1>4 DEF EnqueueShutdown, Keeping, Telling, handover, store, history
  <2>3. IsQueue(queue')
    BY <1>0, <1>4, ArrivedQueue DEF EnqueueShutdown
  <2>4. QED
    BY <2>1, <2>2, <2>3, ShapeKept
<1>5. ASSUME NEW p \in Passages, Enqueue(p)
      PROVE  TypeOK'
  <2>1. Sounding' /\ Judging'
    BY <1>5, SoundingStays, JudgingStays DEF Enqueue, mixer, handover
  <2>2. Keeping' /\ Telling'
    BY <1>0, <1>5 DEF Enqueue, Keeping, Telling, handover, store
  <2>3. IsQueue(queue')
    BY <1>5, ArrivedTyped DEF Enqueue
  <2>4. QED
    BY <2>1, <2>2, <2>3, ShapeKept
<1>6. ASSUME NEW p \in Passages, EnqueueNext(p)
      PROVE  TypeOK'
  <2>1. Sounding' /\ Judging'
    BY <1>6, SoundingStays, JudgingStays DEF EnqueueNext, mixer, handover
  <2>2. Keeping' /\ Telling'
    BY <1>0, <1>6 DEF EnqueueNext, Keeping, Telling, handover, store
  <2>3. IsQueue(queue')
    BY <1>6, ArrivedTyped DEF EnqueueNext
  <2>4. QED
    BY <2>1, <2>2, <2>3, ShapeKept
<1>7. ASSUME NEW p \in Passages, PlayNow(p)
      PROVE  TypeOK'
  <2>1. /\ IsQueue(queue') /\ Sounding' /\ reports' \in Reports
        /\ headAdm' \in 0..Len(roll')
    BY <1>7, ArrivedTyped, AfterSkipSounding DEF PlayNow, handover
  <2>2. Judging' /\ Keeping' /\ Telling'
    BY <1>0, <1>7, <2>1 DEF PlayNow, Judging, Keeping, Telling, handover, store, judgement
  <2>3. QED
    BY <2>1, <2>2, ShapeKept
<1>8. ASSUME NEW i \in 1..(Cardinality(Passages) + 1), RemoveQueued(i)
      PROVE  TypeOK'
  <2>1. Sounding' /\ Judging'
    BY <1>8, SoundingStays, JudgingStays DEF RemoveQueued, mixer, handover
  <2>2. IsQueue(queue')
    BY <1>0, <1>8, CutQueue DEF RemoveQueued
  <2>3. reports' \in Reports
    <3>1. CASE queue[i] = Shutdown
      BY <1>0, <1>8, <3>1 DEF RemoveQueued, Telling
    <3>2. CASE queue[i] # Shutdown
      <4>1. queue[i] \in Passages
        BY <1>0, <1>8, <3>2, QueueLength DEF RemoveQueued
      <4>2. \A v \in {"dropped", "dequeued"} : Told(queue[i], v, 0) \in Reports
        BY <4>1, ToldTyped DEF Verdicts
      <4>3. QED
        BY <1>8, <3>2, <4>2 DEF RemoveQueued
    <3>3. QED
      BY <3>1, <3>2
  <2>4. Keeping' /\ Telling'
    BY <1>0, <1>8, <2>3 DEF RemoveQueued, Keeping, Telling, handover, store
  <2>5. QED
    BY <2>1, <2>2, <2>4, ShapeKept
<1>9. ASSUME NEW i \in 1..(Cardinality(Passages) + 1), NEW delta \in {-1, 1},
             ShiftQueued(i, delta)
      PROVE  TypeOK'
  <2>1. Sounding' /\ Judging'
    BY <1>9, SoundingStays, JudgingStays DEF ShiftQueued, mixer, handover
  <2>2. Keeping' /\ Telling'
    BY <1>0, <1>9 DEF ShiftQueued, Keeping, Telling, handover, store, history
  <2>3. i \in 1..Len(queue) /\ Len(queue) \in Nat
    BY <1>0, <1>9, QueueLength DEF ShiftQueued
  <2>4. ShiftedTo(queue, i, delta) \in 1..Len(queue)
    BY <2>3 DEF ShiftedTo, Clamp
  <2>5. IsQueue(queue')
    BY <1>0, <1>9, <2>3, <2>4, MovedQueue DEF ShiftQueued
  <2>6. QED
    BY <2>1, <2>2, <2>5, ShapeKept
<1>10. QED
  BY <1>1, <1>2, <1>3, <1>4, <1>5, <1>6, <1>7, <1>8, <1>9

-----------------------------------------------------------------------------
(* A seek, which puts back what was mixed behind the passage sought in.    *)

LEMMA BehindIsPassages ==
    ASSUME TypeOK, NEW behind \in InOrder(Behind)
    PROVE  [i \in 1..Cardinality(Behind) |-> roll[behind[i].adm]] \in Seq(Passages)
<1> DEFINE n == Cardinality(Behind)
           f == [i \in 1..n |-> roll[behind[i].adm]]
<1>1. Behind \subseteq live /\ IsFiniteSet(live)
  BY DEF Behind, TypeOK
<1>2. n \in Nat
  BY <1>1, FS_Subset, FS_CardinalityType
<1> HIDE DEF n
<1>3. behind \in [1..n -> Behind]
  BY DEF InOrder, n
<1>4. \A i \in 1..n : behind[i].adm \in 1..Len(roll)
  <2>1. live \subseteq [adm : 1..Len(roll), at : Nat]
    BY DEF TypeOK, Contributions
  <2>2. \A i \in 1..n : behind[i] \in [adm : 1..Len(roll), at : Nat]
    BY <1>1, <1>3, <2>1
  <2>3. QED
    BY <2>2
<1>5. f \in [1..n -> Passages]
  BY <1>4, RollFacts
<1>6. QED
  BY <1>2, <1>5, SeqDef DEF n

LEMMA SeekKeepsShape ==
    ASSUME TypeOK, NEW at \in SeekPoints, Seek(at)
    PROVE  TypeOK'
<1>0. IsQueue(queue) /\ Sounding /\ Judging /\ Keeping /\ Telling
  BY ShapeParts
<1>1. roll[shown] \in Passages /\ at \in Nat /\ at < Length[roll[shown]] /\ shown # 0
  BY <1>0, RollFacts, DeviceAssumption DEF Seek, Sounding
<1>2. /\ Extends(roll') /\ roll' = Append(roll, roll[shown])
      /\ roll' \in Seq(Passages) /\ Len(roll') = Len(roll) + 1
  BY <1>1, RollGrows DEF Seek, Extends
<1>3. IsMixer({Opened(at)}, roll')
  BY <1>1, <1>2, OpenedTyped
<1>4. PICK n \in Decoded(ring, {Opened(at)}, roll') :
          /\ live' = On({Opened(at)}, n)
          /\ ring' = CutOver(ring, {Opened(at)}, n)
  BY DEF Seek
<1>5. n \in Nat /\ IsMixer(live', roll')
  <2>1. IsRing(ring, roll)
    BY RingTyped
  <2>2. n \in Nat /\ IsMixer(On({Opened(at)}, n), roll')
    BY <1>1, <1>2, <1>3, <2>1, DecodedTyped
  <2>3. QED
    BY <1>4, <2>2
<1>6. IsRing(ring', roll')
  BY <1>2, <1>3, <1>4, <1>5, RingTyped, CutOverTyped
<1>7. heardEnd' \in Seq(Nat) /\ Len(heardEnd') = Len(roll')
  BY <1>2, HeardEndTyped DEF Seek
<1>8. Len(roll) \in Nat /\ lastHeard \in 0..Len(roll') /\ headAdm \in 0..Len(roll')
  BY <1>2, RollFacts, NamesKept
<1>9. Sounding'
  <2>1. /\ lastHeard' = lastHeard /\ shown' = Len(roll') /\ announced' = Len(roll')
        /\ pendingResume' = pendingResume
    BY DEF Seek
  <2>2. shown' \in 0..Len(roll') /\ announced' \in 0..(Len(roll') + 1)
    BY <1>2, <1>8, <2>1
  <2>3. QED
    BY <1>0, <1>2, <1>5, <1>6, <1>7, <1>8, <2>1, <2>2
       DEF Sounding, IsMixer, IsRing, Units
<1>10. Judging' /\ Keeping' /\ Telling'
  BY <1>0, <1>8 DEF Seek, Judging, Keeping, Telling, handover, store, history, Nowhere
<1>11. IsQueue(queue')
  <2>1. PICK behind \in InOrder(Behind) :
           queue' = [i \in 1..Cardinality(Behind) |-> roll[behind[i].adm]] \o queue
    BY DEF Seek
  <2> DEFINE back == [i \in 1..Cardinality(Behind) |-> roll[behind[i].adm]]
  <2>2. IsQueue(back) /\ \A i \in 1..Len(back) : back[i] # Shutdown
    BY BehindIsPassages, PassagesQueue
  <2> HIDE DEF back
  <2>3. IsQueue(back \o queue)
    BY <1>0, <2>2, JoinedQueue
  <2>4. QED
    BY <2>1, <2>3 DEF back
<1>12. QED
  BY <1>9, <1>10, <1>11, ShapeKept

-----------------------------------------------------------------------------
(* A pass: mixing.                                                         *)

LEMMA GivingTyped ==
    ASSUME NEW r, r \in Seq(Passages), NEW l, IsMixer(l, r)
    PROVE  IsMixer(Giving(l, r), r) /\ IsMixer(On(Giving(l, r), 1), r)
<1> DEFINE g == Giving(l, r)
           next == [c \in g |-> [c EXCEPT !.at = @ + 1]]
<1>1. /\ g \subseteq l /\ l \subseteq [adm : 1..Len(r), at : Nat] /\ IsFiniteSet(l)
      /\ \A c \in g : c.at < Length[r[c.adm]] /\ Length[r[c.adm]] \in Nat
  BY ElementOfSeq, LengthOf DEF Giving, IsMixer
<1>2. IsFiniteSet(g)
  BY <1>1, FS_Subset
<1>3. IsMixer(g, r)
  BY <1>1, <1>2 DEF IsMixer
<1> HIDE DEF g
<1>4. next \in Surjection(g, On(g, 1))
  BY DEF Surjection, On
<1>5. IsFiniteSet(On(g, 1))
  BY <1>2, <1>4, FS_Surjection
<1>6. \A d \in On(g, 1) : /\ d \in [adm : 1..Len(r), at : Nat]
                          /\ d.at <= Length[r[d.adm]]
  <2> TAKE d \in On(g, 1)
  <2>1. PICK c \in g : d = [c EXCEPT !.at = @ + 1]
    BY DEF On
  <2>2. c \in [adm : 1..Len(r), at : Nat] /\ d.adm = c.adm /\ d.at = c.at + 1
    BY <1>1, <2>1
  <2>3. QED
    BY <1>1, <2>1, <2>2
<1>7. IsMixer(On(g, 1), r)
  BY <1>5, <1>6 DEF IsMixer
<1>8. QED
  BY <1>3, <1>7 DEF g

LEMMA MixKeepsShape ==
    ASSUME TypeOK, Mix
    PROVE  TypeOK'
<1> DEFINE a == Admission(queue, live)
           giving == Giving(a.live, a.roll)
           mixes == MixRoom /\ giving # {}
<1>0. IsQueue(queue) /\ Sounding /\ Judging /\ Keeping /\ Telling
  BY ShapeParts
<1>1. /\ IsQueue(a.queue) /\ Extends(a.roll) /\ IsMixer(a.live, a.roll)
      /\ a.resume \in Nat \cup {Nowhere}
  BY <1>0, AdmissionTyped DEF Sounding
<1>2. /\ queue' = IF BadHead(a) THEN Tail(a.queue) ELSE a.queue
      /\ reports' = AllDropped(a.dropped \cup (IF BadHead(a) THEN {Head(a.queue)} ELSE {}))
      /\ roll' = a.roll
      /\ heardEnd' = NewAdmissions(a.roll)
      /\ pendingResume' = a.resume
      /\ ring' = IF mixes THEN Append(ring, giving) ELSE ring
      /\ live' = Giving(IF mixes THEN On(giving, 1) ELSE giving, a.roll)
  BY DEF Mix
<1>3. IsQueue(queue')
  BY <1>1, <1>2, TailQueue DEF BadHead
<1> HIDE DEF a
<1>4. a.roll \in Seq(Passages)
  BY <1>1 DEF Extends
<1>5. IsMixer(giving, a.roll) /\ IsMixer(On(giving, 1), a.roll)
  BY <1>1, <1>4, GivingTyped
<1> HIDE DEF giving
<1>6. IsMixer(live', a.roll)
  BY <1>2, <1>4, <1>5, GivingTyped
<1>7. IsRing(ring', a.roll)
  <2>1. ring \in Seq(Units(a.roll)) /\ Len(ring) <= RingCap /\ Len(ring) \in Nat
    BY <1>1, UnitsKept, SeqMonotonic, RingTyped, LenProperties DEF IsRing
  <2>2. giving \in Units(a.roll)
    BY <1>5 DEF IsMixer, Units
  <2>3. CASE mixes
    <3>1. /\ Append(ring, giving) \in Seq(Units(a.roll))
          /\ Len(Append(ring, giving)) = Len(ring) + 1
      BY <2>1, <2>2, AppendProperties
    <3>2. Len(ring) < RingCap /\ RingCap \in Nat
      BY <2>3, DeviceAssumption DEF MixRoom
    <3>3. QED
      BY <1>2, <2>1, <2>3, <3>1, <3>2 DEF IsRing
  <2>4. CASE ~mixes
    BY <1>2, <2>1, <2>4 DEF IsRing
  <2>5. QED
    BY <2>3, <2>4
<1>8. heardEnd' \in Seq(Nat) /\ Len(heardEnd') = Len(roll')
  BY <1>1, <1>2, HeardEndTyped
<1>9. /\ lastHeard \in 0..Len(roll') /\ shown \in 0..Len(roll')
      /\ headAdm \in 0..Len(roll') /\ announced \in 0..(Len(roll') + 1)
  BY <1>1, <1>2, NamesKept
<1>10. Sounding'
  <2>1. lastHeard' = lastHeard /\ shown' = shown /\ announced' = announced
    BY DEF Mix, display
  <2>2. /\ roll' \in Seq(Passages) /\ pendingResume' \in Nat \cup {Nowhere}
        /\ IsMixer(live', roll') /\ IsRing(ring', roll')
    BY <1>1, <1>2, <1>4, <1>6, <1>7
  <2>3. QED
    BY <1>8, <1>9, <2>1, <2>2 DEF Sounding, IsMixer, IsRing, Units
<1>11. Judging'
  BY <1>0, <1>9 DEF Mix, Judging, judgement, handover
<1>12. reports' \in Reports
  BY <1>2, DroppedTyped
<1>13. Keeping' /\ Telling'
  BY <1>0, <1>12 DEF Mix, Keeping, Telling, handover, store
<1>14. QED
  BY <1>3, <1>10, <1>11, <1>13, ShapeKept

-----------------------------------------------------------------------------
(* A pass: judging what was heard.                                         *)

LEMMA TailTyped ==
    ASSUME TypeOK
    PROVE  HeadTail \in Nat
<1>1. headAdm \in 0..Len(roll) /\ heardFrom \in Nat \cup {Nowhere} /\ Len(roll) \in Nat
  BY RollFacts DEF TypeOK
<1>2. CASE headAdm = 0 \/ heardFrom = Nowhere
  BY <1>2 DEF HeadTail
<1>3. CASE headAdm # 0 /\ heardFrom # Nowhere
  <2>1. HeardTo(headAdm) \in Nat \cup {Nowhere} /\ heardFrom \in Nat
    BY <1>1, <1>3, HeardToTyped
  <2>2. QED
    BY <1>3, <2>1 DEF HeadTail, Nowhere
<1>4. QED
  BY <1>2, <1>3

LEMMA CreditedTyped ==
    ASSUME NEW told \in Reports, NEW p \in Passages \cup {Nobody}, NEW units \in Nat,
           NEW done \in BOOLEAN, Credited(p, units, done, told)
    PROVE  heard' \in Nat /\ recorded' \in BOOLEAN /\ reports' \in Reports
<1> DEFINE plays == ~done /\ p # Nobody /\ CountsAsPlay(units, Length[p])
           v == [verdict |-> "played", heard |-> units]
<1>1. /\ heard' = units /\ recorded' = (done \/ plays)
      /\ reports' = IF plays THEN [told EXCEPT ![p] = Append(@, v)] ELSE told
  BY DEF Credited
<1>2. v \in Reported
  BY DEF Reported, Verdicts
<1> HIDE DEF v
<1>3. plays => [told EXCEPT ![p] = Append(@, v)] \in Reports
  BY <1>2, VerdictTyped
<1>4. recorded' \in BOOLEAN
  BY <1>1
<1> HIDE DEF plays
<1>5. QED
  BY <1>1, <1>3, <1>4

LEMMA LooksKeepShape ==
    ASSUME TypeOK, LookPaused \/ LookDeparted \/ LookOn
    PROVE  TypeOK'
<1>0. IsQueue(queue) /\ Sounding /\ Judging /\ Keeping /\ Telling
  BY ShapeParts
<1>1. /\ PassageHeard \in Passages \cup {Nobody}
      /\ HeardNow.adm \in 0..Len(roll) /\ HeardNow.at \in Nat
  BY AudibleTyped, PassageHeardTyped
<1>2. IsQueue(queue') /\ Sounding'
  BY <1>0, SoundingStays
     DEF LookPaused, LookDeparted, LookOn, mixer, output, display, handover, Sounding, IsMixer, IsRing, Units
<1>3. CASE LookPaused
  <2>1. Judging' /\ Keeping' /\ Telling'
    BY <1>0, <1>3 DEF LookPaused, Judging, Keeping, Telling, mixer, judgement, handover, store, history
  <2>2. QED
    BY <1>2, <2>1, ShapeKept
<1>4. CASE LookDeparted
  <2> DEFINE arrived == PassageHeard # Nobody /\ countedElsewhere = PassageHeard
             told == IF Unjudged THEN Told(head, "skipped", heard + HeadTail) ELSE reports
  <2>1. told \in Reports
    <3>1. Unjudged => head \in Passages
      BY <1>0 DEF Unjudged, Judging
    <3>2. heard + HeadTail \in Nat
      BY <1>0, TailTyped DEF Judging
    <3>3. Unjudged => Told(head, "skipped", heard + HeadTail) \in Reports
      BY <3>1, <3>2, ToldTyped DEF Verdicts
    <3>4. QED
      BY <1>0, <3>3 DEF Telling
  <2>2. arrived \in BOOLEAN
    OBVIOUS
  <2>3. Credited(PassageHeard, 0, arrived, told)
    BY <1>4 DEF LookDeparted
  <2> HIDE DEF arrived, told
  <2>4. heard' \in Nat /\ recorded' \in BOOLEAN /\ reports' \in Reports
    BY <1>1, <2>1, <2>2, <2>3, CreditedTyped
  <2>5. Judging'
    BY <1>0, <1>1, <1>4, <2>4 DEF LookDeparted, Judging, mixer
  <2>6. Keeping' /\ Telling'
    BY <1>0, <1>4, <2>4 DEF LookDeparted, Keeping, Telling, store
  <2>7. QED
    BY <1>2, <2>5, <2>6, ShapeKept
<1>5. CASE LookOn
  <2> DEFINE from == ComparableFrom
             moved == IF from # Nowhere /\ HeardNow.at > from THEN HeardNow.at - from ELSE 0
             units == IF head = Nobody THEN heard ELSE heard + moved
  <2>1. from \in Nat \cup {Nowhere}
    BY <1>0 DEF ComparableFrom, Judging
  <2>2. units \in Nat
    BY <1>0, <1>1, <2>1 DEF Judging, Nowhere
  <2>3. Credited(head, units, recorded, reports)
    BY <1>5 DEF LookOn
  <2> HIDE DEF units
  <2>4. heard' \in Nat /\ recorded' \in BOOLEAN /\ reports' \in Reports
    BY <1>0, <2>2, <2>3, CreditedTyped DEF Judging, Telling
  <2>5. Judging'
    BY <1>0, <1>1, <1>5, <2>4 DEF LookOn, Judging, mixer, handover
  <2>6. Keeping' /\ Telling'
    BY <1>0, <1>5, <2>4 DEF LookOn, Keeping, Telling, store, handover
  <2>7. QED
    BY <1>2, <2>5, <2>6, ShapeKept
<1>6. QED
  BY <1>3, <1>4, <1>5

-----------------------------------------------------------------------------
(* A pass: the display, the shutdown, the disk and the refill.             *)

\* The disk with another queue.
LEMMA ColumnsKept ==
    ASSUME disk \in Columns, NEW q \in Seq(Passages)
    PROVE  [disk EXCEPT !.queue = q] \in Columns
BY DEF Columns

LEMMA ShowKeepsShape ==
    ASSUME TypeOK, Show
    PROVE  TypeOK'
<1>0. IsQueue(queue) /\ Sounding /\ Judging /\ Keeping /\ Telling
  BY ShapeParts
<1>1. Audible.adm \in 0..Len(roll) /\ Len(roll) \in Nat
  BY AudibleTyped, RollFacts
<1>2. announced' \in 0..(Len(roll) + 1) /\ shown' \in 0..Len(roll)
  BY <1>0, <1>1 DEF Show, Announcement, Sounding
<1>3. Sounding'
  BY <1>0, <1>2 DEF Show, Sounding, mixer, output, IsMixer, IsRing, Units
<1>4. IsQueue(queue') /\ Judging' /\ Keeping' /\ Telling'
  BY <1>0 DEF Show, Judging, Keeping, Telling, mixer, judgement, handover, store, history
<1>5. QED
  BY <1>3, <1>4, ShapeKept

LEMMA ExecuteShutdownKeepsShape ==
    ASSUME TypeOK, ExecuteShutdown
    PROVE  TypeOK'
<1>0. IsQueue(queue) /\ Sounding /\ Judging /\ Keeping /\ Telling
  BY ShapeParts
<1>1. IsQueue(Tail(queue))
  BY <1>0, TailQueue DEF ExecuteShutdown, ShutdownDue, NextIsShutdown
<1>2. Without(Tail(queue), Shutdown) \in Seq(Passages)
  BY <1>1, WithoutShutdown
<1>3. disk' \in Columns
  BY <1>0, <1>2 DEF ExecuteShutdown, Keeping, Columns
<1>4. shown' \in 0..Len(roll) /\ announced' \in 0..(Len(roll) + 1)
  BY RollFacts DEF ExecuteShutdown
<1>5. Sounding'
  BY <1>0, <1>4 DEF ExecuteShutdown, Sounding, mixer, output, IsMixer, IsRing, Units
<1>6. IsQueue(queue') /\ Judging' /\ Keeping' /\ Telling'
  BY <1>0, <1>1, <1>3
     DEF ExecuteShutdown, Judging, Keeping, Telling, mixer, judgement, handover, history
<1>7. QED
  BY <1>5, <1>6, ShapeKept

LEMMA AudibleOfTyped ==
    ASSUME TypeOK, NEW c \in live
    PROVE  AudibleOf(c) \in Nat
<1>1. c.adm \in 1..Len(roll) /\ c.at \in Nat /\ Len(ring) \in Nat
  BY RingTyped, LenProperties, RollFacts DEF IsMixer, IsRing
<1>2. Length[roll[c.adm]] \in Nat /\ Audible.at \in Nat
  BY <1>1, RollFacts, LengthOf, AudibleTyped
<1>3. QED
  BY <1>1, <1>2 DEF AudibleOf, Least

LEMMA ForemostTyped ==
    ASSUME TypeOK
    PROVE  /\ live # {} => Eldest(live) \in live /\ Foremost \in Passages
           /\ live = {} => Foremost = Nobody
<1>1. live \subseteq [adm : 1..Len(roll), at : Nat] /\ Len(roll) \in Nat
  BY RollFacts DEF IsMixer
<1>2. live # {} => Eldest(live) \in live
  BY <1>1, LatestOfUnit
<1>3. live # {} => roll[Eldest(live).adm] \in Passages
  BY <1>1, <1>2, RollFacts
<1>4. QED
  BY <1>2, <1>3 DEF Foremost

LEMMA PersistKeepsShape ==
    ASSUME TypeOK, Persist
    PROVE  TypeOK'
<1>0. IsQueue(queue) /\ Sounding /\ Judging /\ Keeping /\ Telling
  BY ShapeParts
<1>1. disk' \in Columns
  <2> DEFINE at == IF live = {} THEN 0 ELSE AudibleOf(Eldest(live))
  <2>1. at \in Nat /\ Foremost \in Passages \cup {Nobody} /\ playing \in BOOLEAN
    BY <1>0, ForemostTyped, AudibleOfTyped DEF Keeping
  <2>2. \/ disk' = [disk EXCEPT !.resume = Foremost, !.playing = playing, !.at = at]
        \/ disk' = disk
    BY DEF Persist
  <2> HIDE DEF at
  <2>3. QED
    BY <1>0, <2>1, <2>2 DEF Keeping, Columns
<1>2. Sounding'
  BY <1>0 DEF Persist, Sounding, mixer, output, display, IsMixer, IsRing, Units
<1>3. IsQueue(queue') /\ Judging' /\ Keeping' /\ Telling'
  BY <1>0, <1>1 DEF Persist, Judging, Keeping, Telling, mixer, judgement, handover, history
<1>4. QED
  BY <1>2, <1>3, ShapeKept

LEMMA RefillKeepsShape ==
    ASSUME TypeOK, Refill
    PROVE  TypeOK'
<1>0. IsQueue(queue) /\ Sounding /\ Judging /\ Keeping /\ Telling
  BY ShapeParts
<1>1. PICK picks \in Picks \cup {<<>>} :
          /\ queue' = queue \o picks
          /\ offered' = offered \cup {picks[i] : i \in 1..Len(picks)}
  BY DEF Refill
<1>2. picks \in Seq(Passages)
  <2>1. picks = <<>> \/ \E p \in Passages : picks = <<p>>
    BY <1>1 DEF Picks
  <2>2. <<>> \in Seq(Passages)
    BY EmptySeq
  <2>3. \A p \in Passages : <<p>> \in Seq(Passages)
    OBVIOUS
  <2>4. QED
    BY <2>1, <2>2, <2>3
<1>3. IsQueue(queue')
  BY <1>0, <1>1, <1>2, PassagesQueue, JoinedQueue
<1>4. offered' \subseteq Passages
  BY <1>0, <1>1, <1>2, ElementOfSeq DEF Telling
<1>5. SubSeq(away, 2, Len(away)) \in Seq(Passages)
  <2>1. away \in Seq(Passages) /\ Len(away) \in Nat
    BY <1>0, LenProperties DEF Keeping
  <2>2. \A i \in 2..Len(away) : away[i] \in Passages
    BY <2>1, ElementOfSeq
  <2>3. QED
    BY <2>1, <2>2, SubSeqProperties
<1>6. disk' \in Columns
  <2>1. Without(queue', Shutdown) \in Seq(Passages)
    BY <1>3, WithoutShutdown
  <2>2. QED
    BY <1>0, <1>5, <2>1, ColumnsKept DEF Refill, Keeping
<1>7. Sounding'
  BY <1>0 DEF Refill, Sounding, mixer, output, display, IsMixer, IsRing, Units
<1>8. Judging' /\ Keeping' /\ Telling'
  BY <1>0, <1>4, <1>6 DEF Refill, Judging, Keeping, Telling, mixer, judgement, handover
<1>9. QED
  BY <1>3, <1>7, <1>8, ShapeKept

-----------------------------------------------------------------------------
(* The other backend.                                                      *)

LEMMA HandOffKeepsShape ==
    ASSUME TypeOK, HandOff
    PROVE  TypeOK'
<1>0. IsQueue(queue) /\ Sounding /\ Judging /\ Keeping /\ Telling
  BY ShapeParts
<1>1. Without(queue, Shutdown) \in Seq(Passages)
  BY <1>0, WithoutShutdown
<1>2. away' \in Seq(Passages)
  <2>1. (IF live = {} THEN <<>> ELSE <<Foremost>>) \in Seq(Passages)
    BY ForemostTyped, EmptySeq
  <2>2. QED
    BY <1>1, <2>1, ConcatProperties DEF HandOff
<1>3. IsQueue(<<>>)
  BY EmptySeq, PassagesQueue
<1>4. SkipFrom(<<>>)
  BY DEF HandOff
<1>5. /\ IsQueue(queue') /\ Extends(roll') /\ IsMixer(live', roll')
      /\ heardEnd' \in Seq(Nat) /\ Len(heardEnd') = Len(roll')
      /\ IsRing(ring', roll') /\ pendingResume' \in Nat \cup {Nowhere}
      /\ lastHeard' = lastHeard /\ reports' \in Reports
      /\ shown' \in 0..Len(roll') /\ announced' \in 0..(Len(roll') + 1)
  BY <1>3, <1>4, AfterSkip
<1>6. lastHeard \in 0..Len(roll') /\ headAdm \in 0..Len(roll') /\ roll' \in Seq(Passages)
  BY <1>5, NamesKept DEF Extends
<1>7. Sounding'
  BY <1>5, <1>6 DEF Sounding, IsMixer, IsRing, Units
<1>8. Latched \in BOOLEAN
  BY DEF Latched
<1>9. Judging'
  BY <1>0, <1>6, <1>8 DEF HandOff, Judging, judgement
<1>10. Keeping' /\ Telling'
  BY <1>0, <1>1, <1>2, <1>5, ColumnsKept DEF HandOff, Keeping, Telling
<1>11. QED
  BY <1>5, <1>7, <1>9, <1>10, ShapeKept

LEMMA HandBackKeepsShape ==
    ASSUME TypeOK, NEW at \in SeekPoints, NEW k \in 1..Cardinality(Passages), HandBack(k, at)
    PROVE  TypeOK'
<1>0. IsQueue(queue) /\ Sounding /\ Judging /\ Keeping /\ Telling
  BY ShapeParts
<1>1. away \in Seq(Passages) /\ Len(away) \in Nat /\ k \in 1..Len(away) /\ at \in Nat
  BY <1>0, LenProperties, DeviceAssumption DEF HandBack, Keeping
<1>2. SubSeq(away, k, Len(away)) \in Seq(Passages)
  <2>1. \A i \in k..Len(away) : away[i] \in Passages
    BY <1>1, ElementOfSeq
  <2>2. QED
    BY <1>1, <2>1, SubSeqProperties
<1>3. IsQueue(queue')
  BY <1>0, <1>2, PassagesQueue, JoinedQueue DEF HandBack
<1>4. reports' \in Reports
  <2>1. [verdict |-> "guest", heard |-> 0] \in Reported
    BY DEF Reported, Verdicts
  <2>2. \A p \in Passages : reports[p] \in Seq(Reported)
    BY <1>0 DEF Telling, Reports
  <2>3. \A p \in Passages : Append(reports[p], [verdict |-> "guest", heard |-> 0]) \in Seq(Reported)
    BY <2>1, <2>2, AppendProperties
  <2>4. QED
    BY <2>2, <2>3 DEF HandBack, Reports
<1>5. disk' \in Columns
  BY <1>0, <1>3, WithoutShutdown, ColumnsKept DEF HandBack, Keeping
<1>6. Sounding'
  BY <1>0, <1>1 DEF HandBack, Sounding, output, display, IsMixer, IsRing, Units
<1>7. Judging' /\ Telling'
  BY <1>0, <1>4 DEF HandBack, Judging, Telling, judgement
<1>8. Keeping'
  <2>1. away' \in Seq(Passages)
    BY EmptySeq DEF HandBack
  <2>2. QED
    BY <1>0, <1>5, <2>1 DEF HandBack, Keeping
<1>9. QED
  BY <1>3, <1>6, <1>7, <1>8, ShapeKept

-----------------------------------------------------------------------------
(* The device and the power.                                               *)

LEMMA DeviceKeepsShape ==
    ASSUME TypeOK, DeviceTakes
    PROVE  TypeOK'
<1>0. IsQueue(queue) /\ Sounding /\ Judging /\ Keeping /\ Telling
  BY ShapeParts
<1> DEFINE unit == Head(ring)
<1>1. ring # <<>> /\ ring' = Tail(ring)
  BY DEF DeviceTakes
<1>2. /\ unit \subseteq [adm : 1..Len(roll), at : Nat]
      /\ IsRing(Tail(ring), roll)
  <2>1. ring \in Seq(Units(roll)) /\ Len(ring) <= RingCap /\ Len(ring) \in Nat /\ RingCap \in Nat
    BY RingTyped, LenProperties, DeviceAssumption DEF IsRing
  <2>2. /\ Head(ring) \in Units(roll) /\ Tail(ring) \in Seq(Units(roll))
        /\ Len(Tail(ring)) = Len(ring) - 1
    BY <1>1, <2>1, HeadTailProperties
  <2>3. QED
    BY <2>1, <2>2 DEF IsRing, Units
<1>3. heardEnd' \in Seq(Nat) /\ Len(heardEnd') = Len(roll)
  <2>1. heardEnd' = [a \in 1..Len(heardEnd) |->
                        IF \E c \in unit : c.adm = a
                        THEN (CHOOSE c \in unit : c.adm = a).at + 1
                        ELSE heardEnd[a]]
    BY DEF DeviceTakes
  <2> HIDE DEF unit
  <2>2. Len(heardEnd) = Len(roll) /\ Len(roll) \in Nat /\ \A a \in 1..Len(heardEnd) : heardEnd[a] \in Nat
    BY <1>0, HeardEndOf, RollFacts DEF Sounding
  <2>3. ASSUME NEW a, \E c \in unit : c.adm = a
        PROVE  (CHOOSE c \in unit : c.adm = a).at + 1 \in Nat
    <3>1. (CHOOSE c \in unit : c.adm = a) \in unit
      BY <2>3
    <3>2. QED
      BY <1>2, <3>1
  <2>4. heardEnd' \in [1..Len(roll) -> Nat]
    BY <2>1, <2>2, <2>3
  <2>5. heardEnd' \in Seq(Nat) /\ DOMAIN heardEnd' = 1..Len(roll)
    BY <2>2, <2>4, SeqDef
  <2>6. QED
    BY <2>2, <2>5, LenProperties
<1>4. lastHeard' \in 0..Len(roll)
  <2>1. unit # {} => Latest(unit) \in unit
    BY <1>2, RollFacts, LatestOfUnit
  <2>2. unit # {} => Latest(unit).adm \in 1..Len(roll)
    BY <1>2, <2>1
  <2>3. Len(roll) \in Nat
    BY RollFacts
  <2>4. QED
    BY <1>0, <2>2, <2>3 DEF DeviceTakes, Sounding
<1>5. listened' \in [Passages -> Nat]
  BY <1>0 DEF DeviceTakes, Telling
<1>6. Sounding'
  BY <1>0, <1>1, <1>2, <1>3, <1>4
     DEF DeviceTakes, Sounding, mixer, display, IsMixer, IsRing, Units
<1>7. IsQueue(queue') /\ Judging' /\ Keeping' /\ Telling'
  BY <1>0, <1>5 DEF DeviceTakes, Judging, Keeping, Telling, mixer, judgement, handover, store
<1>8. QED
  BY <1>6, <1>7, ShapeKept

LEMMA NothingTyped ==
    /\ <<>> \in Seq(Passages) /\ <<>> \in Seq(Nat) /\ IsQueue(<<>>)
    /\ Len(<<>>) = 0 /\ IsMixer({}, <<>>) /\ IsRing(<<>>, <<>>)
<1>1. <<>> \in Seq(Passages) /\ <<>> \in Seq(Nat) /\ Len(<<>>) = 0
      /\ <<>> \in Seq(Units(<<>>))
  BY EmptySeq
<1>2. IsQueue(<<>>)
  BY <1>1, PassagesQueue
<1>3. IsMixer({}, <<>>)
  BY FS_EmptySet DEF IsMixer
<1>4. IsRing(<<>>, <<>>)
  BY <1>1, DeviceAssumption DEF IsRing
<1>5. QED
  BY <1>1, <1>2, <1>3, <1>4

LEMMA CrashKeepsShape ==
    ASSUME TypeOK, Crash
    PROVE  TypeOK'
<1>0. IsQueue(queue) /\ Sounding /\ Judging /\ Keeping /\ Telling
  BY ShapeParts
<1>1. Sounding'
  BY NothingTyped DEF Crash, Sounding, IsMixer, IsRing, Units
<1>2. IsQueue(queue') /\ Judging'
  <2>1. IsQueue(queue')
    BY NothingTyped DEF Crash
  <2>2. /\ headAdm' = 0 /\ roll' = <<>> /\ head' = Nobody /\ heard' = 0
        /\ heardFrom' = Nowhere /\ recorded' = FALSE /\ handingOver' = FALSE
    BY DEF Crash
  <2>3. {recorded', handingOver'} \subseteq BOOLEAN
    BY <2>2
  <2>4. Len(roll') = 0
    BY <2>2, NothingTyped
  <2>5. QED
    BY <2>1, <2>2, <2>3, <2>4 DEF Judging
<1>3. Keeping' /\ Telling'
  BY <1>0, NothingTyped DEF Crash, Keeping, Telling
<1>4. QED
  BY <1>1, <1>2, <1>3, ShapeKept

LEMMA PrimeKeepsShape ==
    ASSUME TypeOK, Prime
    PROVE  TypeOK'
<1> DEFINE guarded == disk.playing /\ First[1] # Nobody
           drops == guarded /\ Tries >= 2
           resumes == disk.resume # Nobody /\ ~drops
           dealtWith == IF drops THEN First[1] ELSE disk.resume
           resumed == IF resumes THEN <<disk.resume>> ELSE <<>>
<1>0. IsQueue(queue) /\ Sounding /\ Judging /\ Keeping /\ Telling
  BY ShapeParts
<1>1. /\ disk.resume \in Passages \cup {Nobody} /\ disk.at \in Nat
      /\ disk.playing \in BOOLEAN /\ disk.queue \in Seq(Passages) /\ disk.tries \in Nat
  BY <1>0 DEF Keeping, Columns
<1>2. /\ queue' = Restored(resumed, disk.queue, dealtWith)
      /\ pendingResume' = IF resumes THEN disk.at ELSE Nowhere
      /\ disk' = IF guarded THEN [disk EXCEPT !.tried = First[1], !.triedAt = First[2],
                                              !.tries = Tries]
                 ELSE disk
  BY DEF Prime
<1>3. First[1] \in Passages \cup {Nobody} /\ First[2] \in Nat /\ Tries \in Nat
  <2>1. disk.queue # <<>> => Head(disk.queue) \in Passages
    BY <1>1, HeadTailProperties
  <2>2. QED
    BY <1>1, <2>1 DEF First, Tries
<1>4. disk' \in Columns
  BY <1>0, <1>2, <1>3 DEF Keeping, Columns
<1>5. resumed \in Seq(Passages)
  BY <1>1, EmptySeq
<1> HIDE DEF resumed, dealtWith, resumes
<1>6. IsQueue(queue')
  <2>1. Without(disk.queue, dealtWith) \in Seq(Passages)
    BY <1>1, WithoutPassage
  <2>2. resumed \o Without(disk.queue, dealtWith) \in Seq(Passages)
    BY <1>5, <2>1, ConcatProperties
  <2>3. QED
    BY <1>2, <2>2, PassagesQueue DEF Restored
<1>7. Sounding'
  BY <1>0, <1>1, <1>2 DEF Prime, Sounding, output, display, IsMixer, IsRing, Units
<1>8. Judging' /\ Keeping' /\ Telling'
  BY <1>0, <1>1, <1>4 DEF Prime, Judging, Keeping, Telling, judgement, handover
<1>9. QED
  BY <1>6, <1>7, <1>8, ShapeKept

LEMMA InitShape == Init => TypeOK
<1> SUFFICES ASSUME Init PROVE TypeOK
  OBVIOUS
<1>1. IsQueue(queue) /\ Sounding /\ Judging
  <2>1. IsQueue(queue) /\ Sounding
    BY NothingTyped DEF Init, Sounding
  <2>2. /\ headAdm = 0 /\ roll = <<>> /\ head = Nobody /\ heard = 0
        /\ heardFrom = Nowhere /\ recorded = FALSE /\ handingOver = FALSE
    BY DEF Init
  <2>3. {recorded, handingOver} \subseteq BOOLEAN
    BY <2>2
  <2>4. Len(roll) = 0
    BY <2>2, NothingTyped
  <2>5. QED
    BY <2>1, <2>2, <2>3, <2>4 DEF Judging
<1>2. Keeping
  BY NothingTyped DEF Init, Keeping, NoDisk, Columns
<1>3. Telling
  <2>1. <<>> \in Seq(Reported)
    BY EmptySeq
  <2>2. QED
    BY <2>1 DEF Init, Telling, Reports
<1>4. QED
  BY <1>1, <1>2, <1>3, ShapeParts

LEMMA NextKeepsShape == TypeOK /\ [Next]_vars => TypeOK'
<1> SUFFICES ASSUME TypeOK, [Next]_vars PROVE TypeOK'
  OBVIOUS
<1>1. CASE \/ Play \/ Pause \/ Skip \/ EnqueueShutdown
           \/ \E p \in Passages : Enqueue(p) \/ EnqueueNext(p) \/ PlayNow(p)
           \/ \E i \in 1..(Cardinality(Passages) + 1) :
                 RemoveQueued(i) \/ \E delta \in {-1, 1} : ShiftQueued(i, delta)
  BY <1>1, CommandsKeepShape
<1>2. CASE \E at \in SeekPoints :
              Seek(at) \/ \E k \in 1..Cardinality(Passages) : HandBack(k, at)
  BY <1>2, SeekKeepsShape, HandBackKeepsShape
<1>3. CASE HandOff
  BY <1>3, HandOffKeepsShape
<1>4. CASE Pass
  BY <1>4, MixKeepsShape, LooksKeepShape, ShowKeepsShape, ExecuteShutdownKeepsShape,
     PersistKeepsShape, RefillKeepsShape DEF Pass
<1>5. CASE DeviceTakes \/ Crash \/ Prime
  BY <1>5, DeviceKeepsShape, CrashKeepsShape, PrimeKeepsShape
<1>6. CASE UNCHANGED vars
  <2>1. IsQueue(queue) /\ Sounding /\ Judging /\ Keeping /\ Telling
    BY ShapeParts
  <2>2. IsQueue(queue') /\ Sounding' /\ Judging'
    BY <1>6, <2>1 DEF vars, mixer, output, display, judgement, handover,
       Sounding, Judging, IsMixer, IsRing, Units
  <2>3. Keeping' /\ Telling'
    BY <1>6, <2>1 DEF vars, store, handover, history, Keeping, Telling
  <2>4. QED
    BY <2>2, <2>3, ShapeKept
<1>7. QED
  BY <1>1, <1>2, <1>3, <1>4, <1>5, <1>6 DEF Next

(* The engine's state keeps its shape through anything: commands, seeks,   *)
(* cuts, handovers, power cuts and restarts.                               *)
THEOREM TypeCorrect == Spec => []TypeOK
BY InitShape, NextKeepsShape, PTL DEF Spec

-----------------------------------------------------------------------------
(* The last word of a queued shutdown: given the shape of the disk the     *)
(* property is inductive as it stands.                                     *)

(* A write to the remembered queue alone leaves the resume point.          *)
LEMMA QueueWriteKeepsResume ==
    ASSUME TypeOK, ShutdownLeavesNoResume, NEW q,
           disk' = [disk EXCEPT !.queue = q], shutdownSaved' = shutdownSaved
    PROVE  ShutdownLeavesNoResume'
BY DEF TypeOK, ShutdownLeavesNoResume, Columns

(* A step that touches neither the disk nor shutdown_saved.                *)
LEMMA UntouchedKeepsResume ==
    ASSUME ShutdownLeavesNoResume, disk' = disk, shutdownSaved' = shutdownSaved
    PROVE  ShutdownLeavesNoResume'
BY DEF ShutdownLeavesNoResume

LEMMA InitLastWord == Init => ShutdownLeavesNoResume
BY DEF Init, ShutdownLeavesNoResume

LEMMA NextLastWord ==
    ASSUME TypeOK, ShutdownLeavesNoResume, [Next]_vars
    PROVE  ShutdownLeavesNoResume'
<1>1. CASE Play
  BY <1>1 DEF Play, ShutdownLeavesNoResume
<1>2. CASE Pause \/ Skip \/ EnqueueShutdown
  BY <1>2, UntouchedKeepsResume DEF Pause, Skip, EnqueueShutdown, store
<1>3. CASE HandOff
  BY <1>3, QueueWriteKeepsResume DEF HandOff
<1>4. CASE \E p \in Passages : Enqueue(p) \/ EnqueueNext(p) \/ PlayNow(p)
  BY <1>4, UntouchedKeepsResume DEF Enqueue, EnqueueNext, PlayNow, store
<1>5. CASE \E i \in 1..(Cardinality(Passages) + 1) :
              RemoveQueued(i) \/ \E delta \in {-1, 1} : ShiftQueued(i, delta)
  BY <1>5, UntouchedKeepsResume DEF RemoveQueued, ShiftQueued, store
<1>6. CASE \E at \in SeekPoints : Seek(at)
  BY <1>6, UntouchedKeepsResume DEF Seek, store
<1>7. CASE \E at \in SeekPoints, k \in 1..Cardinality(Passages) : HandBack(k, at)
  BY <1>7, QueueWriteKeepsResume DEF HandBack
<1>8. CASE Mix \/ LookPaused \/ LookDeparted \/ LookOn \/ Show
  BY <1>8, UntouchedKeepsResume DEF Mix, LookPaused, LookDeparted, LookOn, Show, store
<1>9. CASE ExecuteShutdown
  BY <1>9 DEF ExecuteShutdown, TypeOK, ShutdownLeavesNoResume, Columns
<1>10. CASE Persist
  <2>1. CASE MayWrite
    BY <1>10, <2>1 DEF Persist, MayWrite, TypeOK, ShutdownLeavesNoResume, Columns
  <2>2. CASE ~MayWrite
    BY <1>10, <2>2, UntouchedKeepsResume DEF Persist
  <2>3. QED
    BY <2>1, <2>2
<1>11. CASE Refill
  BY <1>11, QueueWriteKeepsResume DEF Refill
<1>12. CASE DeviceTakes
  BY <1>12, UntouchedKeepsResume DEF DeviceTakes, store
<1>13. CASE Crash
  BY <1>13 DEF Crash, ShutdownLeavesNoResume
<1>14. CASE Prime
  BY <1>14 DEF Prime, TypeOK, ShutdownLeavesNoResume, Columns
<1>15. CASE UNCHANGED vars
  BY <1>15, UntouchedKeepsResume DEF vars, store
<1>16. QED
  BY <1>1, <1>2, <1>3, <1>4, <1>5, <1>6, <1>7, <1>8, <1>9, <1>10, <1>11,
     <1>12, <1>13, <1>14, <1>15 DEF Next, Pass

(* No step of the engine, the device, the listener or the power brings     *)
(* back the resume point a queued shutdown cleared.                        *)
THEOREM ShutdownHasTheLastWord == Spec => []ShutdownLeavesNoResume
<1>1. Init => TypeOK /\ ShutdownLeavesNoResume
  BY InitShape, InitLastWord
<1>2. TypeOK /\ ShutdownLeavesNoResume /\ [Next]_vars
         => TypeOK' /\ ShutdownLeavesNoResume'
  BY NextKeepsShape, NextLastWord
<1>3. QED
  BY <1>1, <1>2, PTL DEF Spec

-----------------------------------------------------------------------------
(* Nothing is turned down unheard.  What is being judged has been listened *)
(* to, or is what the device plays next: a cut keeps the ring's front, so  *)
(* what was about to be heard still will be before it can depart.          *)

OnAir(p) == Covering # {} /\ roll[Latest(Covering).adm] = p

HeardOut ==
    /\ lastHeard # 0 => listened[roll[lastHeard]] > 0
    /\ head # Nobody => listened[head] > 0 \/ OnAir(head)
    /\ UnheardIsNotDeclined

\* The passages f has verdict v on.
With(f, v) == {p \in Passages : \E i \in 1..Len(f[p]) : f[p][i].verdict = v}

LEMMA WithIsTold ==
    \A p \in Passages, v \in Verdicts : p \in With(reports, v) <=> Told1(p, v)
BY DEF With, Told1

LEMMA AppendedVerdict ==
    ASSUME NEW s \in Seq(Reported), NEW e \in Reported, NEW v,
           \E i \in 1..Len(Append(s, e)) : Append(s, e)[i].verdict = v
    PROVE  e.verdict = v \/ \E i \in 1..Len(s) : s[i].verdict = v
<1>1. /\ Len(s) \in Nat /\ Len(Append(s, e)) = Len(s) + 1
      /\ \A i \in 1..Len(s) : Append(s, e)[i] = s[i]
      /\ Append(s, e)[Len(s) + 1] = e
  BY AppendProperties, LenProperties
<1>2. PICK i \in 1..Len(Append(s, e)) : Append(s, e)[i].verdict = v
  OBVIOUS
<1>3. i \in 1..Len(s) \/ i = Len(s) + 1
  BY <1>1
<1>4. QED
  BY <1>1, <1>2, <1>3

(* A verdict on one passage, or on several, adds no other.                 *)
LEMMA VerdictAdds ==
    ASSUME NEW told \in Reports, NEW p \in Passages, NEW e \in Reported
    PROVE  With([told EXCEPT ![p] = Append(@, e)], "skipped")
              \subseteq With(told, "skipped") \cup (IF e.verdict = "skipped" THEN {p} ELSE {})
<1> DEFINE f == [told EXCEPT ![p] = Append(@, e)]
<1>1. \A r \in Passages : f[r] = IF r = p THEN Append(told[p], e) ELSE told[r]
  BY DEF Reports
<1>2. told[p] \in Seq(Reported)
  BY DEF Reports
<1> HIDE DEF f
<1>3. ASSUME NEW r \in With(f, "skipped")
      PROVE  r \in With(told, "skipped") \cup (IF e.verdict = "skipped" THEN {p} ELSE {})
  <2>1. r \in Passages /\ \E i \in 1..Len(f[r]) : f[r][i].verdict = "skipped"
    BY <1>3 DEF With
  <2>2. CASE r = p
    <3>1. \E i \in 1..Len(Append(told[p], e)) : Append(told[p], e)[i].verdict = "skipped"
      BY <1>1, <2>1, <2>2
    <3>2. e.verdict = "skipped" \/ \E i \in 1..Len(told[p]) : told[p][i].verdict = "skipped"
      BY <1>2, <3>1, AppendedVerdict
    <3>3. QED
      BY <2>2, <3>2 DEF With
  <2>3. CASE r # p
    BY <1>1, <2>1, <2>3 DEF With
  <2>4. QED
    BY <2>2, <2>3
<1>4. QED
  BY <1>3 DEF f

LEMMA ManyAdd ==
    ASSUME TypeOK, NEW f, NEW ps, NEW e \in Reported, e.verdict # "skipped",
           f = [p \in Passages |-> IF p \in ps THEN Append(reports[p], e) ELSE reports[p]]
    PROVE  With(f, "skipped") \subseteq With(reports, "skipped")
<1>1. \A p \in Passages : reports[p] \in Seq(Reported)
  BY DEF TypeOK, Reported
<1>2. ASSUME NEW p \in With(f, "skipped")
      PROVE  p \in With(reports, "skipped")
  <2>1. p \in Passages /\ \E i \in 1..Len(f[p]) : f[p][i].verdict = "skipped"
    BY <1>2 DEF With
  <2>2. CASE p \in ps
    <3>1. f[p] = Append(reports[p], e)
      BY <2>1, <2>2
    <3>2. \E i \in 1..Len(reports[p]) : reports[p][i].verdict = "skipped"
      BY <1>1, <2>1, <3>1, AppendedVerdict
    <3>3. QED
      BY <2>1, <3>2 DEF With
  <2>3. CASE p \notin ps
    BY <2>1, <2>3 DEF With
  <2>4. QED
    BY <2>2, <2>3
<1>3. QED
  BY <1>2

LEMMA DropsAdd ==
    ASSUME TypeOK, NEW ps
    PROVE  With(AllDropped(ps), "skipped") \subseteq With(reports, "skipped")
<1> DEFINE e == [verdict |-> "dropped", heard |-> 0]
<1>1. e \in Reported /\ e.verdict # "skipped"
  BY DEF Reported, Verdicts
<1>2. AllDropped(ps) = [p \in Passages |-> IF p \in ps THEN Append(reports[p], e) ELSE reports[p]]
  BY DEF AllDropped
<1> HIDE DEF e
<1>3. QED
  BY <1>1, <1>2, ManyAdd

LEMMA CreditAdds ==
    ASSUME NEW told \in Reports, NEW p \in Passages \cup {Nobody}, NEW units \in Nat,
           NEW done, Credited(p, units, done, told)
    PROVE  With(reports', "skipped") \subseteq With(told, "skipped")
<1> DEFINE e == [verdict |-> "played", heard |-> units]
<1>1. reports' = told \/ (p \in Passages /\ reports' = [told EXCEPT ![p] = Append(@, e)])
  BY DEF Credited
<1>2. e \in Reported /\ e.verdict # "skipped"
  BY DEF Reported, Verdicts
<1> HIDE DEF e
<1>3. QED
  BY <1>1, <1>2, VerdictAdds

-----------------------------------------------------------------------------
(* The front of the ring through a cut.                                    *)

LEMMA FrontOfRing ==
    ASSUME TypeOK
    PROVE  /\ ring # <<>> => Covering = ring[1] /\ Len(ring) \in Nat /\ Len(ring) > 0
           /\ ring = <<>> => Covering = {}
<1>1. CASE ring # <<>>
  <2>1. ring \in Seq(Units(roll)) /\ Len(ring) \in Nat /\ Len(ring) # 0
    BY <1>1, RingTyped, EmptySeq DEF IsRing
  <2>2. Head(ring) = ring[1]
    BY <2>1
  <2>3. QED
    BY <1>1, <2>1, <2>2 DEF Covering
<1>2. CASE ring = <<>>
  BY <1>2 DEF Covering
<1>3. QED
  BY <1>1, <1>2

LEMMA FrontOfNext ==
    ASSUME NEW r, IsRing(ring', r), Len(ring') > 0
    PROVE  Covering' = ring'[1]
<1>1. ring' \in Seq(Units(r))
  BY DEF IsRing
<1>2. ring' # <<>>
  BY EmptySeq
<1>3. Head(ring') = ring'[1]
  BY <1>1, <1>2
<1>4. QED
  BY <1>2, <1>3 DEF Covering

LEMMA KeptFront ==
    ASSUME Fade > 0, NEW r, NEW units, IsRing(units, r), Len(units) > 0
    PROVE  Len(Kept(units)) > 0 /\ Kept(units)[1] = units[1]
<1>1. Len(units) \in Nat /\ Fade \in Nat
  BY LenProperties, DeviceAssumption DEF IsRing
<1> DEFINE n == Least(Len(units), Fade)
<1>2. n \in Nat /\ n > 0 /\ n <= Len(units)
  BY <1>1 DEF Least
<1> HIDE DEF n
<1>3. \A i \in 1..n : units[i] \in Units(r)
  BY <1>1, <1>2, ElementOfSeq DEF IsRing
<1>4. Len(SubSeq(units, 1, n)) = IF 1 <= n THEN n - 1 + 1 ELSE 0
  BY <1>2, <1>3, SubSeqProperties
<1>5. Len(Kept(units)) > 0
  BY <1>2, <1>4 DEF Kept, n
<1>6. 1 \in 1..Len(Kept(units))
  BY <1>5, KeptTyped
<1>7. QED
  BY <1>5, <1>6, KeptTyped

LEMMA CutFront ==
    ASSUME TypeOK, Fade > 0, NEW units, IsRing(units, roll), Len(units) > 0,
           NEW r, Extends(r), NEW l, IsMixer(l, r), NEW n \in Nat,
           ring' = CutOver(units, l, n)
    PROVE  Covering' = units[1]
<1>1. Len(Kept(units)) > 0 /\ Len(Kept(units)) \in Nat
  BY KeptFront, KeptTyped
<1>2. IsRing(ring', r) /\ Len(ring') = Len(Kept(units))
  BY CutOverTyped
<1>3. Covering' = ring'[1]
  BY <1>1, <1>2, FrontOfNext
<1>4. Lead \in Nat \ {0}
  BY DeviceAssumption
<1>5. CutOver(units, l, n)[1] = units[1]
  <2>1. 1 \in 1..Len(Kept(units)) /\ ~(1 > Lead)
    BY <1>1, <1>4
  <2>2. CutOver(units, l, n)[1] = units[1] \cup {}
    BY <2>1 DEF CutOver
  <2>3. QED
    BY <2>2
<1>6. QED
  BY <1>3, <1>5

(* What was heard of is not unheard, so forgetting the unheard leaves the  *)
(* front of the ring alone.                                                *)
LEMMA FrontIsHeardOf ==
    ASSUME TypeOK, ring # <<>>
    PROVE  Len(Forgotten(ring, Unheard)) > 0 /\ Forgotten(ring, Unheard)[1] = Covering
<1>1. Covering = ring[1] /\ Len(ring) \in Nat /\ Len(ring) > 0
  BY FrontOfRing
<1>2. Len(Forgotten(ring, Unheard)) = Len(ring)
  BY RingTyped, ForgottenTyped
<1>3. Forgotten(ring, Unheard)[1] = {c \in ring[1] : c.adm \notin Unheard}
  BY <1>1 DEF Forgotten
<1>4. ASSUME NEW c \in Covering
      PROVE  c.adm \notin Unheard
  <2>1. c.adm \in 1..Len(roll)
    BY CoveringTyped
  <2> DEFINE d == CHOOSE b \in Covering : b.adm = c.adm
  <2>2. d \in Covering
    OBVIOUS
  <2>3. HeardTo(c.adm) = d.at
    BY DEF HeardTo
  <2> HIDE DEF d
  <2>4. d.at \in Nat
    BY <2>2, CoveringTyped
  <2>5. HeardTo(c.adm) # Nowhere
    BY <2>3, <2>4 DEF Nowhere
  <2>6. QED
    BY <2>5 DEF Unheard
<1>5. QED
  BY <1>1, <1>2, <1>3, <1>4

-----------------------------------------------------------------------------
(* What was heard stays heard while the front of the ring stays.           *)

LEMMA LatestOfCovering ==
    ASSUME TypeOK, Covering # {}
    PROVE  Latest(Covering) \in Covering /\ Latest(Covering).adm \in 1..Len(roll)
<1>1. Len(roll) \in Nat /\ Covering \subseteq [adm : 1..Len(roll), at : Nat]
  BY RollFacts, CoveringTyped
<1>2. Latest(Covering) \in Covering
  BY <1>1, LatestOfUnit
<1>3. QED
  BY <1>1, <1>2

LEMMA HeardOutKept ==
    ASSUME TypeOK, HeardOut, Extends(roll'),
           Covering # {} => Covering' = Covering,
           UNCHANGED <<head, lastHeard, listened>>,
           With(reports', "skipped") \subseteq With(reports, "skipped")
    PROVE  HeardOut'
<1>1. ASSUME lastHeard' # 0
      PROVE  listened'[roll'[lastHeard']] > 0
  <2>1. lastHeard # 0 /\ lastHeard \in 0..Len(roll) /\ Len(roll) \in Nat
    BY <1>1, RollFacts DEF TypeOK
  <2>2. roll'[lastHeard] = roll[lastHeard]
    BY <2>1 DEF Extends
  <2>3. QED
    BY <2>1, <2>2 DEF HeardOut
<1>2. ASSUME head' # Nobody
      PROVE  listened'[head'] > 0 \/ OnAir(head)'
  <2>1. CASE listened[head] > 0
    BY <2>1
  <2>2. CASE OnAir(head)
    <3>1. Covering # {} /\ Covering' = Covering
      BY <2>2 DEF OnAir
    <3>2. roll'[Latest(Covering).adm] = roll[Latest(Covering).adm]
      BY <3>1, LatestOfCovering DEF Extends
    <3>3. QED
      BY <2>2, <3>1, <3>2 DEF OnAir
  <2>3. QED
    BY <1>2, <2>1, <2>2 DEF HeardOut
<1>3. UnheardIsNotDeclined'
  <2>1. \A p \in Passages : Told1(p, "skipped")' => Told1(p, "skipped")
    BY DEF Told1, With
  <2>2. QED
    BY <2>1 DEF HeardOut, UnheardIsNotDeclined
<1>4. QED
  BY <1>1, <1>2, <1>3 DEF HeardOut

(* Nothing is mixed, taken or judged.                                      *)
LEMMA HeardOutStays ==
    ASSUME TypeOK, HeardOut, UNCHANGED <<roll, ring, head, lastHeard, listened, reports>>
    PROVE  HeardOut'
<1>1. Extends(roll') /\ Covering' = Covering
  BY RollFacts DEF Covering, Extends
<1>2. QED
  BY <1>1, HeardOutKept

LEMMA SkipKeepsHeardOut ==
    ASSUME TypeOK, HeardOut, Fade > 0, NEW q, IsQueue(q), SkipFrom(q),
           UNCHANGED <<head, listened>>
    PROVE  HeardOut'
<1>1. CASE SkipNothing(q)
  BY <1>1, HeardOutStays DEF SkipNothing, mixer, output
<1>2. CASE SkipToShutdown(q)
  <2>1. Extends(roll') /\ ring' = Kept(ring) /\ UNCHANGED <<lastHeard, roll, reports>>
    BY <1>2, RollFacts DEF SkipToShutdown
  <2>2. Covering # {} => Covering' = Covering
    <3>1. SUFFICES ASSUME Covering # {} PROVE Covering' = Covering
      OBVIOUS
    <3>2. Covering = ring[1] /\ Len(ring) > 0
      BY <3>1, FrontOfRing
    <3>3. Len(Kept(ring)) > 0 /\ Kept(ring)[1] = ring[1]
      BY <3>2, RingTyped, KeptFront
    <3>4. IsRing(ring', roll)
      BY <2>1, RingTyped, KeptTyped
    <3>5. QED
      BY <2>1, <3>2, <3>3, <3>4, FrontOfNext
  <2>3. QED
    BY <1>2, <2>1, <2>2, HeardOutKept
<1>3. CASE SkipToNext(q)
  <2> DEFINE a == Admission(q, {})
             left == Forgotten(ring, Unheard)
  <2>1. /\ Extends(a.roll) /\ IsMixer(a.live, a.roll)
        /\ a.live = {} \/ \E at \in Nat : a.live = {Opened(at)}
    <3>1. IsMixer({}, roll)
      BY FS_EmptySet DEF IsMixer
    <3>2. QED
      BY <3>1, AdmissionTyped
  <2>2. IsRing(left, roll)
    BY RingTyped, ForgottenTyped
  <2>3. PICK n \in Decoded(left, a.live, a.roll) :
             /\ roll' = a.roll
             /\ ring' = CutOver(left, a.live, n)
             /\ reports' = AllDropped({roll[adm] : adm \in Unheard} \cup a.dropped)
             /\ lastHeard' = lastHeard
    BY <1>3 DEF SkipToNext
  <2> HIDE DEF a
  <2>4. n \in Nat
    <3> DEFINE l == a.live
               r == a.roll
    <3>1. /\ IsMixer(l, r) /\ r \in Seq(Passages) /\ n \in Decoded(left, l, r)
          /\ l = {} \/ \E at \in Nat : l = {Opened(at)}
      BY <2>1 DEF Extends
    <3> HIDE DEF l, r, left
    <3>2. QED
      BY <3>1, <2>2, DecodedTyped
  <2>5. Covering # {} => Covering' = Covering
    <3>1. SUFFICES ASSUME Covering # {} PROVE Covering' = Covering
      OBVIOUS
    <3>2. ring # <<>>
      BY <3>1, FrontOfRing
    <3>3. Len(left) > 0 /\ left[1] = Covering
      BY <3>2, FrontIsHeardOf
    <3> HIDE DEF left
    <3>4. QED
      BY <2>1, <2>2, <2>3, <2>4, <3>3, CutFront
  <2>6. With(reports', "skipped") \subseteq With(reports, "skipped")
    BY <2>3, DropsAdd
  <2>7. QED
    BY <2>1, <2>3, <2>5, <2>6, HeardOutKept
<1>4. QED
  BY <1>1, <1>2, <1>3 DEF SkipFrom

LEMMA RemoveKeepsHeardOut ==
    ASSUME TypeOK, HeardOut, NEW i, RemoveQueued(i)
    PROVE  HeardOut'
<1>1. UNCHANGED <<roll, ring, head, lastHeard, listened>>
  BY DEF RemoveQueued, mixer, output, judgement
<1>2. CASE queue[i] = Shutdown
  BY <1>1, <1>2, HeardOutStays DEF RemoveQueued
<1>3. CASE queue[i] # Shutdown
  <2> DEFINE v == IF queue[i] \in Picked THEN "dropped" ELSE "dequeued"
             e == [verdict |-> v, heard |-> 0]
  <2>1. queue[i] \in Passages
    BY <1>3, QueueLength DEF RemoveQueued, TypeOK
  <2>2. reports' = [reports EXCEPT ![queue[i]] = Append(@, e)]
    BY <1>3 DEF RemoveQueued, Told
  <2>3. e \in Reported /\ e.verdict # "skipped" /\ reports \in Reports
    BY ShapeParts DEF Reported, Verdicts, Telling
  <2> HIDE DEF e
  <2>4. With(reports', "skipped") \subseteq With(reports, "skipped")
    BY <2>1, <2>2, <2>3, VerdictAdds
  <2>5. Extends(roll') /\ Covering' = Covering
    BY <1>1, RollFacts DEF Covering
  <2>6. QED
    BY <1>1, <2>4, <2>5, HeardOutKept
<1>4. QED
  BY <1>2, <1>3

LEMMA SeekKeepsHeardOut ==
    ASSUME TypeOK, HeardOut, Fade > 0, NEW at \in SeekPoints, Seek(at)
    PROVE  HeardOut'
<1>1. roll[shown] \in Passages /\ at \in Nat /\ at < Length[roll[shown]]
  <2>1. at \in Nat
    BY DeviceAssumption
  <2>2. shown # 0 /\ at < Length[roll[shown]]
    BY DEF Seek
  <2>3. shown \in 0..Len(roll) /\ Len(roll) \in Nat
    BY RollFacts DEF TypeOK
  <2>4. roll[shown] \in Passages
    BY <2>2, <2>3, RollFacts
  <2>5. QED
    BY <2>1, <2>2, <2>4
<1>2. /\ Extends(roll') /\ roll' \in Seq(Passages)
      /\ IsMixer({Opened(at)}, roll')
  BY <1>1, RollGrows, OpenedTyped DEF Seek, Extends
<1>3. PICK n \in Decoded(ring, {Opened(at)}, roll') :
          ring' = CutOver(ring, {Opened(at)}, n)
  BY DEF Seek
<1>4. IsRing(ring, roll)
  BY RingTyped
<1>5. n \in Nat
  BY <1>1, <1>2, <1>3, <1>4, DecodedTyped
<1>6. Covering # {} => Covering' = Covering
  BY <1>2, <1>3, <1>4, <1>5, FrontOfRing, CutFront
<1>7. UNCHANGED <<head, lastHeard, listened, reports>>
  BY DEF Seek, history
<1>8. QED
  BY <1>2, <1>6, <1>7, HeardOutKept

LEMMA MixKeepsHeardOut ==
    ASSUME TypeOK, HeardOut, Mix
    PROVE  HeardOut'
<1> DEFINE a == Admission(queue, live)
           giving == Giving(a.live, a.roll)
<1>1. Extends(a.roll) /\ IsMixer(a.live, a.roll)
  BY RollFacts, AdmissionTyped DEF TypeOK
<1>2. /\ roll' = a.roll /\ UNCHANGED <<head, lastHeard, listened>>
      /\ ring' = Append(ring, giving) \/ ring' = ring
      /\ reports' = AllDropped(a.dropped \cup (IF BadHead(a) THEN {Head(a.queue)} ELSE {}))
  BY DEF Mix, judgement
<1> HIDE DEF a
<1>3. With(reports', "skipped") \subseteq With(reports, "skipped")
  BY <1>2, DropsAdd
<1>4. Covering # {} => Covering' = Covering
  <2>1. SUFFICES ASSUME Covering # {} PROVE Covering' = Covering
    OBVIOUS
  <2>2. CASE ring' = ring
    BY <2>2 DEF Covering
  <2>3. CASE ring' = Append(ring, giving)
    <3>1. Covering = ring[1] /\ Len(ring) \in Nat /\ Len(ring) > 0
      BY <2>1, FrontOfRing
    <3>2. /\ ring \in Seq(Units(a.roll)) /\ giving \in Units(a.roll)
      <4>1. ring \in Seq(Units(roll)) /\ Units(roll) \subseteq Units(a.roll)
        BY <1>1, RingTyped, UnitsKept DEF IsRing
      <4>2. giving \in Units(a.roll)
        BY <1>1 DEF Giving, IsMixer, Units
      <4>3. QED
        BY <4>1, <4>2, SeqMonotonic
    <3> HIDE DEF giving
    <3>3. /\ ring' \in Seq(Units(a.roll)) /\ Len(ring') = Len(ring) + 1
          /\ ring'[1] = ring[1]
      BY <2>3, <3>1, <3>2, AppendProperties
    <3>4. ring' # <<>>
      BY <3>1, <3>3, EmptySeq
    <3>5. Head(ring') = ring'[1]
      BY <3>3, <3>4
    <3>6. QED
      BY <3>1, <3>3, <3>4, <3>5 DEF Covering
  <2>4. QED
    BY <1>2, <2>2, <2>3
<1>5. QED
  BY <1>1, <1>2, <1>3, <1>4, HeardOutKept

LEMMA HandBackKeepsHeardOut ==
    ASSUME TypeOK, HeardOut, NEW at, NEW k, HandBack(k, at)
    PROVE  HeardOut'
<1> DEFINE e == [verdict |-> "guest", heard |-> 0]
           ps == {away[i] : i \in 1..(k - 1)} \ {guestCounted}
<1>1. reports' = [p \in Passages |-> IF p \in ps THEN Append(reports[p], e) ELSE reports[p]]
  BY DEF HandBack
<1>2. e \in Reported /\ e.verdict # "skipped"
  BY DEF Reported, Verdicts
<1> HIDE DEF e, ps
<1>3. With(reports', "skipped") \subseteq With(reports, "skipped")
  BY <1>1, <1>2, ManyAdd
<1>4. UNCHANGED <<roll, ring, head, lastHeard, listened>>
  BY DEF HandBack, output, judgement
<1>5. Extends(roll') /\ Covering' = Covering
  BY <1>4, RollFacts DEF Covering
<1>6. QED
  BY <1>3, <1>4, <1>5, HeardOutKept

LEMMA DeviceKeepsHeardOut ==
    ASSUME TypeOK, HeardOut, DeviceTakes
    PROVE  HeardOut'
<1> DEFINE unit == Head(ring)
<1>1. /\ ring # <<>> /\ Covering = unit
      /\ UNCHANGED <<roll, head, reports>>
      /\ lastHeard' = IF unit = {} THEN lastHeard ELSE Latest(unit).adm
      /\ listened' = [p \in Passages |->
                        IF \E c \in unit : roll[c.adm] = p THEN listened[p] + 1 ELSE listened[p]]
  BY DEF DeviceTakes, Covering, mixer, judgement
<1> HIDE DEF unit
<1>2. /\ \A p \in Passages : listened[p] \in Nat
      /\ head \in Passages \cup {Nobody}
      /\ \A i \in 1..Len(roll) : roll[i] \in Passages
      /\ lastHeard \in 0..Len(roll) /\ Len(roll) \in Nat
  BY RollFacts DEF TypeOK
<1>3. /\ \A p \in Passages : listened'[p] \in Nat /\ listened'[p] >= listened[p]
      /\ \A p \in Passages : (\E c \in unit : roll[c.adm] = p) => listened'[p] > 0
  BY <1>1, <1>2
<1>4. unit # {} => Latest(unit) \in unit /\ Latest(unit).adm \in 1..Len(roll)
  BY <1>1, LatestOfCovering
<1>5. ASSUME lastHeard' # 0
      PROVE  listened'[roll'[lastHeard']] > 0
  <2>1. CASE unit = {}
    <3>1. lastHeard' = lastHeard /\ listened[roll[lastHeard]] > 0 /\ roll[lastHeard] \in Passages
      BY <1>1, <1>2, <1>5, <2>1 DEF HeardOut
    <3>2. QED
      BY <1>1, <1>2, <1>3, <3>1
  <2>2. CASE unit # {}
    <3>1. lastHeard' = Latest(unit).adm
      BY <1>1, <2>2
    <3>2. roll[Latest(unit).adm] \in Passages
      BY <1>2, <1>4, <2>2
    <3>3. \E c \in unit : roll[c.adm] = roll[Latest(unit).adm]
      BY <1>4, <2>2
    <3>4. QED
      BY <1>1, <1>3, <3>1, <3>2, <3>3
  <2>3. QED
    BY <2>1, <2>2
<1>6. ASSUME head' # Nobody
      PROVE  listened'[head'] > 0
  <2>1. head \in Passages
    BY <1>1, <1>2, <1>6
  <2>2. CASE listened[head] > 0
    BY <1>1, <1>2, <1>3, <2>1, <2>2
  <2>3. CASE OnAir(head)
    <3>1. unit # {} /\ roll[Latest(unit).adm] = head
      BY <1>1, <2>3 DEF OnAir
    <3>2. \E c \in unit : roll[c.adm] = head
      BY <1>4, <3>1
    <3>3. QED
      BY <1>1, <1>3, <2>1, <3>2
  <2>4. QED
    BY <1>1, <1>6, <2>2, <2>3 DEF HeardOut
<1>7. UnheardIsNotDeclined'
  <2>1. \A p \in Passages : Told1(p, "skipped")' => Told1(p, "skipped")
    BY <1>1 DEF Told1
  <2>2. QED
    BY <1>2, <1>3, <2>1 DEF HeardOut, UnheardIsNotDeclined
<1>8. QED
  BY <1>5, <1>6, <1>7 DEF HeardOut

(* What is heard now has been listened to, or is next for the device.      *)
LEMMA HeardNowIsHeard ==
    ASSUME TypeOK, HeardOut, PassageHeard # Nobody
    PROVE  listened[PassageHeard] > 0 \/ OnAir(PassageHeard)
<1>1. HeardNow.adm # 0 /\ PassageHeard = roll[HeardNow.adm]
  BY DEF PassageHeard
<1>2. HeardNow = Audible
  BY <1>1 DEF HeardNow
<1>3. CASE Covering # {}
  BY <1>1, <1>2, <1>3 DEF Audible, OnAir
<1>4. CASE Covering = {}
  BY <1>1, <1>2, <1>4 DEF Audible, HeardOut
<1>5. QED
  BY <1>3, <1>4

(* What the device is about to play is heard now, so it has not departed.  *)
LEMMA OnAirIsHeardNow ==
    ASSUME TypeOK, NEW p, OnAir(p)
    PROVE  PassageHeard = p
<1>1. Covering # {} /\ roll[Latest(Covering).adm] = p
  BY DEF OnAir
<1>2. Latest(Covering).adm # 0
  BY <1>1, LatestOfCovering, RollFacts
<1>3. HeardNow.adm = Latest(Covering).adm
  BY <1>1 DEF Audible, HeardNow
<1>4. QED
  BY <1>1, <1>2, <1>3 DEF PassageHeard

LEMMA DepartureKeepsHeardOut ==
    ASSUME TypeOK, HeardOut, LookDeparted
    PROVE  HeardOut'
<1> DEFINE arrived == PassageHeard # Nobody /\ countedElsewhere = PassageHeard
           told == IF Unjudged THEN Told(head, "skipped", heard + HeadTail) ELSE reports
<1>1. /\ head # PassageHeard /\ head' = PassageHeard
      /\ UNCHANGED <<roll, ring, lastHeard, listened>>
      /\ Credited(PassageHeard, 0, arrived, told)
  BY DEF LookDeparted, mixer, output
<1>2. reports \in Reports /\ heard + HeadTail \in Nat /\ head \in Passages \cup {Nobody}
  BY ShapeParts, TailTyped DEF Telling, Judging
<1>3. Unjudged => head \in Passages
  BY <1>2 DEF Unjudged
<1>4. told \in Reports
  BY <1>2, <1>3, ToldTyped DEF Verdicts
<1>5. With(told, "skipped")
        \subseteq With(reports, "skipped") \cup (IF Unjudged THEN {head} ELSE {})
  <2> DEFINE e == [verdict |-> "skipped", heard |-> heard + HeadTail]
  <2>1. CASE Unjudged
    <3>1. told = [reports EXCEPT ![head] = Append(@, e)]
      BY <2>1 DEF Told
    <3>2. e \in Reported /\ e.verdict = "skipped"
      BY <1>2 DEF Reported, Verdicts
    <3> HIDE DEF e, told
    <3>3. QED
      BY <1>2, <1>3, <2>1, <3>1, <3>2, VerdictAdds
  <2>2. CASE ~Unjudged
    BY <2>2
  <2>3. QED
    BY <2>1, <2>2
<1> HIDE DEF told, arrived
<1>6. With(reports', "skipped") \subseteq With(told, "skipped")
  BY <1>1, <1>4, PassageHeardTyped, CreditAdds
<1>7. Unjudged => listened[head] > 0
  <2>1. SUFFICES ASSUME Unjudged PROVE listened[head] > 0
    OBVIOUS
  <2>2. head # Nobody
    BY <2>1 DEF Unjudged
  <2>3. ~OnAir(head)
    BY <1>1, OnAirIsHeardNow
  <2>4. QED
    BY <2>2, <2>3 DEF HeardOut
<1>8. ASSUME head' # Nobody
      PROVE  listened'[head'] > 0 \/ OnAir(head)'
  <2>1. listened[PassageHeard] > 0 \/ OnAir(PassageHeard)
    BY <1>1, <1>8, HeardNowIsHeard
  <2>2. QED
    BY <1>1, <2>1 DEF OnAir, Covering
<1>9. UnheardIsNotDeclined'
  <2>1. ASSUME NEW p \in Passages, Told1(p, "skipped")'
        PROVE  listened[p] > 0
    <3>1. p \in With(reports', "skipped")
      BY <2>1 DEF Told1, With
    <3>2. p \in With(reports, "skipped") \/ (Unjudged /\ p = head)
      BY <1>5, <1>6, <3>1
    <3>3. QED
      BY <1>7, <3>2 DEF With, Told1, HeardOut, UnheardIsNotDeclined
  <2>2. QED
    BY <1>1, <2>1 DEF UnheardIsNotDeclined
<1>10. QED
  BY <1>1, <1>8, <1>9 DEF HeardOut

LEMMA LookOnKeepsHeardOut ==
    ASSUME TypeOK, HeardOut, LookOn
    PROVE  HeardOut'
<1> DEFINE units == IF head = Nobody THEN heard
                    ELSE heard + (IF ComparableFrom # Nowhere /\ HeardNow.at > ComparableFrom
                                  THEN HeardNow.at - ComparableFrom ELSE 0)
<1>1. UNCHANGED <<roll, ring, head, lastHeard, listened>>
      /\ Credited(head, units, recorded, reports)
  BY DEF LookOn, mixer, output
<1>2. reports \in Reports /\ head \in Passages \cup {Nobody} /\ heard \in Nat
      /\ heardFrom \in Nat \cup {Nowhere} /\ HeardNow.at \in Nat
  BY ShapeParts, AudibleTyped DEF Telling, Judging
<1>3. units \in Nat
  BY <1>2 DEF ComparableFrom, Nowhere
<1> HIDE DEF units
<1>4. With(reports', "skipped") \subseteq With(reports, "skipped")
  BY <1>1, <1>2, <1>3, CreditAdds
<1>5. Extends(roll') /\ Covering' = Covering
  BY <1>1, RollFacts DEF Covering
<1>6. QED
  BY <1>1, <1>4, <1>5, HeardOutKept

LEMMA CrashKeepsHeardOut ==
    ASSUME TypeOK, HeardOut, Crash
    PROVE  HeardOut'
BY DEF Crash, HeardOut, UnheardIsNotDeclined, Told1

LEMMA NothingHeardOut == Init => HeardOut
<1> SUFFICES ASSUME Init PROVE HeardOut
  OBVIOUS
<1>1. \A p \in Passages : ~Told1(p, "skipped")
  BY EmptySeq DEF Init, Told1
<1>2. QED
  BY <1>1 DEF Init, HeardOut, UnheardIsNotDeclined

LEMMA NextKeepsHeardOut ==
    ASSUME TypeOK, HeardOut, Fade > 0, [Next]_vars
    PROVE  HeardOut'
<1>1. CASE Skip
  BY <1>1, SkipKeepsHeardOut DEF Skip, judgement, TypeOK
<1>2. CASE \E p \in Passages : PlayNow(p)
  BY <1>2, ArrivedTyped, SkipKeepsHeardOut DEF PlayNow, judgement
<1>3. CASE HandOff
  BY <1>3, PassagesQueue, EmptySeq, SkipKeepsHeardOut DEF HandOff, judgement
<1>4. CASE \E i \in 1..(Cardinality(Passages) + 1) : RemoveQueued(i)
  BY <1>4, RemoveKeepsHeardOut
<1>5. CASE \E at \in SeekPoints : Seek(at) \/ \E k \in 1..Cardinality(Passages) : HandBack(k, at)
  BY <1>5, SeekKeepsHeardOut, HandBackKeepsHeardOut
<1>6. CASE Mix \/ LookDeparted \/ LookOn \/ DeviceTakes \/ Crash
  BY <1>6, MixKeepsHeardOut, DepartureKeepsHeardOut, LookOnKeepsHeardOut,
     DeviceKeepsHeardOut, CrashKeepsHeardOut
<1>7. CASE \/ Play \/ Pause \/ EnqueueShutdown
           \/ \E p \in Passages : Enqueue(p) \/ EnqueueNext(p)
           \/ \E i \in 1..(Cardinality(Passages) + 1), delta \in {-1, 1} : ShiftQueued(i, delta)
  <2>1. UNCHANGED <<roll, ring, head, lastHeard, listened, reports>>
    BY <1>7 DEF Play, Pause, EnqueueShutdown, Enqueue, EnqueueNext, ShiftQueued,
       mixer, output, judgement, history
  <2>2. QED
    BY <2>1, HeardOutStays
<1>8. CASE LookPaused \/ Show \/ ExecuteShutdown \/ Persist \/ Refill \/ Prime \/ UNCHANGED vars
  <2>1. UNCHANGED <<roll, ring, head, lastHeard, listened, reports>>
    BY <1>8 DEF LookPaused, Show, ExecuteShutdown, Persist, Refill, Prime, vars,
       mixer, output, judgement, history
  <2>2. QED
    BY <2>1, HeardOutStays
<1>9. QED
  BY <1>1, <1>2, <1>3, <1>4, <1>5, <1>6, <1>7, <1>8 DEF Next, Pass

(* Whatever a listener asks, and whenever the power fails, only what the   *)
(* device took a unit of is ever recorded as skipped -- as long as a skip  *)
(* keeps a fade of what sounds: a hard cut may take away, unheard, the one *)
(* unit that made a passage the one being judged.                          *)
THEOREM UnheardNeverDeclined ==
    ASSUME Fade > 0
    PROVE  Spec => []UnheardIsNotDeclined
<1>1. Init => TypeOK /\ HeardOut
  BY InitShape, NothingHeardOut
<1>2. TypeOK /\ HeardOut /\ [Next]_vars => TypeOK' /\ HeardOut'
  BY NextKeepsShape, NextKeepsHeardOut
<1>3. HeardOut => UnheardIsNotDeclined
  BY DEF HeardOut
<1>4. QED
  BY <1>1, <1>2, <1>3, PTL DEF Spec

-----------------------------------------------------------------------------
(* What is credited was heard.  How a passage lies in the ring: each unit  *)
(* has one place of an admission at most, the places follow one another,   *)
(* an admission that was begun is not taken up again after a pause, the    *)
(* ring takes up where the device left off, and the mixer goes on where    *)
(* the ring ends.  So what the device is in of an admission moves by one   *)
(* with every unit it takes, and by nothing else.                          *)

Within(adm, unit) == \E c \in unit : c.adm = adm

Single(unit) == \A c, d \in unit : c.adm = d.adm => c = d

Begun(units, ends, i, adm) == ends[adm] > 0 \/ \E j \in 1..i : Within(adm, units[j])

InStep(units) ==
    \A i \in 1..Len(units) : i + 1 <= Len(units) =>
        \A c \in units[i], d \in units[i + 1] : c.adm = d.adm => d.at = c.at + 1

Unbroken(units, ends) ==
    \A i \in 1..Len(units) : i + 1 <= Len(units) =>
        \A c \in units[i + 1] : Begun(units, ends, i, c.adm) => Within(c.adm, units[i])

GoesOn(units, ends) ==
    Len(units) > 0 => \A c \in units[1] : ends[c.adm] = 0 \/ ends[c.adm] = c.at

Laid(units, ends) ==
    /\ \A i \in 1..Len(units) : Single(units[i])
    /\ InStep(units) /\ Unbroken(units, ends) /\ GoesOn(units, ends)

\* Where the mixer goes on with c: c is over, or not begun, or comes next.
GoesOnFrom(c, units, ends, r) ==
    \/ c.at = Length[r[c.adm]]
    \/ ends[c.adm] = 0 /\ \A i \in 1..Len(units) : ~Within(c.adm, units[i])
    \/ Len(units) = 0 /\ ends[c.adm] = c.at
    \/ Len(units) > 0 /\ \E d \in units[Len(units)] : d.adm = c.adm /\ d.at + 1 = c.at

Mixing(units, ends, l, r) == Single(l) /\ \A c \in l : GoesOnFrom(c, units, ends, r)

(* More admissions leave the ends of the earlier ones.                     *)
LEMMA EndsGrown ==
    ASSUME TypeOK, NEW r, Extends(r)
    PROVE  /\ \A a \in 1..Len(roll) : NewAdmissions(r)[a] = heardEnd[a]
           /\ \A a \in 1..Len(r) : a > Len(roll) => NewAdmissions(r)[a] = 0
<1> DEFINE n == Len(r) - Len(roll)
           more == [i \in 1..n |-> 0]
<1>1. n \in Nat /\ Len(roll) \in Nat /\ Len(r) \in Nat
  BY RollFacts, LenProperties DEF Extends
<1>2. more \in Seq(Nat) /\ Len(more) = n /\ \A i \in 1..n : more[i] = 0
  <2> HIDE DEF n
  <2>1. more \in [1..n -> Nat]
    OBVIOUS
  <2>2. QED
    BY <2>1, <1>1, SeqDef, LenProperties
<1> HIDE DEF more
<1>3. /\ Len(heardEnd) = Len(roll)
      /\ \A i \in 1..(Len(heardEnd) + Len(more)) :
            (heardEnd \o more)[i] = IF i <= Len(heardEnd) THEN heardEnd[i]
                                    ELSE more[i - Len(heardEnd)]
  BY <1>2, ConcatProperties DEF TypeOK
<1> DEFINE e == heardEnd \o more
<1>4. NewAdmissions(r) = e
  BY DEF NewAdmissions, more
<1>5. \A i \in 1..Len(r) : e[i] = IF i <= Len(roll) THEN heardEnd[i] ELSE more[i - Len(roll)]
  BY <1>1, <1>2, <1>3
<1> HIDE DEF e
<1>6. \A a \in 1..Len(r) : a > Len(roll) => more[a - Len(roll)] = 0
  BY <1>1, <1>2
<1>7. \A a \in 1..Len(roll) : a \in 1..Len(r) /\ a <= Len(roll)
  BY <1>1
<1>8. \A a \in 1..Len(r) : a > Len(roll) => ~(a <= Len(roll))
  BY <1>1
<1>9. QED
  BY <1>4, <1>5, <1>6, <1>7, <1>8

LEMMA UnitFacts ==
    ASSUME NEW r, NEW units, IsRing(units, r)
    PROVE  /\ Len(units) \in Nat
           /\ \A i \in 1..Len(units) : \A c \in units[i] : c.adm \in 1..Len(r) /\ c.at \in Nat
<1>1. Len(units) \in Nat /\ \A i \in 1..Len(units) : units[i] \in Units(r)
  BY LenProperties, ElementOfSeq DEF IsRing
<1>2. QED
  BY <1>1 DEF Units

(* Ends that agree on the admissions of the ring are as good.              *)
LEMMA LaidByEnds ==
    ASSUME NEW units, NEW ends, NEW new, Laid(units, ends),
           \A i \in 1..Len(units) : \A c \in units[i] : new[c.adm] = ends[c.adm],
           Len(units) \in Nat
    PROVE  Laid(units, new)
<1>1. Unbroken(units, new)
  BY DEF Laid, Unbroken, Begun
<1>2. GoesOn(units, new)
  BY DEF Laid, GoesOn
<1>3. QED
  BY <1>1, <1>2 DEF Laid

(* The front of a ring with whole admissions taken out of it.              *)
LEMMA LaidThinned ==
    ASSUME NEW units, NEW ends, Laid(units, ends), Len(units) \in Nat,
           NEW v, Len(v) \in Nat, Len(v) <= Len(units), NEW gone,
           \A i \in 1..Len(v) : v[i] = {c \in units[i] : c.adm \notin gone}
    PROVE  Laid(v, ends)
<1>0. \A i \in 1..Len(v) : i \in 1..Len(units)
  OBVIOUS
<1>1. \A i \in 1..Len(v) : Single(v[i])
  BY <1>0 DEF Laid, Single
<1>2. InStep(v)
  BY <1>0 DEF Laid, InStep
<1>3. Unbroken(v, ends)
  <2> SUFFICES ASSUME NEW i \in 1..Len(v), i + 1 <= Len(v), NEW c \in v[i + 1],
                      Begun(v, ends, i, c.adm)
               PROVE  Within(c.adm, v[i])
    BY DEF Unbroken
  <2>1. /\ i \in 1..Len(units) /\ i + 1 <= Len(units)
        /\ c \in units[i + 1] /\ c.adm \notin gone
    <3>1. i + 1 \in 1..Len(v)
      OBVIOUS
    <3>2. QED
      BY <3>1, <1>0
  <2>2. Begun(units, ends, i, c.adm)
    <3>1. \A j \in 1..i : Within(c.adm, v[j]) => Within(c.adm, units[j])
      <4> TAKE j \in 1..i
      <4>1. j \in 1..Len(v)
        OBVIOUS
      <4>2. QED
        BY <4>1 DEF Within
    <3>2. QED
      BY <3>1 DEF Begun
  <2>3. Within(c.adm, units[i])
    BY <2>1, <2>2 DEF Laid, Unbroken
  <2>4. QED
    BY <2>1, <2>3 DEF Within
<1>4. GoesOn(v, ends)
  <2> SUFFICES ASSUME Len(v) > 0 PROVE \A c \in v[1] : ends[c.adm] = 0 \/ ends[c.adm] = c.at
    BY DEF GoesOn
  <2>1. 1 \in 1..Len(v) /\ Len(units) > 0
    OBVIOUS
  <2>2. QED
    BY <2>1 DEF Laid, GoesOn
<1>5. QED
  BY <1>1, <1>2, <1>3, <1>4 DEF Laid

\* The ring w is the ring units with the newcomer d laid from lo to hi.
LaidAlong(units, w, d, lo, hi, over) ==
    /\ Len(w) = Len(units) /\ lo \in Nat /\ hi \in Nat /\ d.at \in Nat
    /\ \A i \in 1..Len(w) : units[i] \subseteq w[i]
    /\ \A i \in 1..Len(w) : lo <= i /\ i <= hi => Within(d.adm, w[i])
    /\ \A i \in 1..Len(w) : \A c \in w[i] :
          \/ c \in units[i]
          \/ lo <= i /\ i <= hi /\ c = over[i] /\ c.adm = d.adm /\ c.at = d.at + (i - lo)

(* A newcomer d laid along the end of a ring that does not know it.        *)
LEMMA LaidOver ==
    ASSUME NEW units, NEW ends, Laid(units, ends), Len(units) \in Nat,
           NEW w, NEW d, NEW lo, NEW hi, NEW over, LaidAlong(units, w, d, lo, hi, over),
           ends[d.adm] = 0, \A i \in 1..Len(units) : ~Within(d.adm, units[i])
    PROVE  Laid(w, ends)
<1>0. /\ Len(w) = Len(units) /\ lo \in Nat /\ hi \in Nat /\ d.at \in Nat
      /\ \A i \in 1..Len(w) : units[i] \subseteq w[i]
      /\ \A i \in 1..Len(w) : lo <= i /\ i <= hi => Within(d.adm, w[i])
  BY DEF LaidAlong
<1>1. ASSUME NEW i \in 1..Len(w), NEW c \in w[i]
      PROVE  \/ c \in units[i] /\ c.adm # d.adm
             \/ lo <= i /\ i <= hi /\ c = over[i] /\ c.adm = d.adm /\ c.at = d.at + (i - lo)
  BY <1>0, <1>1 DEF LaidAlong, Within
<1>4. \A i \in 1..Len(w) : Single(w[i])
  <2> TAKE i \in 1..Len(w)
  <2>1. Single(units[i])
    BY <1>0 DEF Laid
  <2>2. QED
    BY <1>1, <2>1 DEF Single
<1>5. InStep(w)
  <2> SUFFICES ASSUME NEW i \in 1..Len(w), i + 1 <= Len(w),
                      NEW c \in w[i], NEW e \in w[i + 1], c.adm = e.adm
               PROVE  e.at = c.at + 1
    BY <1>0 DEF InStep
  <2>1. i + 1 \in 1..Len(w)
    BY <1>0
  <2>2. CASE c.adm # d.adm
    <3>1. c \in units[i] /\ e \in units[i + 1]
      BY <1>0, <2>1, <2>2, <1>1
    <3>2. QED
      BY <1>0, <3>1 DEF Laid, InStep
  <2>3. CASE c.adm = d.adm
    <3>1. c.at = d.at + (i - lo)
      BY <1>0, <2>3, <1>1
    <3>2. e.adm = d.adm
      BY <1>0, <2>3
    <3>3. e.at = d.at + (i + 1 - lo)
      BY <1>0, <2>1, <3>2, <1>1
    <3>4. QED
      BY <1>0, <3>1, <3>3
  <2>4. QED
    BY <1>0, <2>2, <2>3
<1>6. Unbroken(w, ends)
  <2> SUFFICES ASSUME NEW i \in 1..Len(w), i + 1 <= Len(w), NEW c \in w[i + 1],
                      Begun(w, ends, i, c.adm)
               PROVE  Within(c.adm, w[i])
    BY <1>0 DEF Unbroken
  <2>1. i + 1 \in 1..Len(w) /\ \A j \in 1..i : j \in 1..Len(w)
    BY <1>0
  <2>2. CASE c.adm # d.adm
    <3>1. c \in units[i + 1]
      BY <1>0, <2>1, <2>2, <1>1
    <3>2. Begun(units, ends, i, c.adm)
      <4>1. \A j \in 1..i : Within(c.adm, w[j]) => Within(c.adm, units[j])
        BY <1>0, <2>1, <2>2, <1>1 DEF Within
      <4>2. QED
        BY <4>1 DEF Begun
    <3>3. Within(c.adm, units[i])
      BY <1>0, <3>1, <3>2 DEF Laid, Unbroken
    <3>4. QED
      BY <1>0, <3>3 DEF Within
  <2>3. CASE c.adm = d.adm
    <3>1. i + 1 <= hi
      BY <1>0, <2>1, <2>3, <1>1
    <3>2. PICK j \in 1..i : Within(d.adm, w[j])
      BY <1>0, <2>3 DEF Begun
    <3>3. lo <= j
      BY <1>0, <2>1, <3>2, <1>1 DEF Within
    <3>4. lo <= i /\ i <= hi
      BY <1>0, <3>1, <3>3
    <3>5. QED
      BY <1>0, <2>3, <3>4
  <2>4. QED
    BY <1>0, <2>2, <2>3
<1>7. GoesOn(w, ends)
  <2> SUFFICES ASSUME Len(w) > 0, NEW c \in w[1]
               PROVE  ends[c.adm] = 0 \/ ends[c.adm] = c.at
    BY <1>0 DEF GoesOn
  <2>1. 1 \in 1..Len(w)
    BY <1>0
  <2>2. c \in units[1] \/ c.adm = d.adm
    BY <1>0, <2>1, <1>1
  <2>3. QED
    BY <1>0, <2>2 DEF Laid, GoesOn
<1>8. QED
  BY <1>4, <1>5, <1>6, <1>7 DEF Laid

\* w is units with g after them, which the mixer has and has not ended.
Adds(units, ends, l, r, g, w) ==
    /\ Laid(units, ends) /\ Len(units) \in Nat /\ Mixing(units, ends, l, r)
    /\ g \subseteq l /\ \A c \in g : c.at # Length[r[c.adm]]
    /\ Len(w) = Len(units) + 1 /\ w[Len(units) + 1] = g
    /\ \A i \in 1..Len(units) : w[i] = units[i]

(* Another unit of what the mixer has.                                     *)
LEMMA LaidAppended ==
    ASSUME NEW units, NEW ends, NEW l, NEW r, NEW g, NEW w,
           Adds(units, ends, l, r, g, w)
    PROVE  Laid(w, ends)
<1> USE DEF Adds
<1> DEFINE m == Len(units)
<1>0. \A i \in 1..Len(w) : i \in 1..m \/ i = m + 1
  OBVIOUS
<1>1. \A i \in 1..Len(w) : Single(w[i])
  <2>1. Single(g)
    BY DEF Mixing, Single
  <2>2. QED
    BY <1>0, <2>1 DEF Laid
<1>2. ASSUME NEW c \in g, m > 0
      PROVE  \/ ends[c.adm] = 0 /\ \A i \in 1..m : ~Within(c.adm, units[i])
             \/ \E d \in units[m] : d.adm = c.adm /\ d.at + 1 = c.at
  BY <1>2 DEF Mixing, GoesOnFrom
<1>3. InStep(w)
  <2> SUFFICES ASSUME NEW i \in 1..Len(w), i + 1 <= Len(w),
                      NEW c \in w[i], NEW e \in w[i + 1], c.adm = e.adm
               PROVE  e.at = c.at + 1
    BY DEF InStep
  <2>1. i \in 1..m /\ c \in units[i] /\ m > 0
    OBVIOUS
  <2>2. CASE i + 1 <= m
    <3>1. e \in units[i + 1]
      BY <2>1, <2>2
    <3>2. QED
      BY <2>1, <2>2, <3>1 DEF Laid, InStep
  <2>3. CASE i = m
    <3>1. e \in g
      BY <2>3
    <3>2. PICK d \in units[m] : d.adm = e.adm /\ d.at + 1 = e.at
      BY <2>1, <3>1, <1>2 DEF Within
    <3>3. c = d
      BY <2>1, <2>3, <3>2 DEF Laid, Single
    <3>4. QED
      BY <3>2, <3>3
  <2>4. QED
    BY <2>1, <2>2, <2>3
<1>4. Unbroken(w, ends)
  <2> SUFFICES ASSUME NEW i \in 1..Len(w), i + 1 <= Len(w), NEW c \in w[i + 1],
                      Begun(w, ends, i, c.adm)
               PROVE  Within(c.adm, w[i])
    BY DEF Unbroken
  <2>1. i \in 1..m /\ w[i] = units[i] /\ m > 0
    OBVIOUS
  <2>2. Begun(units, ends, i, c.adm)
    <3>1. \A j \in 1..i : w[j] = units[j]
      BY <2>1
    <3>2. QED
      BY <3>1 DEF Begun
  <2>3. CASE i + 1 <= m
    <3>1. c \in units[i + 1]
      BY <2>1, <2>3
    <3>2. QED
      BY <2>1, <2>2, <2>3, <3>1 DEF Laid, Unbroken
  <2>4. CASE i = m
    <3>1. c \in g
      BY <2>4
    <3>2. \E d \in units[m] : d.adm = c.adm
      BY <2>1, <2>2, <2>4, <3>1, <1>2 DEF Begun
    <3>3. QED
      BY <2>1, <2>4, <3>2 DEF Within
  <2>5. QED
    BY <2>1, <2>3, <2>4
<1>5. GoesOn(w, ends)
  <2> SUFFICES ASSUME NEW c \in w[1]
               PROVE  ends[c.adm] = 0 \/ ends[c.adm] = c.at
    BY DEF GoesOn
  <2>1. CASE m > 0
    BY <2>1 DEF Laid, GoesOn
  <2>2. CASE m = 0
    <3>1. c \in g
      BY <2>2
    <3>2. QED
      BY <2>2, <3>1 DEF Mixing, GoesOnFrom
  <2>3. QED
    BY <2>1, <2>2
<1>6. QED
  BY <1>1, <1>3, <1>4, <1>5 DEF Laid

(* The device takes the front unit.                                        *)
LEMMA LaidTaken ==
    ASSUME NEW units, NEW ends, Laid(units, ends), Len(units) \in Nat, Len(units) > 0,
           NEW new, NEW r, \A i \in 1..Len(units) : \A c \in units[i] : c.adm \in 1..Len(r),
           \A a \in 1..Len(r) : ends[a] \in Nat,
           \A c \in units[1] : new[c.adm] = c.at + 1,
           \A a \in 1..Len(r) : ~Within(a, units[1]) => new[a] = ends[a],
           NEW v, Len(v) = Len(units) - 1, \A i \in 1..Len(v) : v[i] = units[i + 1]
    PROVE  Laid(v, new)
<1>0. \A i \in 1..Len(v) : i + 1 \in 1..Len(units) /\ i \in 1..Len(units)
  OBVIOUS
<1>1. \A i \in 1..Len(v) : Single(v[i])
  BY <1>0 DEF Laid
<1>2. InStep(v)
  <2> SUFFICES ASSUME NEW i \in 1..Len(v), i + 1 <= Len(v),
                      NEW c \in v[i], NEW e \in v[i + 1], c.adm = e.adm
               PROVE  e.at = c.at + 1
    BY DEF InStep
  <2>1. /\ i + 1 \in 1..Len(units) /\ (i + 1) + 1 <= Len(units)
        /\ c \in units[i + 1] /\ e \in units[(i + 1) + 1]
    <3>1. i + 1 \in 1..Len(v)
      OBVIOUS
    <3>2. v[i] = units[i + 1] /\ v[i + 1] = units[(i + 1) + 1]
      BY <3>1
    <3>3. (i + 1) + 1 <= Len(units)
      BY <3>1, <1>0
    <3>4. QED
      BY <3>1, <3>2, <3>3, <1>0
  <2>2. QED
    BY <2>1 DEF Laid, InStep
<1>3. Unbroken(v, new)
  <2> SUFFICES ASSUME NEW i \in 1..Len(v), i + 1 <= Len(v), NEW c \in v[i + 1],
                      Begun(v, new, i, c.adm)
               PROVE  Within(c.adm, v[i])
    BY DEF Unbroken
  <2>1. /\ i + 1 \in 1..Len(units) /\ (i + 1) + 1 <= Len(units)
        /\ v[i] = units[i + 1] /\ c \in units[(i + 1) + 1] /\ c.adm \in 1..Len(r)
    <3>1. i + 1 \in 1..Len(v)
      OBVIOUS
    <3>2. QED
      BY <3>1, <1>0
  <2>2. Begun(units, ends, i + 1, c.adm)
    <3>1. CASE new[c.adm] > 0
      <4>1. Within(c.adm, units[1]) \/ ends[c.adm] > 0
        BY <2>1, <3>1
      <4>2. QED
        BY <4>1 DEF Begun
    <3>2. CASE \E j \in 1..i : Within(c.adm, v[j])
      <4>1. PICK j \in 1..i : Within(c.adm, v[j])
        BY <3>2
      <4>2. j \in 1..Len(v) /\ j + 1 \in 1..(i + 1)
        OBVIOUS
      <4>3. Within(c.adm, units[j + 1])
        BY <4>1, <4>2
      <4>4. QED
        BY <4>2, <4>3 DEF Begun
    <3>3. QED
      BY <3>1, <3>2 DEF Begun
  <2>3. QED
    BY <2>1, <2>2 DEF Laid, Unbroken
<1>4. GoesOn(v, new)
  <2> SUFFICES ASSUME Len(v) > 0, NEW c \in v[1]
               PROVE  new[c.adm] = 0 \/ new[c.adm] = c.at
    BY DEF GoesOn
  <2>1. /\ 1 \in 1..Len(units) /\ 1 + 1 <= Len(units) /\ 1 + 1 \in 1..Len(units)
        /\ c \in units[1 + 1] /\ c.adm \in 1..Len(r)
    <3>1. 1 \in 1..Len(v)
      OBVIOUS
    <3>2. QED
      BY <3>1, <1>0
  <2>2. CASE Within(c.adm, units[1])
    <3>1. PICK d \in units[1] : d.adm = c.adm
      BY <2>2 DEF Within
    <3>2. c.at = d.at + 1 /\ new[d.adm] = d.at + 1
      BY <2>1, <3>1 DEF Laid, InStep
    <3>3. QED
      BY <3>1, <3>2
  <2>3. CASE ~Within(c.adm, units[1])
    <3>1. new[c.adm] = ends[c.adm]
      BY <2>1, <2>3
    <3>2. ~(ends[c.adm] > 0)
      BY <2>1, <2>3 DEF Laid, Unbroken, Begun
    <3>3. ends[c.adm] \in Nat
      BY <2>1
    <3>4. QED
      BY <3>1, <3>2, <3>3
  <2>4. QED
    BY <2>2, <2>3
<1>5. QED
  BY <1>1, <1>2, <1>3, <1>4 DEF Laid

LEMMA MixingTaken ==
    ASSUME NEW units, NEW ends, NEW l, NEW r, Mixing(units, ends, l, r),
           Len(units) \in Nat, Len(units) > 0, \A c \in l : c.adm \in 1..Len(r),
           NEW new,
           \A c \in units[1] : new[c.adm] = c.at + 1,
           \A a \in 1..Len(r) : ~Within(a, units[1]) => new[a] = ends[a],
           NEW v, Len(v) = Len(units) - 1, \A i \in 1..Len(v) : v[i] = units[i + 1]
    PROVE  Mixing(v, new, l, r)
<1> SUFFICES ASSUME NEW c \in l PROVE GoesOnFrom(c, v, new, r)
  BY DEF Mixing
<1>1. GoesOnFrom(c, units, ends, r) /\ c.adm \in 1..Len(r)
  BY DEF Mixing
<1>2. CASE c.at = Length[r[c.adm]]
  BY <1>2 DEF GoesOnFrom
<1>3. CASE ends[c.adm] = 0 /\ \A i \in 1..Len(units) : ~Within(c.adm, units[i])
  <2>1. 1 \in 1..Len(units) /\ \A i \in 1..Len(v) : i + 1 \in 1..Len(units)
    OBVIOUS
  <2>2. new[c.adm] = 0 /\ \A i \in 1..Len(v) : ~Within(c.adm, v[i])
    BY <1>1, <1>3, <2>1
  <2>3. QED
    BY <2>2 DEF GoesOnFrom
<1>4. CASE \E d \in units[Len(units)] : d.adm = c.adm /\ d.at + 1 = c.at
  <2>1. PICK d \in units[Len(units)] : d.adm = c.adm /\ d.at + 1 = c.at
    BY <1>4
  <2>2. CASE Len(units) = 1
    <3>1. new[c.adm] = c.at /\ Len(v) = 0
      BY <2>1, <2>2
    <3>2. QED
      BY <3>1 DEF GoesOnFrom
  <2>3. CASE Len(units) # 1
    <3>1. Len(v) > 0 /\ Len(v) \in 1..Len(v) /\ Len(v) + 1 = Len(units)
      BY <2>3
    <3>2. v[Len(v)] = units[Len(units)]
      BY <3>1
    <3>3. QED
      BY <2>1, <3>1, <3>2 DEF GoesOnFrom
  <2>4. QED
    BY <2>2, <2>3
<1>5. QED
  BY <1>1, <1>2, <1>3, <1>4 DEF GoesOnFrom

(* Another unit mixed, of all the mixer has left.                          *)
LEMMA MixingOn ==
    ASSUME NEW units, NEW ends, NEW l, NEW r, Mixing(units, ends, l, r),
           IsMixer(l, r), Len(units) \in Nat, NEW g, g \subseteq l,
           NEW w, Len(w) = Len(units) + 1, w[Len(units) + 1] = g
    PROVE  Mixing(w, ends, On(g, 1), r)
<1>0. \A d \in g : d \in [adm : 1..Len(r), at : Nat]
  BY DEF IsMixer
<1>1. \A c \in On(g, 1) : \E d \in g :
         c = [d EXCEPT !.at = @ + 1] /\ c.adm = d.adm /\ c.at = d.at + 1
  BY <1>0 DEF On
<1>2. Single(On(g, 1))
  BY <1>1 DEF Single, Mixing
<1>3. ASSUME NEW c \in On(g, 1)
      PROVE  GoesOnFrom(c, w, ends, r)
  <2>1. PICK d \in g : d.adm = c.adm /\ d.at + 1 = c.at
    BY <1>1
  <2>2. Len(w) > 0 /\ d \in w[Len(w)]
    OBVIOUS
  <2>3. QED
    BY <2>1, <2>2 DEF GoesOnFrom
<1>4. QED
  BY <1>2, <1>3 DEF Mixing

LEMMA MixingLess ==
    ASSUME NEW units, NEW ends, NEW l, NEW r, Mixing(units, ends, l, r),
           NEW g, g \subseteq l
    PROVE  Mixing(units, ends, g, r)
BY DEF Mixing, Single

-----------------------------------------------------------------------------
(* What is admitted, and what is cut to, is new to the ring.               *)

LEMMA AdmittedLies ==
    ASSUME TypeOK, Laid(ring, heardEnd), Mixing(ring, heardEnd, live, roll)
    PROVE  LET a == Admission(queue, live)
           IN  /\ Laid(ring, NewAdmissions(a.roll))
               /\ Mixing(ring, NewAdmissions(a.roll), a.live, a.roll)
<1> DEFINE a == Admission(queue, live)
           ends == NewAdmissions(a.roll)
<1>1. /\ Len(roll) \in Nat /\ IsMixer(live, roll) /\ IsRing(ring, roll)
      /\ Extends(a.roll) /\ Len(a.roll) \in Nat
  <2>1. Len(roll) \in Nat /\ IsMixer(live, roll) /\ IsRing(ring, roll)
    BY RollFacts, RingTyped
  <2>2. IsQueue(queue)
    BY DEF TypeOK
  <2>3. Extends(a.roll)
    BY <2>1, <2>2, AdmissionTyped
  <2>4. Len(a.roll) \in Nat
    BY <2>3, LenProperties DEF Extends
  <2>5. QED
    BY <2>1, <2>3, <2>4
<1>2. /\ \A b \in 1..Len(roll) : ends[b] = heardEnd[b]
      /\ \A b \in 1..Len(a.roll) : b > Len(roll) => ends[b] = 0
  BY <1>1, EndsGrown
<1>3. /\ Len(ring) \in Nat
      /\ \A i \in 1..Len(ring) : \A c \in ring[i] : c.adm \in 1..Len(roll)
      /\ \A c \in live : c.adm \in 1..Len(roll)
  BY <1>1, UnitFacts DEF IsMixer
<1>4. \/ a.roll = roll /\ a.live = live
      \/ \E at : /\ Len(a.roll) = Len(roll) + 1
                 /\ a.live = live \cup {Opened(at)}
  <2>1. CASE Due(queue, live) /\ Head(queue) \notin Unopenable
    <3>1. Head(queue) \in Passages
      BY <2>1, TailQueue DEF Due, TypeOK
    <3>2. a.roll = Append(roll, Head(queue)) /\ Len(a.roll) = Len(roll) + 1
          /\ a.live = live \cup {Opened(Origin(Head(queue)))}
      BY <2>1, <3>1, RollGrows DEF Admission
    <3>3. QED
      BY <3>2
  <2>2. CASE ~(Due(queue, live) /\ Head(queue) \notin Unopenable)
    BY <2>2 DEF Admission
  <2>3. QED
    BY <2>1, <2>2
<1> HIDE DEF a, ends
<1>5. Laid(ring, ends)
  BY <1>2, <1>3, LaidByEnds
<1>6. ASSUME NEW c \in live
      PROVE  GoesOnFrom(c, ring, ends, a.roll)
  <2>1. GoesOnFrom(c, ring, heardEnd, roll)
    BY DEF Mixing
  <2>2. ends[c.adm] = heardEnd[c.adm] /\ a.roll[c.adm] = roll[c.adm]
    BY <1>1, <1>2, <1>3 DEF Extends
  <2>3. QED
    BY <2>1, <2>2 DEF GoesOnFrom
<1>7. Mixing(ring, ends, a.live, a.roll)
  <2>1. CASE a.live = live
    BY <1>6, <2>1 DEF Mixing
  <2>2. CASE \E at : Len(a.roll) = Len(roll) + 1 /\ a.live = live \cup {Opened(at)}
    <3>1. PICK at : Len(a.roll) = Len(roll) + 1 /\ a.live = live \cup {Opened(at)}
      BY <2>2
    <3>2. Opened(at).adm = Len(roll) + 1
      BY DEF Opened
    <3>3. ends[Len(roll) + 1] = 0 /\ Len(roll) + 1 \notin 1..Len(roll)
      BY <1>1, <1>2, <3>1
    <3>4. \A i \in 1..Len(ring) : ~Within(Len(roll) + 1, ring[i])
      BY <1>3, <3>3 DEF Within
    <3>5. GoesOnFrom(Opened(at), ring, ends, a.roll)
      BY <3>2, <3>3, <3>4 DEF GoesOnFrom
    <3>6. Single(live \cup {Opened(at)})
      BY <1>3, <3>2, <3>3 DEF Mixing, Single
    <3>7. QED
      BY <1>6, <3>1, <3>5, <3>6 DEF Mixing
  <2>3. QED
    BY <1>4, <2>1, <2>2
<1>8. QED
  BY <1>5, <1>7 DEF a, ends

LEMMA CutUnits ==
    ASSUME NEW units, IsRing(units, roll), NEW l, NEW n
    PROVE  /\ Len(CutOver(units, l, n)) = Len(Kept(units))
           /\ \A i \in 1..Len(Kept(units)) :
                 CutOver(units, l, n)[i] =
                    units[i] \cup (IF i > Lead /\ i <= Lead + n THEN On(l, i - Lead - 1) ELSE {})
<1> DEFINE k == Len(Kept(units))
           f == [i \in 1..k |->
                   units[i] \cup (IF i > Lead /\ i <= Lead + n THEN On(l, i - Lead - 1) ELSE {})]
<1>1. k \in Nat
  BY KeptTyped
<1>2. CutOver(units, l, n) = f
  BY DEF CutOver
<1> HIDE DEF k
<1>3. Len(f) = k
  BY <1>1, LenProperties
<1>4. QED
  BY <1>2, <1>3 DEF k

LEMMA CutLies ==
    ASSUME TypeOK, NEW left, IsRing(left, roll), Laid(left, heardEnd),
           NEW r, Extends(r), NEW l, IsMixer(l, r),
           l = {} \/ ((\E at \in Nat : l = {Opened(at)}) /\ Len(r) = Len(roll) + 1),
           NEW n \in Decoded(left, l, r)
    PROVE  /\ Laid(CutOver(left, l, n), NewAdmissions(r))
           /\ Mixing(CutOver(left, l, n), NewAdmissions(r), On(l, n), r)
<1> DEFINE k == Kept(left)
           w == CutOver(left, l, n)
           ends == NewAdmissions(r)
<1>1. /\ Len(roll) \in Nat /\ Len(r) \in Nat /\ Len(left) \in Nat /\ Lead \in Nat /\ Lead > 0
      /\ r \in Seq(Passages)
  BY RollFacts, UnitFacts, LenProperties, DeviceAssumption DEF Extends
<1>2. /\ \A b \in 1..Len(roll) : ends[b] = heardEnd[b]
      /\ \A b \in 1..Len(r) : b > Len(roll) => ends[b] = 0
  BY EndsGrown
<1>3. /\ Len(k) \in Nat /\ Len(k) <= Len(left) /\ IsRing(k, roll)
      /\ \A i \in 1..Len(k) : k[i] = left[i]
  BY KeptTyped
<1>4. \A i \in 1..Len(k) : \A c \in k[i] : c.adm \in 1..Len(roll)
  BY <1>3, UnitFacts
<1>5. Laid(k, ends)
  <2> DEFINE gone == {}
  <2>1. \A i \in 1..Len(k) : k[i] = {c \in left[i] : c.adm \notin gone}
    BY <1>3
  <2> HIDE DEF k, ends, gone
  <2>2. Laid(k, heardEnd)
    <3>1. Len(k) \in Nat /\ Len(k) <= Len(left) /\ Len(left) \in Nat
      BY <1>1, <1>3
    <3>2. QED
      BY <2>1, <3>1, LaidThinned
  <2>3. QED
    BY <1>2, <1>3, <1>4, <2>2, LaidByEnds
<1>6. /\ Len(w) = Len(k)
      /\ \A i \in 1..Len(k) :
            w[i] = left[i] \cup (IF i > Lead /\ i <= Lead + n THEN On(l, i - Lead - 1) ELSE {})
  BY CutUnits
<1>7. CASE l = {}
  <2>1. \A i \in 1..Len(k) : w[i] = k[i]
    <3>1. \A j : On({}, j) = {}
      BY DEF On
    <3>2. QED
      BY <1>3, <1>6, <1>7, <3>1
  <2>2. Laid(w, ends)
    <3> DEFINE gone == {}
    <3>1. \A i \in 1..Len(w) : w[i] = {c \in k[i] : c.adm \notin gone}
      BY <1>6, <2>1
    <3> HIDE DEF w, k, ends, gone
    <3>2. Len(w) \in Nat /\ Len(w) <= Len(k) /\ Len(k) \in Nat
      BY <1>3, <1>6
    <3>3. QED
      BY <1>5, <3>1, <3>2, LaidThinned
  <2>3. On(l, n) = {}
    BY <1>7 DEF On
  <2>4. QED
    BY <2>2, <2>3 DEF Mixing, Single
<1>8. CASE l # {}
  <2>1. PICK at \in Nat : l = {Opened(at)} /\ Len(r) = Len(roll) + 1
    BY <1>8
  <2> DEFINE d == Opened(at)
             over == [i \in 1..Len(k) |-> [d EXCEPT !.at = @ + (i - Lead - 1)]]
  <2>2. /\ d.adm = Len(roll) + 1 /\ d.at = at /\ d.at \in Nat /\ ends[d.adm] = 0
        /\ d = [adm |-> Len(roll) + 1, at |-> at]
    BY <1>1, <1>2, <2>1 DEF Opened
  <2>3. \A i \in 1..Len(k) : ~Within(d.adm, k[i])
    BY <1>1, <1>4, <2>2 DEF Within
  <2>4. /\ n \in Nat /\ IsMixer(On(l, n), r)
        /\ \/ n = 0
           \/ n = Least(Wanted(left), Length[r[d.adm]] - d.at)
    <3>1. n \in Nat /\ IsMixer(On(l, n), r)
      BY <1>1, <2>1, DecodedTyped
    <3>2. n = 0 \/ n = Least(Wanted(left), Length[r[d.adm]] - d.at)
      BY <2>1 DEF Decoded
    <3>3. QED
      BY <3>1, <3>2
  <2>5. \A j : On(l, j) = {[d EXCEPT !.at = @ + j]}
    BY <2>1 DEF On
  <2>6. \A j \in Nat : [d EXCEPT !.at = @ + j].adm = d.adm /\ [d EXCEPT !.at = @ + j].at = d.at + j
    BY <2>2
  <2> HIDE DEF d, k, w, ends
  <2>7. \A i \in 1..Len(k) : i > Lead => /\ over[i].adm = d.adm /\ over[i].at = d.at + (i - (Lead + 1))
                                          /\ On(l, i - Lead - 1) = {over[i]}
    <3> SUFFICES ASSUME NEW i \in 1..Len(k), i > Lead
                 PROVE  /\ over[i].adm = d.adm /\ over[i].at = d.at + (i - (Lead + 1))
                        /\ On(l, i - Lead - 1) = {over[i]}
      OBVIOUS
    <3>1. i - Lead - 1 \in Nat /\ i - Lead - 1 = i - (Lead + 1)
      BY <1>1, <1>3
    <3>2. over[i] = [d EXCEPT !.at = @ + (i - Lead - 1)]
      OBVIOUS
    <3>3. QED
      BY <2>5, <2>6, <3>1, <3>2
  <2> HIDE DEF over
  <2>8. ASSUME NEW i \in 1..Len(w)
        PROVE  /\ k[i] \subseteq w[i]
               /\ Lead + 1 <= i /\ i <= Lead + n => over[i] \in w[i] /\ Within(d.adm, w[i])
               /\ \A c \in w[i] :
                     \/ c \in k[i]
                     \/ /\ Lead + 1 <= i /\ i <= Lead + n /\ c = over[i]
                        /\ c.adm = d.adm /\ c.at = d.at + (i - (Lead + 1))
    <3>1. /\ i \in 1..Len(k) /\ k[i] = left[i]
          /\ w[i] = left[i] \cup (IF i > Lead /\ i <= Lead + n THEN On(l, i - Lead - 1) ELSE {})
      BY <1>3, <1>6, <2>8
    <3>2. CASE i > Lead /\ i <= Lead + n
      <4>1. w[i] = k[i] \cup {over[i]} /\ over[i].adm = d.adm
            /\ over[i].at = d.at + (i - (Lead + 1)) /\ Lead + 1 <= i
        BY <1>1, <3>1, <3>2, <2>7
      <4>2. QED
        BY <3>2, <4>1 DEF Within
    <3>3. CASE ~(i > Lead /\ i <= Lead + n)
      <4>1. w[i] = k[i] /\ ~(Lead + 1 <= i /\ i <= Lead + n)
        BY <1>1, <3>1, <3>3, <2>4
      <4>2. QED
        BY <4>1
    <3>4. QED
      BY <3>2, <3>3
  <2>9. Laid(w, ends)
    <3>1. Lead + 1 \in Nat /\ Lead + n \in Nat /\ Len(w) = Len(k)
      BY <1>1, <1>6, <2>4
    <3>2. LaidAlong(k, w, d, Lead + 1, Lead + n, over)
      BY <2>2, <2>8, <3>1 DEF LaidAlong
    <3>3. QED
      BY <1>3, <1>5, <2>2, <2>3, <3>2, LaidOver
  <2>10. Mixing(w, ends, On(l, n), r)
    <3> DEFINE e == [d EXCEPT !.at = @ + n]
    <3>1. On(l, n) = {e} /\ e.adm = d.adm /\ e.at = d.at + n
      BY <2>4, <2>5, <2>6
    <3> HIDE DEF e
    <3>2. GoesOnFrom(e, w, ends, r)
      <4>1. CASE n = 0
        <5>1. \A i \in 1..Len(w) : ~Within(d.adm, w[i])
          <6>1. ASSUME NEW i \in 1..Len(w), NEW c \in w[i]
                PROVE  c \in k[i] /\ i \in 1..Len(k)
            BY <1>1, <1>3, <1>6, <2>8, <4>1, <6>1
          <6>2. QED
            BY <6>1, <2>3 DEF Within
        <5>2. QED
          BY <2>2, <3>1, <5>1 DEF GoesOnFrom
      <4>2. CASE n # 0 /\ n = Length[r[d.adm]] - d.at
        <5>1. e.at = Length[r[e.adm]]
          <6>1. Length[r[d.adm]] \in Nat
            BY <1>1, <2>1, <2>2, LengthOf, ElementOfSeq
          <6>2. QED
            BY <2>2, <3>1, <4>2, <6>1
        <5>2. QED
          BY <5>1 DEF GoesOnFrom
      <4>3. CASE n # 0 /\ n = Wanted(left)
        <5>1. n = Len(k) - Lead /\ Len(k) > Lead
          BY <4>3 DEF Wanted, k
        <5>2. /\ Len(w) = Lead + n /\ Len(w) \in 1..Len(w) /\ Len(w) \in Nat
              /\ Lead + 1 <= Len(w) /\ Len(w) <= Lead + n
          BY <1>1, <1>3, <1>6, <5>1, <4>3, <2>4
        <5>3. over[Len(w)] \in w[Len(w)]
          BY <5>2, <2>8
        <5>4. over[Len(w)].adm = d.adm /\ over[Len(w)].at = d.at + (Len(w) - (Lead + 1))
          BY <1>1, <1>6, <5>2, <2>7
        <5>5. over[Len(w)].at + 1 = e.at
          BY <1>1, <2>2, <2>4, <3>1, <5>2, <5>4
        <5>6. QED
          BY <3>1, <5>2, <5>3, <5>4, <5>5 DEF GoesOnFrom
      <4>4. QED
        BY <2>4, <4>1, <4>2, <4>3 DEF Least
    <3>3. QED
      BY <3>1, <3>2 DEF Mixing, Single
  <2>11. QED
    BY <2>9, <2>10 DEF w, ends
<1>9. QED
  BY <1>7, <1>8

-----------------------------------------------------------------------------
(* The credit.                                                             *)

Lying == Laid(ring, heardEnd) /\ Mixing(ring, heardEnd, live, roll)

HasHeard == lastHeard # 0 => heardEnd[lastHeard] > 0

\* Nothing of the admission is to come.
Over(adm) == (\A c \in live : c.adm # adm) /\ \A i \in 1..Len(ring) : ~Within(adm, ring[i])

\* What is credited to the head, with what it moved since, was listened to;
\* and where it was last, it has been heard or will not be.
Judged ==
    head # Nobody =>
        /\ headAdm # 0 /\ roll[headAdm] = head
        /\ heard + HeadTail <= listened[head]
        /\ heardFrom # Nowhere =>
              Within(headAdm, Covering) \/ heardEnd[headAdm] > 0 \/ Over(headAdm)

\* The verdicts in told say no more than what was listened to.
Truthful(told) == \A p \in Passages : \A i \in 1..Len(told[p]) : told[p][i].heard <= listened[p]

Credible == Lying /\ HasHeard /\ Judged /\ Truthful(reports)

LEMMA AppendedTruth ==
    ASSUME TypeOK, NEW told \in Reports, Truthful(told), NEW p \in Passages,
           NEW e \in Reported, e.heard <= listened[p]
    PROVE  Truthful([told EXCEPT ![p] = Append(@, e)])
<1> DEFINE f == [told EXCEPT ![p] = Append(@, e)]
<1>1. \A q \in Passages : f[q] = IF q = p THEN Append(told[p], e) ELSE told[q]
  BY DEF Reports
<1>2. /\ told[p] \in Seq(Reported) /\ Len(told[p]) \in Nat
      /\ Len(Append(told[p], e)) = Len(told[p]) + 1
      /\ \A i \in 1..Len(told[p]) : Append(told[p], e)[i] = told[p][i]
      /\ Append(told[p], e)[Len(told[p]) + 1] = e
  BY AppendProperties, LenProperties DEF Reports
<1> HIDE DEF f
<1>3. ASSUME NEW i \in 1..Len(Append(told[p], e))
      PROVE  Append(told[p], e)[i].heard <= listened[p]
  <2>1. CASE i \in 1..Len(told[p])
    BY <1>2, <2>1 DEF Truthful
  <2>2. CASE i = Len(told[p]) + 1
    BY <1>2, <2>2
  <2>3. QED
    BY <1>2, <2>1, <2>2
<1>4. Truthful(f)
  BY <1>1, <1>3 DEF Truthful
<1>5. QED
  BY <1>4 DEF f

LEMMA ManyTruths ==
    ASSUME TypeOK, Truthful(reports), NEW ps, NEW e \in Reported, e.heard = 0,
           NEW f, f = [p \in Passages |-> IF p \in ps THEN Append(reports[p], e) ELSE reports[p]]
    PROVE  Truthful(f)
<1> SUFFICES ASSUME NEW p \in Passages, NEW i \in 1..Len(f[p])
             PROVE  f[p][i].heard <= listened[p]
  BY DEF Truthful
<1>1. reports[p] \in Seq(Reported) /\ listened[p] \in Nat
  BY DEF TypeOK, Reported
<1>2. CASE p \in ps
  <2>1. f[p] = Append(reports[p], e)
    BY <1>2
  <2>2. /\ Len(reports[p]) \in Nat /\ Len(Append(reports[p], e)) = Len(reports[p]) + 1
        /\ \A j \in 1..Len(reports[p]) : Append(reports[p], e)[j] = reports[p][j]
        /\ Append(reports[p], e)[Len(reports[p]) + 1] = e
    BY <1>1, AppendProperties, LenProperties
  <2>3. CASE i \in 1..Len(reports[p])
    BY <2>1, <2>2, <2>3 DEF Truthful
  <2>4. CASE i = Len(reports[p]) + 1
    BY <1>1, <2>1, <2>2, <2>4
  <2>5. QED
    BY <2>1, <2>2, <2>3, <2>4
<1>3. CASE p \notin ps
  BY <1>3 DEF Truthful
<1>4. QED
  BY <1>2, <1>3

LEMMA DropsTruthful ==
    ASSUME TypeOK, Truthful(reports), NEW ps
    PROVE  Truthful(AllDropped(ps))
<1> DEFINE e == [verdict |-> "dropped", heard |-> 0]
<1>1. e \in Reported /\ e.heard = 0
  BY DEF Reported, Verdicts
<1>2. AllDropped(ps) = [p \in Passages |-> IF p \in ps THEN Append(reports[p], e) ELSE reports[p]]
  BY DEF AllDropped
<1> HIDE DEF e
<1>3. QED
  BY <1>1, <1>2, ManyTruths

LEMMA TruthStays ==
    ASSUME Truthful(reports), UNCHANGED <<reports, listened>>
    PROVE  Truthful(reports)'
BY DEF Truthful

(* A verdict is told where listening stands still.                         *)
LEMMA TruthNext ==
    ASSUME Truthful(reports'), UNCHANGED listened
    PROVE  Truthful(reports)'
BY DEF Truthful

LEMMA CreditTruthful ==
    ASSUME TypeOK, NEW told \in Reports, Truthful(told), NEW p \in Passages \cup {Nobody},
           NEW units \in Nat, p # Nobody => units <= listened[p],
           NEW done, Credited(p, units, done, told), UNCHANGED listened
    PROVE  heard' = units /\ Truthful(reports)'
<1> DEFINE e == [verdict |-> "played", heard |-> units]
<1>1. \/ reports' = told
      \/ p \in Passages /\ p # Nobody /\ reports' = [told EXCEPT ![p] = Append(@, e)]
  BY DEF Credited
<1>2. e \in Reported /\ e.heard = units
  BY DEF Reported, Verdicts
<1> HIDE DEF e
<1>3. Truthful(reports')
  <2>1. CASE reports' = told
    BY <2>1
  <2>2. CASE p \in Passages /\ p # Nobody /\ reports' = [told EXCEPT ![p] = Append(@, e)]
    BY <1>2, <2>2, AppendedTruth
  <2>3. QED
    BY <1>1, <2>1, <2>2
<1>4. QED
  BY <1>3, TruthNext DEF Credited

(* How far an admission was heard, by the unit at the front and the ends,  *)
(* and what it moved since.                                                *)
HeardIn(unit, ends, adm) ==
    IF Within(adm, unit) THEN (CHOOSE c \in unit : c.adm = adm).at
    ELSE IF ends[adm] > 0 THEN ends[adm] ELSE Nowhere

Moving(unit, ends, adm, from) ==
    IF adm = 0 \/ from = Nowhere THEN 0
    ELSE IF HeardIn(unit, ends, adm) > from THEN HeardIn(unit, ends, adm) - from ELSE 0

LEMMA TailMoves ==
    /\ HeadTail = Moving(Covering, heardEnd, headAdm, heardFrom)
    /\ HeadTail' = Moving(Covering', heardEnd', headAdm', heardFrom')
BY DEF HeadTail, HeardTo, Moving, HeardIn, Within

LEMMA PlaceInUnit ==
    ASSUME NEW unit, Single(unit), NEW ends, NEW adm
    PROVE  /\ \A c \in unit : c.adm = adm => HeardIn(unit, ends, adm) = c.at
           /\ ~Within(adm, unit) =>
                 HeardIn(unit, ends, adm) = IF ends[adm] > 0 THEN ends[adm] ELSE Nowhere
<1>1. ASSUME NEW c \in unit, c.adm = adm
      PROVE  HeardIn(unit, ends, adm) = c.at
  <2> DEFINE d == CHOOSE b \in unit : b.adm = adm
  <2>1. d \in unit /\ d.adm = adm
    BY <1>1
  <2>2. HeardIn(unit, ends, adm) = d.at
    BY <1>1 DEF HeardIn, Within
  <2> HIDE DEF d
  <2>3. d = c
    BY <1>1, <2>1 DEF Single
  <2>4. QED
    BY <2>2, <2>3
<1>2. QED
  BY <1>1 DEF HeardIn

LEMMA FrontSingle ==
    ASSUME TypeOK, Laid(ring, heardEnd)
    PROVE  Single(Covering)
<1>1. CASE ring = <<>>
  BY <1>1, FrontOfRing DEF Single
<1>2. CASE ring # <<>>
  <2>1. Covering = ring[1] /\ 1 \in 1..Len(ring)
    BY <1>2, FrontOfRing
  <2>2. QED
    BY <2>1 DEF Laid
<1>3. QED
  BY <1>1, <1>2

LEMMA FrontAfter ==
    ASSUME NEW r, IsRing(ring', r)
    PROVE  /\ Len(ring') \in Nat
           /\ Len(ring') > 0 => Covering' = ring'[1]
           /\ Len(ring') = 0 => Covering' = {}
           /\ Laid(ring', heardEnd') => Single(Covering')
<1>1. Len(ring') \in Nat
  BY UnitFacts
<1>2. Len(ring') > 0 => Covering' = ring'[1]
  BY FrontOfNext
<1>3. Len(ring') = 0 => Covering' = {}
  BY EmptySeq DEF IsRing, Covering
<1>4. Laid(ring', heardEnd') => Single(Covering')
  <2> SUFFICES ASSUME Laid(ring', heardEnd') PROVE Single(Covering')
    OBVIOUS
  <2>1. CASE Len(ring') = 0
    BY <1>3, <2>1 DEF Single
  <2>2. CASE Len(ring') > 0
    <3>1. 1 \in 1..Len(ring')
      BY <1>1, <2>2
    <3>2. QED
      BY <1>2, <2>2, <3>1 DEF Laid
  <2>3. QED
    BY <1>1, <2>1, <2>2
<1>5. QED
  BY <1>1, <1>2, <1>3, <1>4

(* Nothing new is credited while the head is not looked at.                *)
LEMMA JudgedStill ==
    ASSUME TypeOK, Judged, Extends(roll'), UNCHANGED <<head, headAdm, heard, listened>>,
           heardFrom' = heardFrom \/ heardFrom' = Nowhere,
           headAdm \in 1..Len(roll) /\ heardFrom' # Nowhere /\ head # Nobody =>
              /\ Moving(Covering', heardEnd', headAdm, heardFrom) \in Nat
              /\ Moving(Covering', heardEnd', headAdm, heardFrom)
                    <= Moving(Covering, heardEnd, headAdm, heardFrom)
              /\ \/ Within(headAdm, Covering') \/ heardEnd'[headAdm] > 0
                 \/ Over(headAdm)'
    PROVE  Judged'
<1> SUFFICES ASSUME head # Nobody
             PROVE  /\ headAdm # 0 /\ roll'[headAdm] = head
                    /\ heard + HeadTail' <= listened[head]
                    /\ heardFrom' # Nowhere =>
                          Within(headAdm, Covering') \/ heardEnd'[headAdm] > 0 \/ Over(headAdm)'
  BY DEF Judged
<1>1. /\ headAdm \in 1..Len(roll) /\ roll[headAdm] = head /\ heard \in Nat
      /\ heard + HeadTail <= listened[head] /\ listened[head] \in Nat /\ HeadTail \in Nat
  <2>1. headAdm \in 0..Len(roll) /\ headAdm # 0 /\ Len(roll) \in Nat
    BY RollFacts DEF Judged, TypeOK
  <2>2. head \in Passages /\ heard \in Nat
    BY DEF TypeOK
  <2>3. listened[head] \in Nat
    BY <2>2 DEF TypeOK
  <2>4. QED
    BY <2>1, <2>2, <2>3, TailTyped DEF Judged
<1>2. roll'[headAdm] = head
  BY <1>1 DEF Extends
<1>3. CASE heardFrom' = Nowhere
  <2>1. HeadTail' = 0
    BY <1>3, TailMoves DEF Moving
  <2>2. QED
    BY <1>1, <1>2, <1>3, <2>1
<1>4. CASE heardFrom' # Nowhere
  <2>1. HeadTail' = Moving(Covering', heardEnd', headAdm, heardFrom)
    BY <1>4, TailMoves
  <2>2. HeadTail' \in Nat /\ HeadTail' <= HeadTail
    BY <1>1, <1>4, <2>1, TailMoves
  <2>3. QED
    BY <1>1, <1>2, <1>4, <2>2
<1>5. QED
  BY <1>3, <1>4

(* Moving is of naturals, and less where less was heard.                   *)
LEMMA MovingLess ==
    ASSUME NEW unit, NEW ends, NEW unit2, NEW ends2, NEW adm, adm # 0, NEW from \in Nat,
           HeardIn(unit, ends, adm) \in Nat \cup {Nowhere},
           HeardIn(unit2, ends2, adm) \in Nat \cup {Nowhere},
           HeardIn(unit2, ends2, adm) <= HeardIn(unit, ends, adm)
    PROVE  /\ Moving(unit2, ends2, adm, from) \in Nat
           /\ Moving(unit2, ends2, adm, from) <= Moving(unit, ends, adm, from)
BY DEF Moving, Nowhere

LEMMA HeardInTyped ==
    ASSUME NEW unit, Single(unit), NEW ends, NEW adm,
           \A c \in unit : c.at \in Nat, ends[adm] \in Nat
    PROVE  HeardIn(unit, ends, adm) \in Nat \cup {Nowhere}
<1>1. CASE Within(adm, unit)
  <2>1. PICK c \in unit : c.adm = adm
    BY <1>1 DEF Within
  <2>2. HeardIn(unit, ends, adm) = c.at
    BY <2>1, PlaceInUnit
  <2>3. QED
    BY <2>1, <2>2
<1>2. CASE ~Within(adm, unit)
  BY <1>2 DEF HeardIn
<1>3. QED
  BY <1>1, <1>2

(* A cut of the ring leaves what was heard, takes nothing of the head but  *)
(* whole, and lays along only what is new.                                 *)
LEMMA JudgedAfterCut ==
    ASSUME TypeOK, Lying, Judged, Extends(roll'), IsRing(ring', roll'),
           Laid(ring', heardEnd'), Len(ring') <= Len(ring),
           UNCHANGED <<head, headAdm, heard, heardFrom, listened>>,
           \A a \in 1..Len(roll) : heardEnd'[a] = heardEnd[a],
           \A c \in live' : c.adm \notin 1..Len(roll),
           NEW gone, \A a \in gone : ~Within(a, Covering),
           \A i \in 1..Len(ring') : \A c \in ring'[i] :
              c.adm \in 1..Len(roll) => c \in ring[i],
           \A i \in 1..Len(ring') : \A c \in ring[i] : c.adm \notin gone => c \in ring'[i]
    PROVE  Judged'
<1> SUFFICES ASSUME headAdm \in 1..Len(roll), heardFrom # Nowhere, head # Nobody
             PROVE  /\ Moving(Covering', heardEnd', headAdm, heardFrom) \in Nat
                    /\ Moving(Covering', heardEnd', headAdm, heardFrom)
                          <= Moving(Covering, heardEnd, headAdm, heardFrom)
                    /\ \/ Within(headAdm, Covering') \/ heardEnd'[headAdm] > 0
                       \/ Over(headAdm)'
  BY JudgedStill
<1>1. /\ IsRing(ring, roll) /\ Len(ring) \in Nat /\ Len(ring') \in Nat
      /\ Len(ring') > 0 => Covering' = ring'[1]
      /\ Len(ring') = 0 => Covering' = {}
      /\ Single(Covering) /\ Single(Covering')
      /\ Len(ring) > 0 => Covering = ring[1]
      /\ Len(ring) = 0 => Covering = {}
  <2>1. IsRing(ring, roll) /\ Len(ring) \in Nat
    BY RingTyped, UnitFacts
  <2>2. /\ Len(ring) > 0 => Covering = ring[1]
        /\ Len(ring) = 0 => Covering = {}
    BY <2>1, FrontOfRing, EmptySeq DEF IsRing
  <2>3. QED
    BY <2>1, <2>2, FrontAfter, FrontSingle DEF Lying
<1>2. /\ heardEnd[headAdm] \in Nat /\ heardEnd'[headAdm] = heardEnd[headAdm]
      /\ heardFrom \in Nat /\ headAdm # 0
      /\ \A c \in Covering : c.at \in Nat
  <2>1. heardFrom \in Nat
    BY DEF TypeOK
  <2>2. QED
    BY <2>1, HeardEndOf, CoveringTyped
<1>3. Within(headAdm, Covering) \/ heardEnd[headAdm] > 0 \/ Over(headAdm)
  BY DEF Judged
<1> DEFINE now == HeardIn(Covering, heardEnd, headAdm)
           next == HeardIn(Covering', heardEnd', headAdm)
<1>4. now \in Nat \cup {Nowhere}
  BY <1>1, <1>2, HeardInTyped
<1>5. CASE Within(headAdm, Covering)
  <2>1. PICK c \in Covering : c.adm = headAdm
    BY <1>5 DEF Within
  <2>2. now = c.at /\ c.at \in Nat /\ Len(ring) > 0 /\ c \in ring[1]
    BY <1>1, <1>2, <2>1, PlaceInUnit
  <2>3. CASE Len(ring') > 0
    <3>1. 1 \in 1..Len(ring') /\ headAdm \notin gone
      BY <1>1, <1>5, <2>3
    <3>2. c \in Covering'
      BY <1>1, <2>1, <2>2, <2>3, <3>1
    <3>3. next = c.at
      BY <1>1, <2>1, <3>2, PlaceInUnit
    <3>4. Within(headAdm, Covering')
      BY <2>1, <3>2 DEF Within
    <3> HIDE DEF now, next
    <3>5. QED
      BY <1>2, <2>2, <3>3, <3>4, MovingLess DEF now, next
  <2>4. CASE Len(ring') = 0
    <3>1. ~Within(headAdm, Covering')
      BY <1>1, <2>4 DEF Within
    <3>2. heardEnd[headAdm] = 0 \/ heardEnd[headAdm] = c.at
      BY <2>1, <2>2 DEF Lying, Laid, GoesOn
    <3>3. next = IF heardEnd[headAdm] > 0 THEN heardEnd[headAdm] ELSE Nowhere
      BY <1>1, <1>2, <3>1, PlaceInUnit
    <3>4. next \in Nat \cup {Nowhere} /\ next <= now
      BY <1>2, <2>2, <3>2, <3>3 DEF Nowhere
    <3>5. Over(headAdm)'
      BY <2>4 DEF Over
    <3> HIDE DEF now, next
    <3>6. QED
      BY <1>2, <1>4, <3>4, <3>5, MovingLess DEF now, next
  <2>5. QED
    BY <1>1, <2>3, <2>4
<1>6. CASE ~Within(headAdm, Covering)
  <2>1. ~Within(headAdm, Covering')
    <3>1. CASE Len(ring') > 0
      <4>1. 1 \in 1..Len(ring') /\ Len(ring) > 0
        BY <1>1, <3>1
      <4>2. QED
        BY <1>1, <1>6, <3>1, <4>1 DEF Within
    <3>2. CASE Len(ring') = 0
      BY <1>1, <3>2 DEF Within
    <3>3. QED
      BY <1>1, <3>1, <3>2
  <2>2. next = now
    BY <1>1, <1>2, <1>6, <2>1, PlaceInUnit
  <2>3. heardEnd'[headAdm] > 0 \/ Over(headAdm)'
    <3>1. CASE heardEnd[headAdm] > 0
      BY <1>2, <3>1
    <3>2. CASE Over(headAdm)
      <4>1. \A i \in 1..Len(ring') : ~Within(headAdm, ring'[i])
        <5>1. \A i \in 1..Len(ring') : i \in 1..Len(ring)
          BY <1>1
        <5>2. QED
          BY <3>2, <5>1 DEF Over, Within
      <4>2. \A c \in live' : c.adm # headAdm
        OBVIOUS
      <4>3. QED
        BY <4>1, <4>2 DEF Over
    <3>3. QED
      BY <1>3, <1>6, <3>1, <3>2
  <2>4. next <= now
    BY <1>4, <2>2 DEF Nowhere
  <2> HIDE DEF now, next
  <2>5. QED
    BY <1>2, <1>4, <2>2, <2>3, <2>4, MovingLess DEF now, next
<1>7. QED
  BY <1>5, <1>6

LEMMA HeardStays ==
    ASSUME TypeOK, HasHeard, lastHeard' = lastHeard,
           \A a \in 1..Len(roll) : heardEnd'[a] = heardEnd[a]
    PROVE  HasHeard'
<1>1. lastHeard \in 0..Len(roll) /\ Len(roll) \in Nat
  BY RollFacts DEF TypeOK
<1>2. QED
  BY <1>1 DEF HasHeard

LEMMA CreditStays ==
    ASSUME TypeOK, Credible, UNCHANGED <<roll, live, output, judgement, listened>>,
           Truthful(reports)'
    PROVE  Credible'
<1>1. UNCHANGED <<roll, live, ring, heardEnd, lastHeard, head, headAdm, heard, heardFrom, listened>>
  BY DEF output, judgement
<1>2. Covering' = Covering
  BY <1>1 DEF Covering
<1>3. Lying' /\ HasHeard'
  BY <1>1 DEF Credible, Lying, HasHeard
<1>4. HeadTail' = HeadTail
  BY <1>1, <1>2, TailMoves
<1>5. Over(headAdm) => Over(headAdm)'
  BY <1>1 DEF Over
<1>6. Judged'
  BY <1>1, <1>2, <1>4, <1>5 DEF Judged, Credible
<1>7. QED
  BY <1>3, <1>6 DEF Credible

LEMMA SkipKeepsCredit ==
    ASSUME TypeOK, Credible, NEW q, IsQueue(q), SkipFrom(q), UNCHANGED <<judgement, listened>>
    PROVE  Credible'
<1>1. UNCHANGED <<head, headAdm, heard, heardFrom, listened>>
  BY DEF judgement
<1>2. Lying /\ Judged /\ HasHeard /\ Truthful(reports)
  BY DEF Credible
<1>3. IsRing(ring, roll) /\ Len(ring) \in Nat /\ Len(roll) \in Nat /\ Extends(roll)
  BY RingTyped, UnitFacts, RollFacts
<1>4. CASE SkipNothing(q)
  <2>1. UNCHANGED <<roll, live, output, reports>>
    BY <1>4 DEF SkipNothing, mixer
  <2>2. Truthful(reports)'
    BY <1>1, <1>2, <2>1, TruthStays
  <2>3. QED
    BY <2>1, <2>2, CreditStays
<1>5. CASE SkipToShutdown(q)
  <2>1. /\ live' = {} /\ ring' = Kept(ring)
        /\ UNCHANGED <<roll, heardEnd, lastHeard, reports>>
    BY <1>5 DEF SkipToShutdown
  <2>2. /\ IsRing(ring', roll) /\ Len(ring') <= Len(ring) /\ Len(ring') \in Nat
        /\ \A i \in 1..Len(ring') : ring'[i] = ring[i]
    BY <1>3, <2>1, KeptTyped
  <2>3. Laid(ring', heardEnd')
    <3> DEFINE gone == {}
    <3>1. \A i \in 1..Len(ring') : ring'[i] = {c \in ring[i] : c.adm \notin gone}
      BY <2>2
    <3> HIDE DEF gone
    <3>2. Laid(ring, heardEnd)
      BY <1>2 DEF Lying
    <3>3. Len(ring) \in Nat /\ Len(ring') \in Nat /\ Len(ring') <= Len(ring)
      BY <1>3, <2>2
    <3>4. Laid(ring', heardEnd)
      BY <3>1, <3>2, <3>3, LaidThinned
    <3>5. QED
      BY <2>1, <3>4
  <2>4. Judged'
    <3> DEFINE gone == {}
    <3>1. /\ \A a \in gone : ~Within(a, Covering)
          /\ \A i \in 1..Len(ring') : \A c \in ring'[i] :
                c.adm \in 1..Len(roll) => c \in ring[i]
          /\ \A i \in 1..Len(ring') : \A c \in ring[i] : c.adm \notin gone => c \in ring'[i]
      BY <2>2
    <3> HIDE DEF gone
    <3>2. /\ Extends(roll') /\ IsRing(ring', roll')
          /\ \A a \in 1..Len(roll) : heardEnd'[a] = heardEnd[a]
          /\ \A c \in live' : c.adm \notin 1..Len(roll)
      BY <1>3, <2>1, <2>2
    <3>3. QED
      BY <1>1, <1>2, <2>2, <2>3, <3>1, <3>2, JudgedAfterCut
  <2>5. Lying'
    <3>1. Mixing(ring', heardEnd', live', roll')
      BY <2>1 DEF Mixing, Single
    <3>2. QED
      BY <2>3, <3>1 DEF Lying
  <2>6. HasHeard' /\ Truthful(reports)'
    BY <1>1, <1>2, <2>1, TruthStays DEF HasHeard
  <2>7. QED
    BY <2>4, <2>5, <2>6 DEF Credible
<1>6. CASE SkipToNext(q)
  <2> DEFINE a == Admission(q, {})
             r == a.roll
             l == a.live
             left == Forgotten(ring, Unheard)
  <2>1. /\ Extends(r) /\ IsMixer(l, r)
        /\ l = {} \/ ((\E at \in Nat : l = {Opened(at)}) /\ Len(r) = Len(roll) + 1)
    <3>1. IsMixer({}, roll)
      BY FS_EmptySet DEF IsMixer
    <3>2. /\ Extends(r) /\ IsMixer(l, r)
          /\ l = {} \/ \E at \in Nat : l = {Opened(at)}
      BY <3>1, AdmissionTyped
    <3>3. l # {} => Len(r) = Len(roll) + 1
      <4>1. CASE Due(q, {}) /\ Head(q) \notin Unopenable
        <5>1. Head(q) \in Passages
          BY <4>1, TailQueue DEF Due
        <5>2. r = Append(roll, Head(q))
          BY <4>1 DEF Admission
        <5>3. QED
          BY <5>1, <5>2, RollGrows
      <4>2. CASE ~(Due(q, {}) /\ Head(q) \notin Unopenable)
        BY <4>2 DEF Admission
      <4>3. QED
        BY <4>1, <4>2
    <3>4. QED
      BY <3>2, <3>3
  <2>2. IsRing(left, roll) /\ Len(left) = Len(ring)
    BY <1>3, ForgottenTyped
  <2>3. PICK n \in Decoded(left, l, r) :
             /\ roll' = r /\ live' = On(l, n)
             /\ ring' = CutOver(left, l, n)
             /\ heardEnd' = NewAdmissions(r)
             /\ reports' = AllDropped({roll[adm] : adm \in Unheard} \cup a.dropped)
             /\ lastHeard' = lastHeard
    BY <1>6 DEF SkipToNext
  <2>4. \A i \in 1..Len(left) : left[i] = {c \in ring[i] : c.adm \notin Unheard}
    BY <1>3, <2>2 DEF Forgotten
  <2>5. \A c \in ring[1] : Len(ring) > 0 => c.adm \notin Unheard
    <3> SUFFICES ASSUME Len(ring) > 0, NEW c \in ring[1] PROVE c.adm \notin Unheard
      OBVIOUS
    <3>1. ring # <<>>
      BY <1>3, EmptySeq DEF IsRing
    <3>2. c \in Covering /\ Forgotten(ring, Unheard)[1] = Covering
      BY <3>1, FrontOfRing, FrontIsHeardOf
    <3>3. 1 \in 1..Len(left)
      BY <1>3, <2>2
    <3>4. QED
      BY <2>4, <3>2, <3>3
  <2> DEFINE drop == {roll[adm] : adm \in Unheard} \cup a.dropped
             gone == Unheard
  <2>6. reports' = AllDropped(drop)
    BY <2>3
  <2>7. \A i \in 1..Len(left) : left[i] = {c \in ring[i] : c.adm \notin gone}
    BY <2>4
  <2>8. \A b \in gone : ~Within(b, Covering)
    <3>1. CASE Len(ring) > 0
      <4>1. Covering = ring[1]
        BY <1>3, <3>1, FrontOfRing, EmptySeq DEF IsRing
      <4>2. QED
        BY <2>5, <3>1, <4>1 DEF Within
    <3>2. CASE Len(ring) = 0
      <4>1. Covering = {}
        BY <1>3, <3>2, FrontOfRing, EmptySeq DEF IsRing
      <4>2. QED
        BY <4>1 DEF Within
    <3>3. QED
      BY <1>3, <3>1, <3>2
  <2> HIDE DEF drop, gone, a, r, l, left
  <2>9. Laid(left, heardEnd)
    <3>1. Laid(ring, heardEnd)
      BY <1>2 DEF Lying
    <3>2. Len(left) \in Nat /\ Len(left) <= Len(ring)
      BY <1>3, <2>2
    <3>3. QED
      BY <1>3, <2>7, <3>1, <3>2, LaidThinned
  <2>10. Lying'
    <3>1. /\ Laid(CutOver(left, l, n), NewAdmissions(r))
          /\ Mixing(CutOver(left, l, n), NewAdmissions(r), On(l, n), r)
      BY <2>1, <2>2, <2>9, CutLies
    <3>2. QED
      BY <2>3, <3>1 DEF Lying
  <2>11. Judged'
    <3>1. n \in Nat /\ r \in Seq(Passages)
      BY <2>1, <2>2, DecodedTyped DEF Extends
    <3>2. IsRing(ring', roll') /\ Len(ring') = Len(Kept(left))
      BY <2>1, <2>2, <2>3, <3>1, CutOverTyped
    <3>3. Len(Kept(left)) <= Len(ring) /\ Len(Kept(left)) \in Nat
      BY <2>2, KeptTyped
    <3>4. \A b \in 1..Len(roll) : heardEnd'[b] = heardEnd[b]
      BY <2>1, <2>3, EndsGrown
    <3>5. \A k, c : c \in On(l, k) => c.adm \notin 1..Len(roll)
      <4> SUFFICES ASSUME NEW k, NEW c \in On(l, k) PROVE c.adm \notin 1..Len(roll)
        OBVIOUS
      <4>1. PICK d \in l : c = [d EXCEPT !.at = @ + k]
        BY DEF On
      <4>2. d.adm = Len(roll) + 1 /\ c.adm = d.adm
        BY <2>1, <4>1 DEF Opened
      <4>3. QED
        BY <1>3, <4>2
    <3>6. /\ \A i \in 1..Len(ring') : \A c \in ring'[i] :
                c.adm \in 1..Len(roll) => c \in ring[i]
          /\ \A i \in 1..Len(ring') : \A c \in ring[i] : c.adm \notin gone => c \in ring'[i]
      <4> SUFFICES ASSUME NEW i \in 1..Len(ring')
                   PROVE  /\ \A c \in ring'[i] : c.adm \in 1..Len(roll) => c \in ring[i]
                          /\ \A c \in ring[i] : c.adm \notin gone => c \in ring'[i]
        OBVIOUS
      <4>1. i \in 1..Len(left) /\ i \in 1..Len(Kept(left))
        BY <1>3, <2>2, <3>2, <3>3
      <4>2. \/ ring'[i] = left[i] \cup On(l, i - Lead - 1)
            \/ ring'[i] = left[i] \cup {}
        <5>1. ring'[i] = left[i] \cup (IF i > Lead /\ i <= Lead + n
                                       THEN On(l, i - Lead - 1) ELSE {})
          BY <2>2, <2>3, <4>1, CutUnits
        <5>2. QED
          BY <5>1
      <4>3. left[i] = {c \in ring[i] : c.adm \notin gone}
        BY <2>7, <4>1
      <4>4. QED
        BY <3>5, <4>2, <4>3
    <3>7. Extends(roll') /\ Laid(ring', heardEnd') /\ Len(ring') <= Len(ring)
      BY <2>1, <2>3, <2>10, <3>2, <3>3 DEF Lying
    <3>8. \A c \in live' : c.adm \notin 1..Len(roll)
      BY <2>3, <3>5
    <3>9. QED
      BY <1>1, <1>2, <2>8, <3>2, <3>4, <3>6, <3>7, <3>8, JudgedAfterCut
  <2>12. HasHeard'
    BY <1>2, <2>1, <2>3, EndsGrown, HeardStays
  <2>13. Truthful(reports)'
    BY <1>1, <1>2, <2>6, DropsTruthful, TruthNext
  <2>14. QED
    BY <2>10, <2>11, <2>12, <2>13 DEF Credible
<1>7. QED
  BY <1>4, <1>5, <1>6 DEF SkipFrom

LEMMA SeekKeepsCredit ==
    ASSUME TypeOK, Credible, NEW at \in SeekPoints, Seek(at)
    PROVE  Credible'
<1>1. Lying /\ Judged /\ HasHeard /\ Truthful(reports)
  BY DEF Credible
<1>2. roll[shown] \in Passages /\ at \in Nat /\ at < Length[roll[shown]]
  BY RollFacts, DeviceAssumption DEF Seek, TypeOK
<1>3. /\ Extends(roll') /\ Len(roll') = Len(roll) + 1 /\ IsMixer({Opened(at)}, roll')
  BY <1>2, RollGrows, OpenedTyped DEF Seek
<1>4. PICK n \in Decoded(ring, {Opened(at)}, roll') :
          live' = On({Opened(at)}, n) /\ ring' = CutOver(ring, {Opened(at)}, n)
  BY DEF Seek
<1>5. /\ heardEnd' = NewAdmissions(roll') /\ heardFrom' = Nowhere
      /\ UNCHANGED <<lastHeard, head, headAdm, heard, reports, listened>>
  BY DEF Seek, history
<1>6. Lying'
  <2> DEFINE l == {Opened(at)}
  <2>1. l = {} \/ ((\E x \in Nat : l = {Opened(x)}) /\ Len(roll') = Len(roll) + 1)
    BY <1>2, <1>3
  <2>2. IsMixer(l, roll') /\ n \in Decoded(ring, l, roll') /\ IsRing(ring, roll)
    BY <1>3, <1>4, RingTyped
  <2>3. Laid(ring, heardEnd)
    BY <1>1 DEF Lying
  <2> HIDE DEF l
  <2>4. /\ Laid(CutOver(ring, l, n), NewAdmissions(roll'))
        /\ Mixing(CutOver(ring, l, n), NewAdmissions(roll'), On(l, n), roll')
    BY <1>3, <2>1, <2>2, <2>3, CutLies
  <2>5. QED
    BY <1>4, <1>5, <2>4 DEF Lying, l
<1>7. Judged'
  BY <1>1, <1>3, <1>5, JudgedStill
<1>8. HasHeard'
  BY <1>1, <1>3, <1>5, EndsGrown, HeardStays
<1>9. Truthful(reports)'
  BY <1>1, <1>5, TruthStays
<1>10. QED
  BY <1>6, <1>7, <1>8, <1>9 DEF Credible

LEMMA MixKeepsCredit ==
    ASSUME TypeOK, Credible, Mix
    PROVE  Credible'
<1> DEFINE a == Admission(queue, live)
           r == a.roll
           giving == Giving(a.live, r)
           drop == a.dropped \cup (IF BadHead(a) THEN {Head(a.queue)} ELSE {})
<1>1. Lying /\ Judged /\ HasHeard /\ Truthful(reports)
  BY DEF Credible
<1>2. /\ Extends(r) /\ IsMixer(a.live, r) /\ IsRing(ring, roll)
      /\ Len(ring) \in Nat /\ Len(roll) \in Nat /\ r \in Seq(Passages)
  <2>1. Len(roll) \in Nat /\ IsMixer(live, roll) /\ IsRing(ring, roll)
    BY RollFacts, RingTyped
  <2>2. IsQueue(queue)
    BY DEF TypeOK
  <2>3. Extends(r) /\ IsMixer(a.live, r)
    BY <2>1, <2>2, AdmissionTyped
  <2>4. Len(ring) \in Nat
    BY <2>1, UnitFacts
  <2>5. r \in Seq(Passages)
    BY <2>3 DEF Extends
  <2>6. QED
    BY <2>1, <2>3, <2>4, <2>5
<1>3. \A c \in a.live : c \in live \/ c.adm = Len(roll) + 1
  BY DEF Admission, Opened
<1>4. Laid(ring, NewAdmissions(r)) /\ Mixing(ring, NewAdmissions(r), a.live, r)
  BY <1>1, AdmittedLies DEF Lying
<1>5. /\ roll' = r /\ heardEnd' = NewAdmissions(r) /\ reports' = AllDropped(drop)
      /\ UNCHANGED <<lastHeard, head, headAdm, heard, heardFrom, listened>>
      /\ \/ ring' = Append(ring, giving) /\ live' = Giving(On(giving, 1), r)
         \/ ring' = ring /\ live' = Giving(giving, r)
  BY DEF Mix, judgement
<1>6. /\ giving \subseteq a.live /\ \A c \in giving : c.at # Length[r[c.adm]]
      /\ giving \in Units(r)
  <2>1. giving \subseteq a.live /\ giving \in Units(r)
    BY <1>2 DEF Giving, IsMixer, Units
  <2>2. \A c \in giving : c.at < Length[r[c.adm]] /\ c.at \in Nat /\ Length[r[c.adm]] \in Nat
    BY <1>2, <2>1, LengthOf, ElementOfSeq DEF Giving, IsMixer
  <2>3. QED
    BY <2>1, <2>2
<1>7. \A c \in giving : c \in live \/ c.adm = Len(roll) + 1
  BY <1>3, <1>6
<1> DEFINE w == Append(ring, giving)
<1>8. /\ Len(w) = Len(ring) + 1 /\ w[Len(ring) + 1] = giving
      /\ \A i \in 1..Len(ring) : w[i] = ring[i]
      /\ w \in Seq(Units(r))
  <2>1. ring \in Seq(Units(r))
    <3>1. ring \in Seq(Units(roll)) /\ Units(roll) \subseteq Units(r)
      BY <1>2, UnitsKept DEF IsRing
    <3>2. QED
      BY <3>1, SeqMonotonic
  <2> HIDE DEF giving
  <2>2. QED
    BY <1>6, <2>1, AppendProperties
<1>9. \A c \in live' : \E d \in giving : d.adm = c.adm
  <2>1. \A c \in On(giving, 1) : \E d \in giving : d.adm = c.adm
    <3>1. \A d \in giving : [d EXCEPT !.at = @ + 1].adm = d.adm
      BY <1>6 DEF Units
    <3>2. QED
      BY <3>1 DEF On
  <2>2. QED
    BY <1>5, <2>1 DEF Giving
<1>10. /\ \A b \in 1..Len(roll) : heardEnd'[b] = heardEnd[b]
       /\ Extends(roll')
  BY <1>2, <1>5, EndsGrown
<1> HIDE DEF giving, w, r, a, drop
<1>11. Lying'
  <2>1. CASE ring' = w /\ live' = Giving(On(giving, 1), r)
    <3>1. Laid(w, NewAdmissions(r))
      <4> DEFINE ends == NewAdmissions(r)
                 l == a.live
      <4>1. Laid(ring, ends) /\ Len(ring) \in Nat /\ Mixing(ring, ends, l, r)
        BY <1>2, <1>4
      <4>2. giving \subseteq l /\ \A c \in giving : c.at # Length[r[c.adm]]
        BY <1>6
      <4>3. /\ Len(w) = Len(ring) + 1 /\ w[Len(ring) + 1] = giving
            /\ \A i \in 1..Len(ring) : w[i] = ring[i]
        BY <1>8
      <4> HIDE DEF ends, l
      <4>4. Adds(ring, ends, l, r, giving, w)
        BY <4>1, <4>2, <4>3 DEF Adds
      <4>5. Laid(w, ends)
        BY <4>4, LaidAppended
      <4>6. QED
        BY <4>5 DEF ends
    <3>2. Mixing(w, NewAdmissions(r), On(giving, 1), r)
      BY <1>2, <1>4, <1>6, <1>8, MixingOn
    <3>3. live' \subseteq On(giving, 1)
      BY <2>1 DEF Giving
    <3>4. QED
      BY <1>5, <2>1, <3>1, <3>2, <3>3, MixingLess DEF Lying
  <2>2. CASE ring' = ring /\ live' = Giving(giving, r)
    <3>1. live' \subseteq a.live
      BY <1>6, <2>2 DEF Giving
    <3>2. QED
      BY <1>4, <1>5, <2>2, <3>1, MixingLess DEF Lying
  <2>3. QED
    BY <1>5, <2>1, <2>2 DEF w
<1>12. Judged'
  <2> SUFFICES ASSUME headAdm \in 1..Len(roll), heardFrom # Nowhere, head # Nobody
               PROVE  /\ Moving(Covering', heardEnd', headAdm, heardFrom) \in Nat
                      /\ Moving(Covering', heardEnd', headAdm, heardFrom)
                            <= Moving(Covering, heardEnd, headAdm, heardFrom)
                      /\ \/ Within(headAdm, Covering') \/ heardEnd'[headAdm] > 0
                         \/ Over(headAdm)'
    BY <1>1, <1>5, <1>10, JudgedStill
  <2> DEFINE now == HeardIn(Covering, heardEnd, headAdm)
             next == HeardIn(Covering', heardEnd', headAdm)
  <2>1. /\ heardEnd[headAdm] \in Nat /\ heardEnd'[headAdm] = heardEnd[headAdm]
        /\ heardFrom \in Nat /\ headAdm # 0 /\ headAdm # Len(roll) + 1
        /\ \A c \in Covering : c.at \in Nat
        /\ Within(headAdm, Covering) \/ heardEnd[headAdm] > 0 \/ Over(headAdm)
    <3>1. heardFrom \in Nat /\ headAdm # Len(roll) + 1
      BY <1>2 DEF TypeOK
    <3>2. QED
      BY <1>1, <1>10, <3>1, HeardEndOf, CoveringTyped DEF Judged
  <2>2. Single(Covering)
    BY <1>1, FrontSingle DEF Lying
  <2>3. now \in Nat \cup {Nowhere}
    BY <2>1, <2>2, HeardInTyped
  <2>4. Over(headAdm) => Over(headAdm)'
    <3> SUFFICES ASSUME Over(headAdm) PROVE Over(headAdm)'
      OBVIOUS
    <3>1. \A c \in giving : c.adm # headAdm
      BY <1>7, <2>1 DEF Over
    <3>2. \A c \in live' : c.adm # headAdm
      BY <1>9, <3>1
    <3>3. CASE ring' = ring
      BY <1>5, <3>2, <3>3 DEF Over
    <3>4. CASE ring' = w
      <4>1. \A i \in 1..Len(w) : ~Within(headAdm, w[i])
        <5> SUFFICES ASSUME NEW i \in 1..Len(w) PROVE ~Within(headAdm, w[i])
          OBVIOUS
        <5>1. i \in 1..Len(ring) \/ i = Len(ring) + 1
          BY <1>2, <1>8
        <5>2. QED
          BY <1>8, <3>1, <5>1 DEF Over, Within
      <4>2. QED
        BY <1>5, <3>2, <3>4, <4>1 DEF Over
    <3>5. QED
      BY <1>5, <3>3, <3>4 DEF w
  <2>5. /\ next = now
        /\ Within(headAdm, Covering') \/ heardEnd'[headAdm] > 0 \/ Over(headAdm)'
    <3>1. CASE Covering' = Covering
      BY <2>1, <2>4, <3>1 DEF HeardIn
    <3>2. CASE Covering' # Covering
      <4>1. ring' = w /\ Len(ring) = 0
        <5>1. ring' # ring
          BY <3>2 DEF Covering
        <5>2. ring' = w
          BY <1>5, <5>1 DEF w
        <5>3. w # <<>> /\ Head(w) = w[1]
          <6>1. w # <<>>
            BY <1>2, <1>8, EmptySeq
          <6>2. QED
            BY <1>8, <6>1
        <5>4. Covering' = w[1]
          BY <5>2, <5>3 DEF Covering
        <5>5. Len(ring) > 0 => Covering = ring[1] /\ 1 \in 1..Len(ring)
          BY <1>2, FrontOfRing, EmptySeq DEF IsRing
        <5>6. Len(ring) > 0 => Covering' = Covering
          BY <1>8, <5>4, <5>5
        <5>7. QED
          BY <1>2, <3>2, <5>2, <5>6
      <4>2. Covering = {} /\ Covering' = giving
        <5>1. Covering = {}
          BY <1>2, <4>1, FrontOfRing, EmptySeq DEF IsRing
        <5>2. w # <<>> /\ Head(w) = w[1] /\ w[1] = giving
          <6>1. w # <<>>
            BY <1>2, <1>8, EmptySeq
          <6>2. QED
            BY <1>8, <4>1, <6>1
        <5>3. QED
          BY <4>1, <5>1, <5>2 DEF Covering
      <4>3. ~Within(headAdm, Covering)
        BY <4>2 DEF Within
      <4>4. now = IF heardEnd[headAdm] > 0 THEN heardEnd[headAdm] ELSE Nowhere
        BY <2>2, <4>3, PlaceInUnit
      <4>5. CASE ~Within(headAdm, giving)
        BY <2>1, <2>4, <4>2, <4>3, <4>4, <4>5 DEF HeardIn
      <4>6. CASE Within(headAdm, giving)
        <5>1. PICK c \in giving : c.adm = headAdm
          BY <4>6 DEF Within
        <5>2. ~Over(headAdm)
          <6>1. c \in live
            BY <1>7, <2>1, <5>1
          <6>2. QED
            BY <5>1, <6>1 DEF Over
        <5>3. heardEnd[headAdm] > 0
          BY <2>1, <4>3, <5>2
        <5>4. GoesOnFrom(c, ring, NewAdmissions(r), r)
          BY <1>4, <1>6 DEF Mixing
        <5>5. heardEnd[headAdm] = c.at
          BY <1>5, <1>6, <2>1, <4>1, <5>1, <5>3, <5>4 DEF GoesOnFrom
        <5>6. Single(Covering')
          <6>1. Single(giving)
            BY <1>4, <1>6 DEF Mixing, Single
          <6>2. QED
            BY <4>2, <6>1
        <5>7. next = c.at
          BY <4>2, <5>1, <5>6, PlaceInUnit
        <5>8. QED
          BY <2>1, <4>4, <5>3, <5>5, <5>7
      <4>7. QED
        BY <4>5, <4>6
    <3>3. QED
      BY <3>1, <3>2
  <2>6. next <= now
    BY <2>3, <2>5 DEF Nowhere
  <2> HIDE DEF now, next
  <2>7. QED
    BY <2>1, <2>3, <2>5, <2>6, MovingLess DEF now, next
<1>13. HasHeard' /\ Truthful(reports)'
  <2>1. HasHeard'
    BY <1>1, <1>5, <1>10, HeardStays
  <2>2. Truthful(reports)'
    BY <1>1, <1>5, DropsTruthful, TruthNext
  <2>3. QED
    BY <2>1, <2>2
<1>14. QED
  BY <1>11, <1>12, <1>13 DEF Credible

(* The device takes a unit: it gets on by one in all that the unit is of.  *)
LEMMA DeviceMoves ==
    ASSUME TypeOK, Lying, DeviceTakes
    PROVE  LET unit == Head(ring)
           IN  /\ IsRing(ring, roll) /\ Len(ring) \in Nat /\ Len(ring) > 0 /\ unit = ring[1]
               /\ Len(roll) \in Nat /\ Len(heardEnd) = Len(roll) /\ IsMixer(live, roll)
               /\ \A c \in unit : c.adm \in 1..Len(roll) /\ c.at \in Nat
               /\ \A i \in 1..Len(ring) : \A c \in ring[i] : c.adm \in 1..Len(roll)
               /\ \A a \in 1..Len(roll) : heardEnd[a] \in Nat
               /\ \A c \in unit : heardEnd'[c.adm] = c.at + 1
               /\ \A a \in 1..Len(roll) : ~Within(a, unit) => heardEnd'[a] = heardEnd[a]
               /\ Len(ring') = Len(ring) - 1 /\ \A i \in 1..Len(ring') : ring'[i] = ring[i + 1]
               /\ IsRing(ring', roll)
<1> DEFINE unit == Head(ring)
<1>1. Single(Covering)
  BY FrontSingle DEF Lying
<1>2. /\ ring # <<>> /\ ring' = Tail(ring) /\ Covering = unit
      /\ heardEnd' = [a \in 1..Len(heardEnd) |->
                         IF \E c \in unit : c.adm = a
                         THEN (CHOOSE c \in unit : c.adm = a).at + 1 ELSE heardEnd[a]]
  BY DEF DeviceTakes, Covering
<1> HIDE DEF unit
<1>3. /\ IsRing(ring, roll) /\ Len(ring) \in Nat /\ Len(ring) > 0 /\ unit = ring[1]
      /\ Len(roll) \in Nat /\ Len(heardEnd) = Len(roll) /\ IsMixer(live, roll)
      /\ \A c \in unit : c.adm \in 1..Len(roll) /\ c.at \in Nat
      /\ \A i \in 1..Len(ring) : \A c \in ring[i] : c.adm \in 1..Len(roll)
      /\ \A a \in 1..Len(roll) : heardEnd[a] \in Nat
  <2>1. IsRing(ring, roll) /\ Len(roll) \in Nat /\ IsMixer(live, roll)
    BY RingTyped, RollFacts
  <2>2. Len(ring) \in Nat /\ Len(ring) > 0 /\ unit = ring[1]
    BY <1>2, FrontOfRing
  <2>3. \A c \in unit : c.adm \in 1..Len(roll) /\ c.at \in Nat
    BY <1>2, CoveringTyped
  <2>4. \A i \in 1..Len(ring) : \A c \in ring[i] : c.adm \in 1..Len(roll)
    BY <2>1, UnitFacts
  <2>5. Len(heardEnd) = Len(roll)
    BY DEF TypeOK
  <2>6. QED
    BY <2>1, <2>2, <2>3, <2>4, <2>5, HeardEndOf
<1>4. \A c \in unit : heardEnd'[c.adm] = c.at + 1
  <2> TAKE c \in unit
  <2> DEFINE d == CHOOSE b \in unit : b.adm = c.adm
  <2>1. d \in unit /\ d.adm = c.adm
    OBVIOUS
  <2>2. heardEnd'[c.adm] = d.at + 1
    BY <1>2, <1>3
  <2> HIDE DEF d
  <2>3. d = c
    BY <1>1, <1>2, <2>1 DEF Single
  <2>4. QED
    BY <2>2, <2>3
<1>5. \A a \in 1..Len(roll) : ~Within(a, unit) => heardEnd'[a] = heardEnd[a]
  BY <1>2, <1>3 DEF Within
<1>6. /\ Len(ring') = Len(ring) - 1 /\ \A i \in 1..Len(ring') : ring'[i] = ring[i + 1]
      /\ IsRing(ring', roll)
  <2>1. ring \in Seq(Units(roll)) /\ Len(ring) <= RingCap /\ RingCap \in Nat
    BY <1>3, DeviceAssumption DEF IsRing
  <2>2. /\ ring' \in Seq(Units(roll)) /\ Len(ring') = Len(ring) - 1
        /\ \A i \in 1..Len(ring') : ring'[i] = ring[i + 1]
    BY <1>2, <2>1, HeadTailProperties
  <2>3. QED
    BY <1>3, <2>1, <2>2 DEF IsRing
<1>7. QED
  BY <1>3, <1>4, <1>5, <1>6 DEF unit

LEMMA DeviceKeepsCredit ==
    ASSUME TypeOK, Credible, DeviceTakes
    PROVE  Credible'
<1> DEFINE unit == Head(ring)
<1>1. Lying /\ Judged /\ HasHeard /\ Truthful(reports) /\ Single(Covering)
  BY FrontSingle DEF Credible, Lying
<1>2. /\ ring # <<>> /\ ring' = Tail(ring) /\ Covering = unit
      /\ heardEnd' = [a \in 1..Len(heardEnd) |->
                         IF \E c \in unit : c.adm = a
                         THEN (CHOOSE c \in unit : c.adm = a).at + 1 ELSE heardEnd[a]]
      /\ lastHeard' = IF unit = {} THEN lastHeard ELSE Latest(unit).adm
      /\ listened' = [p \in Passages |->
                        IF \E c \in unit : roll[c.adm] = p THEN listened[p] + 1 ELSE listened[p]]
      /\ UNCHANGED <<roll, live, head, headAdm, heard, heardFrom, reports>>
  BY DEF DeviceTakes, Covering, mixer, judgement
<1>3. /\ IsRing(ring, roll) /\ Len(ring) \in Nat /\ Len(ring) > 0 /\ unit = ring[1]
      /\ Len(roll) \in Nat /\ Len(heardEnd) = Len(roll) /\ IsMixer(live, roll)
      /\ \A c \in unit : c.adm \in 1..Len(roll) /\ c.at \in Nat
      /\ \A i \in 1..Len(ring) : \A c \in ring[i] : c.adm \in 1..Len(roll)
      /\ \A a \in 1..Len(roll) : heardEnd[a] \in Nat
  BY <1>1, DeviceMoves
<1>4. \A c \in unit : heardEnd'[c.adm] = c.at + 1
  BY <1>1, DeviceMoves
<1>5. \A a \in 1..Len(roll) : ~Within(a, unit) => heardEnd'[a] = heardEnd[a]
  BY <1>1, DeviceMoves
<1>6. /\ Len(ring') = Len(ring) - 1 /\ \A i \in 1..Len(ring') : ring'[i] = ring[i + 1]
      /\ IsRing(ring', roll)
  BY <1>1, DeviceMoves
<1> HIDE DEF unit
<1>7. Lying'
  <2>1. Laid(ring', heardEnd')
    BY <1>1, <1>3, <1>4, <1>5, <1>6, LaidTaken DEF Lying
  <2>2. Mixing(ring', heardEnd', live, roll)
    <3>1. \A c \in live : c.adm \in 1..Len(roll)
      BY <1>3 DEF IsMixer
    <3>2. QED
      BY <1>1, <1>3, <1>4, <1>5, <1>6, <3>1, MixingTaken DEF Lying
  <2>3. QED
    BY <1>2, <2>1, <2>2 DEF Lying
<1>8. HasHeard'
  <2>1. CASE unit = {}
    <3>1. lastHeard' = lastHeard /\ lastHeard \in 0..Len(roll)
      BY <1>2, <2>1 DEF TypeOK
    <3>2. lastHeard # 0 => heardEnd'[lastHeard] = heardEnd[lastHeard]
      BY <1>3, <1>5, <2>1, <3>1 DEF Within
    <3>3. QED
      BY <1>1, <3>1, <3>2 DEF HasHeard
  <2>2. CASE unit # {}
    <3>1. Latest(unit) \in unit /\ lastHeard' = Latest(unit).adm
      BY <1>2, <2>2, LatestOfCovering
    <3>2. heardEnd'[lastHeard'] > 0
      BY <1>3, <1>4, <3>1
    <3>3. QED
      BY <3>2 DEF HasHeard
  <2>3. QED
    BY <2>1, <2>2
<1>9. \A p \in Passages : listened'[p] \in Nat /\ listened[p] \in Nat /\ listened[p] <= listened'[p]
  <2>1. \A p \in Passages : listened[p] \in Nat
    BY DEF TypeOK
  <2>2. QED
    BY <1>2, <2>1
<1>10. Truthful(reports)'
  <2> SUFFICES ASSUME NEW p \in Passages, NEW i \in 1..Len(reports[p])
               PROVE  reports[p][i].heard <= listened'[p]
    BY <1>2 DEF Truthful
  <2>1. reports[p][i].heard \in Nat
    <3>1. reports[p] \in Seq(Reported)
      BY DEF TypeOK, Reported
    <3>2. reports[p][i] \in Reported
      BY <3>1, ElementOfSeq
    <3>3. QED
      BY <3>2 DEF Reported
  <2>2. reports[p][i].heard <= listened[p]
    BY <1>1 DEF Truthful
  <2>3. QED
    BY <1>9, <2>1, <2>2
<1>11. Judged'
  <2> SUFFICES ASSUME head # Nobody
               PROVE  /\ headAdm # 0 /\ roll[headAdm] = head
                      /\ heard + HeadTail' <= listened'[head]
                      /\ heardFrom # Nowhere =>
                            Within(headAdm, Covering') \/ heardEnd'[headAdm] > 0 \/ Over(headAdm)'
    BY <1>2 DEF Judged
  <2>1. /\ headAdm \in 1..Len(roll) /\ headAdm # 0 /\ roll[headAdm] = head /\ heard \in Nat
        /\ heard + HeadTail <= listened[head] /\ HeadTail \in Nat /\ head \in Passages
        /\ heardFrom \in Nat \cup {Nowhere}
    <3>1. headAdm \in 0..Len(roll) /\ Len(roll) \in Nat /\ heard \in Nat
          /\ head \in Passages /\ heardFrom \in Nat \cup {Nowhere}
      BY <1>3 DEF TypeOK
    <3>2. QED
      BY <1>1, <3>1, TailTyped DEF Judged
  <2>2. CASE heardFrom = Nowhere
    <3>1. HeadTail' = 0
      BY <1>2, <2>2, TailMoves DEF Moving
    <3>2. QED
      BY <1>9, <2>1, <2>2, <3>1
  <2>3. CASE heardFrom # Nowhere
    <3> DEFINE now == HeardIn(Covering, heardEnd, headAdm)
               next == HeardIn(Covering', heardEnd', headAdm)
    <3>1. /\ HeadTail = IF now > heardFrom THEN now - heardFrom ELSE 0
          /\ HeadTail' = IF next > heardFrom THEN next - heardFrom ELSE 0
      BY <1>2, <2>1, <2>3, TailMoves DEF Moving
    <3>2. /\ Len(ring') \in Nat /\ Single(Covering')
          /\ Len(ring') > 0 => Covering' = ring[2] /\ 1 \in 1..Len(ring) /\ 1 + 1 <= Len(ring)
          /\ Len(ring') = 0 => Covering' = {}
      <4>1. /\ Len(ring') \in Nat /\ Single(Covering')
            /\ Len(ring') > 0 => Covering' = ring'[1]
            /\ Len(ring') = 0 => Covering' = {}
        BY <1>6, <1>7, FrontAfter DEF Lying
      <4>2. Len(ring') > 0 => 1 \in 1..Len(ring') /\ 1 \in 1..Len(ring) /\ 1 + 1 <= Len(ring)
        BY <1>3, <1>6, <4>1
      <4>3. QED
        BY <1>6, <4>1, <4>2
    <3>3. CASE Within(headAdm, unit)
      <4>1. PICK c \in unit : c.adm = headAdm
        BY <3>3 DEF Within
      <4>2. now = c.at /\ c.at \in Nat /\ heardEnd'[headAdm] = c.at + 1
        BY <1>1, <1>2, <1>3, <1>4, <4>1, PlaceInUnit
      <4>3. next = c.at + 1
        <5>1. CASE Within(headAdm, Covering')
          <6>1. PICK d \in Covering' : d.adm = headAdm
            BY <5>1 DEF Within
          <6>2. Len(ring') > 0
            BY <3>2, <6>1
          <6>3. c \in ring[1] /\ d \in ring[1 + 1] /\ 1 \in 1..Len(ring) /\ 1 + 1 <= Len(ring)
            BY <1>3, <3>2, <6>1, <6>2
          <6>4. d.at = c.at + 1
            BY <1>1, <4>1, <6>1, <6>3 DEF Lying, Laid, InStep
          <6>5. QED
            BY <3>2, <6>1, <6>4, PlaceInUnit
        <5>2. CASE ~Within(headAdm, Covering')
          BY <3>2, <4>2, <5>2, PlaceInUnit
        <5>3. QED
          BY <5>1, <5>2
      <4>4. listened'[head] = listened[head] + 1 /\ listened[head] \in Nat
        BY <1>2, <1>9, <2>1, <4>1
      <4>5. heardEnd'[headAdm] > 0
        BY <4>2
      <4> HIDE DEF now, next
      <4>6. HeadTail' <= HeadTail + 1 /\ HeadTail' \in Nat
        <5>1. now \in Nat /\ next = now + 1
          BY <4>2, <4>3
        <5>2. heardFrom \in Nat
          BY <2>1, <2>3
        <5>3. QED
          BY <3>1, <5>1, <5>2
      <4>7. QED
        BY <2>1, <4>4, <4>5, <4>6
    <3>4. CASE ~Within(headAdm, unit)
      <4>1. heardEnd'[headAdm] = heardEnd[headAdm] /\ heardEnd[headAdm] \in Nat
        BY <1>3, <1>5, <2>1, <3>4
      <4>2. heardEnd[headAdm] > 0 \/ Over(headAdm)
        BY <1>1, <1>2, <2>3, <3>4 DEF Judged
      <4>3. ~Within(headAdm, Covering')
        <5> SUFFICES ASSUME Within(headAdm, Covering') PROVE FALSE
          OBVIOUS
        <5>1. PICK d \in Covering' : d.adm = headAdm
          BY DEF Within
        <5>2. Len(ring') > 0
          BY <3>2, <5>1
        <5>3. d \in ring[1 + 1] /\ 1 \in 1..Len(ring) /\ 1 + 1 <= Len(ring) /\ 1 + 1 \in 1..Len(ring)
          BY <1>3, <3>2, <5>1, <5>2
        <5>4. ~Over(headAdm)
          BY <5>1, <5>3 DEF Over, Within
        <5>5. Begun(ring, heardEnd, 1, headAdm)
          BY <4>2, <5>4 DEF Begun
        <5>6. Within(headAdm, ring[1])
          BY <1>1, <5>1, <5>3, <5>5 DEF Lying, Laid, Unbroken
        <5>7. QED
          BY <1>3, <3>4, <5>6
      <4>4. next = now
        BY <1>2, <3>4, <4>1, <4>3 DEF HeardIn
      <4>5. HeadTail' = HeadTail
        BY <3>1, <4>4
      <4>6. Over(headAdm) => Over(headAdm)'
        <5>1. \A i \in 1..Len(ring') : i + 1 \in 1..Len(ring) /\ ring'[i] = ring[i + 1]
          BY <1>3, <1>6
        <5>2. QED
          BY <1>2, <5>1 DEF Over
      <4>7. listened[head] <= listened'[head] /\ listened[head] \in Nat /\ listened'[head] \in Nat
        BY <1>9, <2>1
      <4>8. heard + HeadTail' <= listened'[head]
        BY <2>1, <4>5, <4>7
      <4>9. QED
        BY <2>1, <4>1, <4>2, <4>6, <4>8
    <3>5. QED
      BY <3>3, <3>4
  <2>4. QED
    BY <2>2, <2>3
<1>12. QED
  BY <1>7, <1>8, <1>10, <1>11 DEF Credible

(* Where the device is in what is heard now, is what is looked at.         *)
LEMMA HeardWhere ==
    ASSUME TypeOK, Lying, HasHeard, HeardNow.adm # 0
    PROVE  /\ HeardIn(Covering, heardEnd, HeardNow.adm) = HeardNow.at
           /\ Within(HeardNow.adm, Covering) \/ heardEnd[HeardNow.adm] > 0
<1>1. HeardNow = Audible
  BY DEF HeardNow
<1>2. Single(Covering)
  BY FrontSingle DEF Lying
<1>3. CASE Covering # {}
  <2>1. Latest(Covering) \in Covering
    BY <1>3, LatestOfCovering
  <2>2. HeardNow.adm = Latest(Covering).adm /\ HeardNow.at = Latest(Covering).at
    BY <1>1, <1>3 DEF Audible
  <2>3. HeardIn(Covering, heardEnd, HeardNow.adm) = HeardNow.at
    BY <1>2, <2>1, <2>2, PlaceInUnit
  <2>4. QED
    BY <2>1, <2>2, <2>3 DEF Within
<1>4. CASE Covering = {}
  <2>1. HeardNow.adm = lastHeard /\ lastHeard # 0 /\ HeardNow.at = heardEnd[lastHeard]
    BY <1>1, <1>4 DEF Audible
  <2>2. heardEnd[lastHeard] > 0
    BY <2>1 DEF HasHeard
  <2>3. ~Within(HeardNow.adm, Covering)
    BY <1>4 DEF Within
  <2>4. QED
    BY <2>1, <2>2, <2>3 DEF HeardIn
<1>5. QED
  BY <1>3, <1>4

(* A look starts the head's account where it is heard.                     *)
LEMMA LookJudged ==
    ASSUME TypeOK, Lying, HasHeard, PassageHeard # Nobody,
           UNCHANGED <<roll, ring, heardEnd, listened>>,
           head' = PassageHeard, headAdm' = HeardNow.adm, heardFrom' = HeardNow.at,
           heard' \in Nat, heard' <= listened[PassageHeard]
    PROVE  Judged'
<1>1. HeardNow.adm # 0 /\ PassageHeard = roll[HeardNow.adm] /\ HeardNow.at \in Nat
  BY AudibleTyped DEF PassageHeard
<1>2. Covering' = Covering
  BY DEF Covering
<1>3. HeadTail' = 0
  <2>1. HeadTail' = Moving(Covering, heardEnd, HeardNow.adm, HeardNow.at)
    BY <1>2, TailMoves
  <2>2. HeardIn(Covering, heardEnd, HeardNow.adm) = HeardNow.at
    BY <1>1, HeardWhere
  <2>3. QED
    BY <1>1, <2>1, <2>2 DEF Moving
<1>4. Within(HeardNow.adm, Covering) \/ heardEnd[HeardNow.adm] > 0
  BY <1>1, HeardWhere
<1>5. heard' + HeadTail' <= listened[PassageHeard]
  <2>1. listened[PassageHeard] \in Nat
    BY PassageHeardTyped DEF TypeOK
  <2>2. QED
    BY <1>3, <2>1
<1>6. QED
  BY <1>1, <1>2, <1>4, <1>5 DEF Judged

LEMMA LookLying ==
    ASSUME Lying, HasHeard, UNCHANGED <<mixer, output>>
    PROVE  Lying' /\ HasHeard'
BY DEF Lying, HasHeard, mixer, output

LEMMA DepartureKeepsCredit ==
    ASSUME TypeOK, Credible, LookDeparted
    PROVE  Credible'
<1> DEFINE arrived == PassageHeard # Nobody /\ countedElsewhere = PassageHeard
           e == [verdict |-> "skipped", heard |-> heard + HeadTail]
           told == IF Unjudged THEN [reports EXCEPT ![head] = Append(@, e)] ELSE reports
<1>1. Lying /\ Judged /\ HasHeard /\ Truthful(reports)
  BY DEF Credible
<1>2. /\ head' = PassageHeard /\ headAdm' = HeardNow.adm
      /\ heardFrom' = IF PassageHeard = Nobody THEN Nowhere ELSE HeardNow.at
      /\ UNCHANGED <<mixer, output, roll, ring, heardEnd, listened>>
      /\ Credited(PassageHeard, 0, arrived, told)
  BY DEF LookDeparted, mixer, output, Told
<1>3. /\ reports \in Reports /\ e \in Reported /\ e.heard = heard + HeadTail
      /\ head \in Passages \cup {Nobody}
  BY ShapeParts, TailTyped DEF Telling, Judging, Reported, Verdicts
<1>4. told \in Reports /\ Truthful(told)
  <2>1. CASE Unjudged
    <3>1. head \in Passages /\ e.heard <= listened[head]
      BY <1>1, <1>3, <2>1 DEF Unjudged, Judged
    <3>2. told = [reports EXCEPT ![head] = Append(@, e)]
      BY <2>1
    <3> HIDE DEF e, told
    <3>3. QED
      BY <1>1, <1>3, <3>1, <3>2, AppendedTruth, VerdictTyped
  <2>2. CASE ~Unjudged
    BY <1>1, <1>3, <2>2
  <2>3. QED
    BY <2>1, <2>2
<1> HIDE DEF told, arrived, e
<1>5. PassageHeard \in Passages \cup {Nobody}
  BY PassageHeardTyped
<1>6. PassageHeard # Nobody => listened[PassageHeard] \in Nat /\ 0 <= listened[PassageHeard]
  BY <1>5 DEF TypeOK
<1>7. heard' = 0 /\ Truthful(reports)'
  BY <1>2, <1>4, <1>5, <1>6, CreditTruthful
<1>8. Judged'
  <2>1. CASE PassageHeard = Nobody
    BY <1>2, <2>1 DEF Judged
  <2>2. CASE PassageHeard # Nobody
    BY <1>1, <1>2, <1>6, <1>7, <2>2, LookJudged
  <2>3. QED
    BY <2>1, <2>2
<1>9. QED
  BY <1>1, <1>2, <1>7, <1>8, LookLying DEF Credible

LEMMA LookOnKeepsCredit ==
    ASSUME TypeOK, Credible, LookOn
    PROVE  Credible'
<1> DEFINE units == IF head = Nobody THEN heard
                    ELSE heard + (IF ComparableFrom # Nowhere /\ HeardNow.at > ComparableFrom
                                  THEN HeardNow.at - ComparableFrom ELSE 0)
<1>1. Lying /\ Judged /\ HasHeard /\ Truthful(reports)
  BY DEF Credible
<1>2. /\ head = PassageHeard /\ head' = head /\ headAdm' = HeardNow.adm
      /\ heardFrom' = IF head = Nobody THEN heardFrom ELSE HeardNow.at
      /\ UNCHANGED <<mixer, output, roll, ring, heardEnd, listened>>
      /\ Credited(head, units, recorded, reports)
  BY DEF LookOn, mixer, output
<1>3. /\ reports \in Reports /\ heard \in Nat /\ head \in Passages \cup {Nobody}
      /\ heardFrom \in Nat \cup {Nowhere} /\ HeardNow.at \in Nat
  BY ShapeParts, AudibleTyped DEF Telling, Judging
<1>4. units \in Nat
  BY <1>3 DEF ComparableFrom, Nowhere
<1>5. ASSUME head # Nobody
      PROVE  units <= listened[head]
  <2>1. /\ HeardNow.adm # 0 /\ heard + HeadTail <= listened[head]
        /\ listened[head] \in Nat /\ HeadTail \in Nat
    <3>1. HeardNow.adm # 0
      BY <1>2, <1>5 DEF PassageHeard
    <3>2. listened[head] \in Nat
      BY <1>3, <1>5 DEF TypeOK
    <3>3. QED
      BY <1>1, <1>5, <3>1, <3>2, TailTyped DEF Judged
  <2>2. CASE headAdm = HeardNow.adm /\ heardFrom # Nowhere
    <3>1. HeadTail = Moving(Covering, heardEnd, HeardNow.adm, heardFrom)
      BY <2>2, TailMoves
    <3>2. HeardIn(Covering, heardEnd, HeardNow.adm) = HeardNow.at
      BY <1>1, <2>1, HeardWhere
    <3>3. HeadTail = IF HeardNow.at > heardFrom THEN HeardNow.at - heardFrom ELSE 0
      BY <2>1, <2>2, <3>1, <3>2 DEF Moving
    <3>4. units = heard + HeadTail
      BY <1>5, <2>2, <3>3 DEF ComparableFrom
    <3>5. QED
      BY <2>1, <3>4
  <2>3. CASE headAdm # HeardNow.adm \/ heardFrom = Nowhere
    <3>1. units = heard
      BY <1>3, <1>5, <2>3 DEF ComparableFrom
    <3>2. QED
      BY <1>3, <2>1, <3>1
  <2>4. QED
    BY <2>2, <2>3
<1> HIDE DEF units
<1>6. heard' = units /\ Truthful(reports)'
  BY <1>1, <1>2, <1>3, <1>4, <1>5, CreditTruthful
<1>7. Judged'
  <2>1. CASE head = Nobody
    BY <1>2, <2>1 DEF Judged
  <2>2. CASE head # Nobody
    <3>1. PassageHeard # Nobody /\ head' = PassageHeard /\ heardFrom' = HeardNow.at
      BY <1>2, <2>2
    <3>2. heard' \in Nat /\ heard' <= listened[PassageHeard]
      BY <1>2, <1>4, <1>5, <1>6, <2>2
    <3>3. QED
      BY <1>1, <1>2, <3>1, <3>2, LookJudged
  <2>3. QED
    BY <2>1, <2>2
<1>8. QED
  BY <1>1, <1>2, <1>6, <1>7, LookLying DEF Credible

LEMMA RemoveKeepsCredit ==
    ASSUME TypeOK, Credible, NEW i, RemoveQueued(i)
    PROVE  Credible'
<1>1. UNCHANGED <<roll, live, output, judgement, listened>>
  BY DEF RemoveQueued, mixer
<1>2. Truthful(reports)
  BY DEF Credible
<1>3. CASE queue[i] = Shutdown
  <2>1. reports' = reports
    BY <1>3 DEF RemoveQueued
  <2>2. QED
    BY <1>1, <1>2, <2>1, TruthStays, CreditStays
<1>4. CASE queue[i] # Shutdown
  <2> DEFINE v == IF queue[i] \in Picked THEN "dropped" ELSE "dequeued"
             e == [verdict |-> v, heard |-> 0]
  <2>1. queue[i] \in Passages
    BY <1>4, QueueLength DEF RemoveQueued, TypeOK
  <2>2. reports' = [reports EXCEPT ![queue[i]] = Append(@, e)]
    BY <1>4 DEF RemoveQueued, Told
  <2>3. e \in Reported /\ e.heard = 0 /\ reports \in Reports /\ listened[queue[i]] \in Nat
    BY <2>1, ShapeParts DEF Reported, Verdicts, Telling
  <2> HIDE DEF e
  <2>4. Truthful(reports')
    <3> DEFINE p == queue[i]
    <3>1. p \in Passages /\ reports' = [reports EXCEPT ![p] = Append(@, e)] /\ e.heard <= listened[p]
      BY <2>1, <2>2, <2>3
    <3> HIDE DEF p
    <3>2. QED
      BY <1>2, <2>3, <3>1, AppendedTruth
  <2>5. QED
    BY <1>1, <2>4, TruthNext, CreditStays
<1>5. QED
  BY <1>3, <1>4

LEMMA HandBackKeepsCredit ==
    ASSUME TypeOK, Credible, NEW at, NEW k, HandBack(k, at)
    PROVE  Credible'
<1> DEFINE e == [verdict |-> "guest", heard |-> 0]
           ps == {away[i] : i \in 1..(k - 1)} \ {guestCounted}
<1>1. reports' = [p \in Passages |-> IF p \in ps THEN Append(reports[p], e) ELSE reports[p]]
  BY DEF HandBack
<1>2. e \in Reported /\ e.heard = 0
  BY DEF Reported, Verdicts
<1> HIDE DEF e, ps
<1>3. Truthful(reports')
  BY <1>1, <1>2, ManyTruths DEF Credible
<1>4. UNCHANGED <<roll, live, output, judgement, listened>>
  BY DEF HandBack
<1>5. QED
  BY <1>3, <1>4, TruthNext, CreditStays

LEMMA NothingCredited ==
    ASSUME ring = <<>>, live = {}, lastHeard = 0, head = Nobody, Truthful(reports)
    PROVE  Credible
<1>1. Laid(ring, heardEnd)
  <2>1. Len(ring) = 0
    BY EmptySeq
  <2>2. QED
    BY <2>1 DEF Laid, InStep, Unbroken, GoesOn
<1>2. Mixing(ring, heardEnd, live, roll)
  BY DEF Mixing, Single
<1>3. QED
  BY <1>1, <1>2 DEF Credible, Lying, HasHeard, Judged

LEMMA InitCredible == Init => Credible
<1> SUFFICES ASSUME Init PROVE Credible
  OBVIOUS
<1>1. Truthful(reports)
  BY EmptySeq DEF Init, Truthful
<1>2. QED
  BY <1>1, NothingCredited DEF Init

LEMMA CrashKeepsCredit ==
    ASSUME TypeOK, Credible, Crash
    PROVE  Credible'
<1>1. /\ ring' = <<>> /\ live' = {} /\ lastHeard' = 0 /\ head' = Nobody
      /\ UNCHANGED <<reports, listened>>
  BY DEF Crash
<1>2. Laid(ring', heardEnd')
  <2>1. Len(ring') = 0
    BY <1>1, EmptySeq
  <2>2. QED
    BY <2>1 DEF Laid, InStep, Unbroken, GoesOn
<1>3. Mixing(ring', heardEnd', live', roll')
  BY <1>1 DEF Mixing, Single
<1>4. Truthful(reports)'
  BY <1>1, TruthStays DEF Credible
<1>5. QED
  BY <1>1, <1>2, <1>3, <1>4 DEF Credible, Lying, HasHeard, Judged

LEMMA NextKeepsCredit ==
    ASSUME TypeOK, Credible, [Next]_vars
    PROVE  Credible'
<1>1. CASE Skip
  BY <1>1, SkipKeepsCredit DEF Skip, TypeOK
<1>2. CASE \E p \in Passages : PlayNow(p)
  BY <1>2, ArrivedTyped, SkipKeepsCredit DEF PlayNow
<1>3. CASE HandOff
  BY <1>3, PassagesQueue, EmptySeq, SkipKeepsCredit DEF HandOff
<1>4. CASE \E i \in 1..(Cardinality(Passages) + 1) : RemoveQueued(i)
  BY <1>4, RemoveKeepsCredit
<1>5. CASE \E at \in SeekPoints : Seek(at) \/ \E k \in 1..Cardinality(Passages) : HandBack(k, at)
  BY <1>5, SeekKeepsCredit, HandBackKeepsCredit
<1>6. CASE Mix \/ LookDeparted \/ LookOn \/ DeviceTakes \/ Crash
  BY <1>6, MixKeepsCredit, DepartureKeepsCredit, LookOnKeepsCredit,
     DeviceKeepsCredit, CrashKeepsCredit
<1>7. CASE \/ Play \/ Pause \/ EnqueueShutdown
           \/ \E p \in Passages : Enqueue(p) \/ EnqueueNext(p)
           \/ \E i \in 1..(Cardinality(Passages) + 1), delta \in {-1, 1} : ShiftQueued(i, delta)
  <2>1. UNCHANGED <<roll, live, output, judgement, listened, reports>>
    BY <1>7 DEF Play, Pause, EnqueueShutdown, Enqueue, EnqueueNext, ShiftQueued,
       mixer, history
  <2>2. QED
    BY <2>1, TruthStays, CreditStays DEF Credible
<1>8. CASE LookPaused \/ Show \/ ExecuteShutdown \/ Persist \/ Refill \/ Prime \/ UNCHANGED vars
  <2>1. UNCHANGED <<roll, live, output, judgement, listened, reports>>
    BY <1>8 DEF LookPaused, Show, ExecuteShutdown, Persist, Refill, Prime, vars,
       mixer, history
  <2>2. QED
    BY <2>1, TruthStays, CreditStays DEF Credible
<1>9. QED
  BY <1>1, <1>2, <1>3, <1>4, <1>5, <1>6, <1>7, <1>8 DEF Next, Pass

(* Whatever is skipped, sought, paused, handed over or cut off, the time   *)
(* counted towards a play and the time written with a verdict are time the *)
(* device played of the passage: the ring holds each passage in order and  *)
(* without a gap, so a move of the position between two looks at one       *)
(* admission is so many units taken, and positions of two admissions are   *)
(* never compared (record_play).                                           *)
THEOREM CreditIsOnlyListening == Spec => []CreditIsListening
<1>1. Init => TypeOK /\ Credible
  BY InitShape, InitCredible
<1>2. TypeOK /\ Credible /\ [Next]_vars => TypeOK' /\ Credible'
  BY NextKeepsShape, NextKeepsCredit
<1>3. TypeOK /\ Credible => CreditIsListening
  <2> SUFFICES ASSUME TypeOK, Credible PROVE CreditIsListening
    OBVIOUS
  <2>1. ASSUME head # Nobody
        PROVE  heard <= listened[head]
    <3>1. heard \in Nat /\ HeadTail \in Nat /\ listened[head] \in Nat
      BY <2>1, TailTyped DEF TypeOK
    <3>2. heard + HeadTail <= listened[head]
      BY <2>1 DEF Credible, Judged
    <3>3. QED
      BY <3>1, <3>2
  <2>2. QED
    BY <2>1 DEF Credible, Truthful, CreditIsListening
<1>4. QED
  BY <1>1, <1>2, <1>3, PTL DEF Spec

-----------------------------------------------------------------------------
(* Nothing is in two places from which it would be played.                  *)

Items(q) == {q[i] : i \in 1..Len(q)}

Once(q) == \A i, j \in 1..Len(q) : q[i] = q[j] => i = j

\* What waits, what was carried away and what the disk holds was offered, and
\* each holds it once; what is being mixed waits no more.
OnceEach ==
    /\ Once(queue) /\ Items(queue) \subseteq offered \cup {Shutdown}
    /\ \A c \in live : roll[c.adm] \in offered \ Items(queue)
    /\ Once(away) /\ Items(away) \subseteq offered
    /\ Once(disk.queue) /\ Items(disk.queue) \subseteq offered
    /\ disk.resume \in offered \cup {Nobody}

\* While the other backend is in charge nothing waits here and nothing is mixed;
\* and nothing outlives the power.
Silent ==
    /\ active \in {"local", "guest"}
    /\ active = "guest" => queue = <<>> /\ live = {}
    /\ pc = "down" => active = "local" /\ live = {}

-----------------------------------------------------------------------------
(* What the edits of a queue leave of a queue that holds nothing twice.     *)

LEMMA OnceDrawn ==
    ASSUME NEW q, NEW r, Once(q), NEW f \in [1..Len(r) -> 1..Len(q)],
           \A i \in 1..Len(r) : r[i] = q[f[i]],
           \A i, j \in 1..Len(r) : f[i] = f[j] => i = j
    PROVE  Once(r) /\ Items(r) \subseteq Items(q)
<1>1. \A i \in 1..Len(r) : f[i] \in 1..Len(q)
  OBVIOUS
<1>2. Once(r)
  BY <1>1 DEF Once
<1>3. Items(r) \subseteq Items(q)
  BY <1>1 DEF Items
<1>4. QED
  BY <1>2, <1>3

LEMMA OnceEmpty == Once(<<>>) /\ Items(<<>>) = {}
<1>1. Len(<<>>) = 0
  OBVIOUS
<1>2. 1..Len(<<>>) = {}
  BY <1>1
<1>3. QED
  BY <1>2 DEF Once, Items

LEMMA OnceCut ==
    ASSUME NEW S, NEW q \in Seq(S), Once(q), NEW k \in 1..Len(q)
    PROVE  Once(Cut(q, k)) /\ Items(Cut(q, k)) \subseteq Items(q) \ {q[k]}
<1> DEFINE c == Cut(q, k)
           f == [i \in 1..Len(c) |-> IF i < k THEN i ELSE i + 1]
<1>1. Len(q) \in Nat
  BY LenProperties
<1>2. /\ Len(c) = Len(q) - 1
      /\ \A i \in 1..(Len(q) - 1) : c[i] = IF i < k THEN q[i] ELSE q[i + 1]
  BY CutFacts
<1> HIDE DEF c
<1>3. /\ f \in [1..Len(c) -> 1..Len(q)]
      /\ \A i \in 1..Len(c) : c[i] = q[f[i]] /\ f[i] # k
      /\ \A i, j \in 1..Len(c) : f[i] = f[j] => i = j
  BY <1>1, <1>2
<1> HIDE DEF f
<1>4. Once(c) /\ Items(c) \subseteq Items(q)
  BY <1>3, OnceDrawn
<1>5. q[k] \notin Items(c)
  <2> SUFFICES ASSUME NEW i \in 1..Len(c) PROVE c[i] # q[k]
    BY DEF Items
  <2>1. f[i] \in 1..Len(q) /\ c[i] = q[f[i]] /\ f[i] # k
    BY <1>3
  <2>2. QED
    BY <2>1 DEF Once
<1>6. QED
  BY <1>4, <1>5 DEF c

LEMMA OnceWithout ==
    ASSUME NEW S, NEW q \in Seq(S), Once(q), NEW x
    PROVE  Once(Without(q, x)) /\ Items(Without(q, x)) \subseteq Items(q) \ {x}
<1>1. CASE \E i \in 1..Len(q) : q[i] = x
  <2> DEFINE k == CHOOSE i \in 1..Len(q) : q[i] = x
  <2>1. k \in 1..Len(q) /\ q[k] = x
    BY <1>1
  <2>2. Without(q, x) = Cut(q, k)
    BY <1>1 DEF Without
  <2> HIDE DEF k
  <2>3. QED
    BY <2>1, <2>2, OnceCut
<1>2. CASE ~\E i \in 1..Len(q) : q[i] = x
  BY <1>2 DEF Without, Items
<1>3. QED
  BY <1>1, <1>2

LEMMA OnceTail ==
    ASSUME NEW S, NEW q \in Seq(S), Once(q), q # <<>>
    PROVE  /\ Once(Tail(q)) /\ Items(Tail(q)) \subseteq Items(q) \ {Head(q)}
           /\ Head(q) \in Items(q)
<1> DEFINE t == Tail(q)
           f == [i \in 1..Len(t) |-> i + 1]
<1>1. /\ Len(q) \in Nat /\ Len(q) # 0 /\ Head(q) = q[1]
      /\ Len(t) = Len(q) - 1 /\ \A i \in 1..Len(t) : t[i] = q[i + 1]
  BY LenProperties, EmptySeq, HeadTailProperties
<1> HIDE DEF t
<1>2. /\ f \in [1..Len(t) -> 1..Len(q)]
      /\ \A i \in 1..Len(t) : t[i] = q[f[i]] /\ f[i] # 1
      /\ \A i, j \in 1..Len(t) : f[i] = f[j] => i = j
  BY <1>1
<1>3. 1 \in 1..Len(q)
  BY <1>1
<1> HIDE DEF f
<1>4. Once(t) /\ Items(t) \subseteq Items(q)
  BY <1>2, OnceDrawn
<1>5. q[1] \notin Items(t)
  <2> SUFFICES ASSUME NEW i \in 1..Len(t) PROVE t[i] # q[1]
    BY DEF Items
  <2>1. f[i] \in 1..Len(q) /\ t[i] = q[f[i]] /\ f[i] # 1
    BY <1>2
  <2>2. QED
    BY <1>3, <2>1 DEF Once
<1>6. q[1] \in Items(q)
  BY <1>3 DEF Items
<1>7. QED
  BY <1>1, <1>4, <1>5, <1>6 DEF t

LEMMA OnceSuffix ==
    ASSUME NEW S, NEW q \in Seq(S), Once(q), NEW k \in 1..Len(q)
    PROVE  LET r == SubSeq(q, k, Len(q))
           IN  /\ Once(r) /\ Items(r) \subseteq Items(q)
               /\ r # <<>> /\ Head(r) = q[k] /\ r \in Seq(S)
<1> DEFINE r == SubSeq(q, k, Len(q))
           f == [i \in 1..Len(r) |-> i + k - 1]
<1>1. Len(q) \in Nat
  BY LenProperties
<1>2. /\ r \in Seq(S) /\ Len(r) = Len(q) - k + 1
      /\ \A i \in 1..(Len(q) - k + 1) : r[i] = q[k + i - 1]
  <2>1. \A i \in k..Len(q) : q[i] \in S
    BY <1>1, ElementOfSeq
  <2>2. QED
    BY <1>1, <2>1, SubSeqProperties
<1> HIDE DEF r
<1>3. /\ f \in [1..Len(r) -> 1..Len(q)] /\ \A i \in 1..Len(r) : r[i] = q[f[i]]
      /\ \A i, j \in 1..Len(r) : f[i] = f[j] => i = j
  BY <1>1, <1>2
<1> HIDE DEF f
<1>4. Once(r) /\ Items(r) \subseteq Items(q)
  BY <1>3, OnceDrawn
<1>5. r # <<>> /\ Head(r) = r[1] /\ r[1] = q[k]
  <2>1. Len(r) \in Nat /\ Len(r) # 0
    BY <1>1, <1>2
  <2>2. r # <<>>
    BY <1>2, <2>1, EmptySeq
  <2>3. Head(r) = r[1]
    BY <1>2, <2>2, HeadTailProperties
  <2>4. r[1] = q[k]
    BY <1>1, <1>2
  <2>5. QED
    BY <2>2, <2>3, <2>4
<1>6. QED
  BY <1>2, <1>4, <1>5 DEF r

LEMMA OnceJoined ==
    ASSUME NEW S, NEW q \in Seq(S), NEW T, NEW r \in Seq(T), Once(q), Once(r),
           Items(q) \cap Items(r) = {}
    PROVE  Once(q \o r) /\ Items(q \o r) = Items(q) \cup Items(r)
<1> DEFINE w == q \o r
<1>1. q \in Seq(S \cup T) /\ r \in Seq(S \cup T)
  BY SeqMonotonic
<1>2. Len(q) \in Nat /\ Len(r) \in Nat
  BY LenProperties
<1>3. /\ Len(w) = Len(q) + Len(r)
      /\ \A i \in 1..(Len(q) + Len(r)) : w[i] = IF i <= Len(q) THEN q[i] ELSE r[i - Len(q)]
  BY <1>1, ConcatProperties
<1> HIDE DEF w
<1>4. \A i \in 1..Len(w) : i <= Len(q) => i \in 1..Len(q) /\ w[i] = q[i]
  BY <1>2, <1>3
<1>5. \A i \in 1..Len(w) : i > Len(q) => i - Len(q) \in 1..Len(r) /\ w[i] = r[i - Len(q)]
  BY <1>2, <1>3
<1>6. ASSUME NEW i \in 1..Len(w), NEW j \in 1..Len(w), w[i] = w[j]
      PROVE  i = j
  <2>1. CASE i <= Len(q) /\ j <= Len(q)
    BY <1>4, <1>6, <2>1 DEF Once
  <2>2. CASE i > Len(q) /\ j > Len(q)
    <3>1. i - Len(q) = j - Len(q)
      BY <1>5, <1>6, <2>2 DEF Once
    <3>2. QED
      BY <1>2, <3>1
  <2>3. CASE i <= Len(q) /\ j > Len(q)
    <3>1. w[i] \in Items(q) /\ w[j] \in Items(r)
      BY <1>4, <1>5, <2>3 DEF Items
    <3>2. QED
      BY <1>6, <3>1
  <2>4. CASE i > Len(q) /\ j <= Len(q)
    <3>1. w[i] \in Items(r) /\ w[j] \in Items(q)
      BY <1>4, <1>5, <2>4 DEF Items
    <3>2. QED
      BY <1>6, <3>1
  <2>5. QED
    BY <1>2, <2>1, <2>2, <2>3, <2>4
<1>7. Items(w) \subseteq Items(q) \cup Items(r)
  BY <1>2, <1>4, <1>5 DEF Items
<1>8. Items(q) \subseteq Items(w)
  <2>1. \A i \in 1..Len(q) : i \in 1..Len(w) /\ w[i] = q[i]
    BY <1>2, <1>3
  <2>2. QED
    BY <2>1 DEF Items
<1>9. Items(r) \subseteq Items(w)
  <2>1. ASSUME NEW i \in 1..Len(r)
        PROVE  Len(q) + i \in 1..Len(w) /\ w[Len(q) + i] = r[i]
    <3>1. /\ Len(q) + i \in 1..(Len(q) + Len(r)) /\ ~(Len(q) + i <= Len(q))
          /\ (Len(q) + i) - Len(q) = i
      BY <1>2
    <3>2. QED
      BY <1>3, <3>1
  <2>2. QED
    BY <2>1 DEF Items
<1>10. QED
  BY <1>6, <1>7, <1>8, <1>9 DEF Once, w

LEMMA OnceSingle ==
    ASSUME NEW x
    PROVE  /\ <<x>> \in Seq({x}) /\ Once(<<x>>) /\ Items(<<x>>) = {x}
           /\ <<x>> # <<>> /\ Head(<<x>>) = x
BY DEF Once, Items

LEMMA OnceAppended ==
    ASSUME NEW S, NEW q \in Seq(S), Once(q), NEW x, x \notin Items(q)
    PROVE  /\ Once(Append(q, x)) /\ Items(Append(q, x)) = Items(q) \cup {x}
           /\ Once(<<x>> \o q) /\ Items(<<x>> \o q) = Items(q) \cup {x}
<1>1. q \in Seq(S \cup {x})
  BY SeqMonotonic
<1>2. Append(q, x) = q \o <<x>>
  BY <1>1, AppendIsConcat
<1>3. /\ <<x>> \in Seq({x}) /\ Once(<<x>>) /\ Items(<<x>>) = {x}
      /\ Items(q) \cap {x} = {} /\ {x} \cap Items(q) = {}
  BY OnceSingle
<1> DEFINE one == <<x>>
           T == {x}
<1>4. one \in Seq(T) /\ Once(one) /\ Items(one) = T /\ Items(one) \cap Items(q) = {}
  BY <1>3
<1> HIDE DEF one
<1>5. Once(q \o one) /\ Items(q \o one) = Items(q) \cup Items(one)
  BY <1>4, OnceJoined
<1>6. Once(one \o q) /\ Items(one \o q) = Items(one) \cup Items(q)
  BY <1>4, OnceJoined
<1>7. QED
  BY <1>2, <1>4, <1>5, <1>6 DEF one

LEMMA OnceMoved ==
    ASSUME NEW S, NEW q \in Seq(S), Once(q), NEW k \in 1..Len(q), NEW to \in 1..Len(q)
    PROVE  Once(Moved(q, k, to)) /\ Items(Moved(q, k, to)) \subseteq Items(q)
<1> DEFINE c == Cut(q, k)
           one == <<q[k]>>
           m == Splice(c, to - 1, one)
           f == [i \in 1..Len(m) |->
                   IF i = to THEN k
                   ELSE LET j == IF i < to THEN i ELSE i - 1
                        IN  IF j < k THEN j ELSE j + 1]
<1>1. Len(q) \in Nat /\ q[k] \in S
  BY LenProperties, ElementOfSeq
<1>2. /\ c \in Seq(S) /\ Len(c) = Len(q) - 1
      /\ \A i \in 1..(Len(q) - 1) : c[i] = IF i < k THEN q[i] ELSE q[i + 1]
  BY CutFacts
<1>3. one \in Seq(S) /\ Len(one) = 1 /\ one[1] = q[k]
  BY <1>1
<1> HIDE DEF c, one
<1>4. /\ Len(m) = Len(c) + Len(one)
      /\ \A i \in 1..(Len(c) + Len(one)) :
            m[i] = IF i <= to - 1 THEN c[i]
                   ELSE IF i <= to - 1 + Len(one) THEN one[i - (to - 1)]
                   ELSE c[i - Len(one)]
  <2>1. to - 1 \in 0..Len(c)
    BY <1>1, <1>2
  <2>2. QED
    BY <2>1, <1>2, <1>3, SpliceFacts, ZenonT(60)
<1> HIDE DEF m
<1>5. Len(m) = Len(q)
  BY <1>1, <1>2, <1>3, <1>4
<1>6. ASSUME NEW i \in 1..Len(m)
      PROVE  f[i] \in 1..Len(q) /\ m[i] = q[f[i]]
  <2>1. CASE i = to
    <3>1. m[i] = one[i - (to - 1)] /\ i - (to - 1) = 1
      BY <1>1, <1>2, <1>3, <1>4, <1>5, <2>1
    <3>2. QED
      BY <1>3, <2>1, <3>1
  <2>2. CASE i < to
    <3>0. i <= to - 1 /\ i \in 1..(Len(q) - 1) /\ i \in 1..(Len(c) + Len(one))
      BY <1>1, <1>2, <1>3, <1>5, <2>2
    <3>1. m[i] = c[i] /\ i \in 1..(Len(q) - 1)
      BY <1>4, <3>0
    <3>2. QED
      BY <1>1, <1>2, <2>2, <3>1
  <2>3. CASE i > to
    <3>1. m[i] = c[i - 1] /\ i - 1 \in 1..(Len(q) - 1)
      BY <1>1, <1>2, <1>3, <1>4, <1>5, <2>3
    <3>2. QED
      BY <1>1, <1>2, <2>3, <3>1
  <2>4. QED
    BY <2>1, <2>2, <2>3
<1>7. \A i, j \in 1..Len(m) : f[i] = f[j] => i = j
  BY <1>1, <1>5
<1>8. f \in [1..Len(m) -> 1..Len(q)]
  BY <1>6
<1> HIDE DEF f
<1>9. Once(m) /\ Items(m) \subseteq Items(q)
  BY <1>6, <1>7, <1>8, OnceDrawn
<1>10. QED
  BY <1>9 DEF m, c, one, Moved

-----------------------------------------------------------------------------
(* What the other backend is in charge of is not here as well.              *)

LEMMA NothingToSkipTo ==
    ASSUME SkipFrom(<<>>) PROVE queue' = <<>> /\ live' = {}
<1>1. CASE SkipNothing(<<>>)
  BY <1>1 DEF SkipNothing, mixer
<1>2. CASE SkipToShutdown(<<>>)
  BY <1>2 DEF SkipToShutdown
<1>3. CASE SkipToNext(<<>>)
  <2> DEFINE a == Admission(<<>>, {})
  <2>1. a.queue = <<>> /\ a.live = {}
    BY DEF Admission, Due
  <2>2. PICK n \in Decoded(Forgotten(ring, Unheard), a.live, a.roll) :
          queue' = a.queue /\ live' = On(a.live, n)
    BY <1>3 DEF SkipToNext
  <2> HIDE DEF a
  <2>3. On({}, n) = {}
    BY DEF On
  <2>4. QED
    BY <2>1, <2>2, <2>3
<1>4. QED
  BY <1>1, <1>2, <1>3 DEF SkipFrom

LEMMA AdmissionOfNothing ==
    /\ Admission(<<>>, {}).queue = <<>> /\ Admission(<<>>, {}).live = {}
    /\ Admission(<<>>, {}).roll = roll /\ Admission(<<>>, {}).resume = pendingResume
BY DEF Admission, Due

LEMMA MixOfNothing ==
    ASSUME queue = <<>>, live = {}, Mix
    PROVE  queue' = <<>> /\ live' = {} /\ roll' = roll /\ pendingResume' = pendingResume
<1> DEFINE a == Admission(queue, live)
           giving == Giving(a.live, a.roll)
           mixes == MixRoom /\ giving # {}
<1>1. a.queue = <<>> /\ a.live = {} /\ a.roll = roll /\ a.resume = pendingResume
  BY AdmissionOfNothing
<1>2. /\ queue' = IF BadHead(a) THEN Tail(a.queue) ELSE a.queue
      /\ roll' = a.roll /\ pendingResume' = a.resume
      /\ live' = Giving(IF mixes THEN On(giving, 1) ELSE giving, a.roll)
  BY DEF Mix
<1>3. ~BadHead(a)
  BY <1>1 DEF BadHead
<1> HIDE DEF a
<1>4. giving = {}
  BY <1>1 DEF Giving
<1> HIDE DEF giving
<1>5. ~mixes
  BY <1>4
<1> HIDE DEF mixes
<1>6. live' = Giving({}, a.roll)
  BY <1>2, <1>4, <1>5
<1>7. QED
  BY <1>1, <1>2, <1>3, <1>6 DEF Giving

LEMMA RefillOfGuest ==
    ASSUME active = "guest", queue = <<>>, Refill PROVE queue' = <<>>
<1>1. queue' = <<>> \o <<>>
  BY DEF Refill
<1>2. <<>> \o <<>> = <<>>
  BY EmptySeq, ConcatEmptySeq
<1>3. QED
  BY <1>1, <1>2

LEMMA NextSilent == ASSUME Silent, [Next]_vars PROVE Silent'
<1>1. CASE \/ UNCHANGED vars
           \/ Play \/ Pause \/ Skip \/ EnqueueShutdown
           \/ \E p \in Passages : Enqueue(p) \/ EnqueueNext(p) \/ PlayNow(p)
           \/ \E i \in 1..(Cardinality(Passages) + 1) :
                 RemoveQueued(i) \/ \E delta \in {-1, 1} : ShiftQueued(i, delta)
           \/ \E at \in SeekPoints : Seek(at)
  <2>1. CASE UNCHANGED vars
    BY <2>1 DEF Silent, vars, mixer, handover
  <2>2. CASE active = "local" /\ active' = "local" /\ pc # "down" /\ pc' = pc
    BY <2>2 DEF Silent
  <2>3. CASE Play \/ Pause \/ Skip \/ EnqueueShutdown
    BY <2>2, <2>3 DEF Play, Pause, Skip, EnqueueShutdown, Asking, handover
  <2>4. CASE \E p \in Passages : Enqueue(p) \/ EnqueueNext(p) \/ PlayNow(p)
    BY <2>2, <2>4 DEF Enqueue, EnqueueNext, PlayNow, Asking, handover
  <2>5. CASE \E i \in 1..(Cardinality(Passages) + 1) :
                RemoveQueued(i) \/ \E delta \in {-1, 1} : ShiftQueued(i, delta)
    BY <2>2, <2>5 DEF RemoveQueued, ShiftQueued, Asking, handover
  <2>6. CASE \E at \in SeekPoints : Seek(at)
    BY <2>2, <2>6 DEF Seek, handover
  <2>7. QED
    BY <1>1, <2>1, <2>3, <2>4, <2>5, <2>6
<1>2. CASE HandOff
  <2>1. queue' = <<>> /\ live' = {} /\ pc' = "commands"
    BY <1>2, NothingToSkipTo DEF HandOff
  <2>2. active' = "guest"
    BY <1>2 DEF HandOff
  <2>3. QED
    BY <2>1, <2>2 DEF Silent
<1>3. CASE \E at \in SeekPoints : \E k \in 1..Cardinality(Passages) : HandBack(k, at)
  BY <1>3 DEF HandBack, Silent
<1>4. CASE Pass
  <2>1. CASE Mix
    <3>1. active' = active /\ pc' = "look"
      BY <2>1 DEF Mix, handover
    <3>2. QED
      BY <2>1, <3>1, MixOfNothing DEF Silent
  <2>2. CASE LookPaused \/ LookDeparted \/ LookOn \/ Show \/ Persist
    BY <2>2 DEF LookPaused, LookDeparted, LookOn, Show, Persist, mixer, handover, Silent
  <2>3. CASE ExecuteShutdown
    <3>1. queue # <<>> /\ active' = active /\ pc' = "remember"
      BY <2>3 DEF ExecuteShutdown, ShutdownDue, NextIsShutdown, handover
    <3>2. QED
      BY <3>1 DEF Silent
  <2>4. CASE Refill
    <3>1. UNCHANGED <<live, active>> /\ pc' = "commands"
      BY <2>4 DEF Refill, mixer, handover
    <3>2. QED
      BY <2>4, <3>1, RefillOfGuest DEF Silent
  <2>5. QED
    BY <1>4, <2>1, <2>2, <2>3, <2>4 DEF Pass
<1>5. CASE DeviceTakes \/ Crash \/ Prime
  BY <1>5 DEF DeviceTakes, Crash, Prime, mixer, handover, Silent
<1>6. QED
  BY <1>1, <1>2, <1>3, <1>4, <1>5 DEF Next


-----------------------------------------------------------------------------
(* Admissions: what they take from the queue and give to the mixer.         *)

LEMMA OnceAdmitted ==
    ASSUME TypeOK, NEW q, IsQueue(q), Once(q), NEW l, IsMixer(l, roll)
    PROVE  LET a == Admission(q, l)
           IN  /\ Once(a.queue) /\ Items(a.queue) \subseteq Items(q)
               /\ \A c \in a.live :
                     \/ c \in l /\ a.roll[c.adm] = roll[c.adm]
                     \/ a.roll[c.adm] \in Items(q) \ (Items(a.queue) \cup {Shutdown})
               /\ q = <<>> => a.queue = <<>> /\ a.live = l
<1> DEFINE a == Admission(q, l)
<1>1. q \in Seq(Passages \cup {Shutdown})
  BY DEF IsQueue
<1>2. CASE ~Due(q, l)
  BY <1>2 DEF Admission
<1>3. CASE Due(q, l) /\ Head(q) \in Unopenable
  <2>1. q # <<>>
    BY <1>3 DEF Due
  <2>2. Once(Tail(q)) /\ Items(Tail(q)) \subseteq Items(q) \ {Head(q)}
    BY <1>1, <2>1, OnceTail
  <2>3. a = [queue |-> Tail(q), live |-> l, roll |-> roll, resume |-> Nowhere,
             dropped |-> {Head(q)}]
    BY <1>3 DEF Admission
  <2>4. QED
    BY <2>1, <2>2, <2>3
<1>4. CASE Due(q, l) /\ Head(q) \notin Unopenable
  <2>1. q # <<>> /\ Head(q) # Shutdown /\ Head(q) \in Passages
    BY <1>4, TailQueue DEF Due
  <2>2. /\ Once(Tail(q)) /\ Items(Tail(q)) \subseteq Items(q) \ {Head(q)}
        /\ Head(q) \in Items(q)
    BY <1>1, <2>1, OnceTail
  <2>3. a = [queue |-> Tail(q), live |-> l \cup {Opened(Origin(Head(q)))},
             roll |-> Append(roll, Head(q)), resume |-> Nowhere, dropped |-> {}]
    BY <1>4 DEF Admission
  <2>4. /\ Append(roll, Head(q))[Len(roll) + 1] = Head(q)
        /\ \A i \in 1..Len(roll) : Append(roll, Head(q))[i] = roll[i]
    BY <2>1, RollGrows DEF Extends
  <2>5. Opened(Origin(Head(q))).adm = Len(roll) + 1
    BY DEF Opened
  <2>6. \A c \in l : c.adm \in 1..Len(roll)
    BY DEF IsMixer
  <2>7. QED
    BY <2>1, <2>2, <2>3, <2>4, <2>5, <2>6
<1>5. QED
  BY <1>2, <1>3, <1>4

\* What is mixed further on is of the same admissions.
LEMMA OnwardsSame ==
    ASSUME NEW l, NEW n, NEW r, IsMixer(l, r)
    PROVE  \A d \in On(l, n) : \E c \in l : d.adm = c.adm
<1>1. \A c \in l : c \in [adm : 1..Len(r), at : Nat]
  BY DEF IsMixer
<1>2. \A c \in l : [c EXCEPT !.at = @ + n].adm = c.adm
  BY <1>1
<1>3. QED
  BY <1>2 DEF On

LEMMA OnceSkipped ==
    ASSUME TypeOK, NEW q, IsQueue(q), Once(q), SkipFrom(q)
    PROVE  /\ Once(queue') /\ Items(queue') \subseteq Items(q)
           /\ \A c \in live' : roll'[c.adm] \in Items(q) \ (Items(queue') \cup {Shutdown})
           /\ q = <<>> => queue' = <<>> /\ live' = {}
<1>1. CASE SkipNothing(q)
  BY <1>1 DEF SkipNothing, mixer
<1>2. CASE SkipToShutdown(q)
  <2>1. queue' = q /\ live' = {} /\ q # <<>>
    BY <1>2 DEF SkipToShutdown, NextIsShutdown
  <2>2. QED
    BY <2>1
<1>3. CASE SkipToNext(q)
  <2> DEFINE a == Admission(q, {})
             left == Forgotten(ring, Unheard)
  <2>1. IsMixer({}, roll)
    BY FS_EmptySet DEF IsMixer
  <2>2. /\ Once(a.queue) /\ Items(a.queue) \subseteq Items(q)
        /\ \A c \in a.live : a.roll[c.adm] \in Items(q) \ (Items(a.queue) \cup {Shutdown})
        /\ q = <<>> => a.queue = <<>> /\ a.live = {}
    BY <2>1, OnceAdmitted
  <2>3. IsMixer(a.live, a.roll)
    BY <2>1, AdmissionTyped
  <2>4. PICK n \in Decoded(left, a.live, a.roll) :
          queue' = a.queue /\ live' = On(a.live, n) /\ roll' = a.roll
    BY <1>3 DEF SkipToNext
  <2> HIDE DEF a, left
  <2>5. \A d \in live' : \E c \in a.live : d.adm = c.adm
    BY <2>3, <2>4, OnwardsSame
  <2>6. a.live = {} => live' = {}
    BY <2>5
  <2>7. QED
    BY <2>2, <2>4, <2>5, <2>6
<1>4. QED
  BY <1>1, <1>2, <1>3 DEF SkipFrom

-----------------------------------------------------------------------------
(* Each step keeps it.                                                      *)

Held == OnceEach /\ Silent

LEMMA OfferedAreNoShutdown ==
    ASSUME TypeOK, OnceEach, NEW p \in Passages, p \notin offered
    PROVE  p \notin Items(queue) /\ p # Shutdown
BY PassagesAssumption DEF OnceEach

\* A skip, from a queue that holds what waited and perhaps a newcomer.
LEMMA SkipHeld ==
    ASSUME TypeOK, Held, NEW q, IsQueue(q), Once(q), SkipFrom(q),
           offered \subseteq offered', Items(q) \subseteq offered' \cup {Shutdown},
           active = "guest" => FALSE, active' = active, pc # "down", pc' = pc,
           away' = away, disk' = disk
    PROVE  OnceEach'
<1>1. /\ Once(queue') /\ Items(queue') \subseteq Items(q)
      /\ \A c \in live' : roll'[c.adm] \in Items(q) \ (Items(queue') \cup {Shutdown})
  BY OnceSkipped
<1>2. Once(away') /\ Items(away') \subseteq offered'
  BY DEF Held, OnceEach
<1>3. /\ Once(disk'.queue) /\ Items(disk'.queue) \subseteq offered'
      /\ disk'.resume \in offered' \cup {Nobody}
  BY DEF Held, OnceEach
<1>5. QED
  BY <1>1, <1>2, <1>3 DEF OnceEach

\* An edit of what waits.
LEMMA EditHeld ==
    ASSUME TypeOK, Held, UNCHANGED <<live, roll, away, disk, active>>,
           pc' = "down" => pc = "down", active = "guest" => queue' = queue,
           offered \subseteq offered', Once(queue'),
           \/ Items(queue') \subseteq Items(queue)
           \/ \E p \in offered' \ offered : Items(queue') = Items(queue) \cup {p}
           \/ Items(queue') = Items(queue) \cup {Shutdown}
    PROVE  OnceEach'
<1>1. \A c \in live : roll[c.adm] \in Passages
  BY RollFacts DEF TypeOK, Contributions
<1>2. \A c \in live' : roll'[c.adm] \in offered' \ Items(queue')
  BY <1>1, PassagesAssumption DEF Held, OnceEach
<1>3. Items(queue') \subseteq offered' \cup {Shutdown}
  BY DEF Held, OnceEach
<1>4. Once(away') /\ Items(away') \subseteq offered'
  BY DEF Held, OnceEach
<1>5. /\ Once(disk'.queue) /\ Items(disk'.queue) \subseteq offered'
      /\ disk'.resume \in offered' \cup {Nobody}
  BY DEF Held, OnceEach
<1>7. QED
  BY <1>2, <1>3, <1>4, <1>5 DEF OnceEach

LEMMA StandsStill ==
    ASSUME TypeOK, Held, UNCHANGED <<queue, live, roll, away, disk, active, offered>>,
           pc' = "down" => pc = "down"
    PROVE  OnceEach'
BY EditHeld DEF Held, OnceEach

LEMMA CommandHeld ==
    ASSUME TypeOK, Held,
           \/ Play \/ Pause \/ Skip \/ EnqueueShutdown
           \/ \E p \in Passages : Enqueue(p) \/ EnqueueNext(p) \/ PlayNow(p)
           \/ \E i \in 1..(Cardinality(Passages) + 1) :
                 RemoveQueued(i) \/ \E delta \in {-1, 1} : ShiftQueued(i, delta)
    PROVE  OnceEach'
<1>0. /\ IsQueue(queue) /\ queue \in Seq(Passages \cup {Shutdown}) /\ Once(queue)
      /\ Items(queue) \subseteq offered \cup {Shutdown} /\ OnceEach
  BY DEF TypeOK, IsQueue, Held, OnceEach
<1>1. CASE Play \/ Pause
  BY <1>1, StandsStill DEF Play, Pause, mixer, handover, store, history
<1>2. CASE Skip
  <2>1. UNCHANGED <<away, disk, active, pc, offered>> /\ active = "local" /\ pc = "commands"
    BY <1>2 DEF Skip, Asking, handover, store
  <2>2. QED
    BY <1>0, <1>2, <2>1, SkipHeld DEF Skip
<1>3. CASE EnqueueShutdown
  <2>1. /\ queue' = Append(queue, Shutdown) /\ Shutdown \notin Items(queue)
        /\ active = "local" /\ pc = "commands"
        /\ UNCHANGED <<live, roll, away, disk, active, offered, pc>>
    BY <1>3 DEF EnqueueShutdown, Asking, Items, mixer, handover, store, history
  <2>2. Once(queue') /\ Items(queue') = Items(queue) \cup {Shutdown}
    BY <1>0, <2>1, OnceAppended
  <2>3. QED
    BY <2>1, <2>2, EditHeld
<1>4. ASSUME NEW p \in Passages, Enqueue(p) \/ EnqueueNext(p)
      PROVE  OnceEach'
  <2>1. /\ queue' = Append(queue, p) \/ queue' = <<p>> \o queue
        /\ active = "local" /\ pc = "commands"
        /\ p \notin offered /\ offered' = offered \cup {p}
        /\ UNCHANGED <<live, roll, away, disk, active, pc>>
    BY <1>4 DEF Enqueue, EnqueueNext, Asking, mixer, handover, store
  <2>2. p \notin Items(queue)
    BY <1>0, <2>1, OfferedAreNoShutdown
  <2>3. Once(queue') /\ Items(queue') = Items(queue) \cup {p}
    <3>1. /\ Once(Append(queue, p)) /\ Items(Append(queue, p)) = Items(queue) \cup {p}
          /\ Once(<<p>> \o queue) /\ Items(<<p>> \o queue) = Items(queue) \cup {p}
      BY <1>0, <2>2, OnceAppended
    <3>2. QED
      BY <2>1, <3>1
  <2>4. QED
    BY <2>1, <2>3, EditHeld
<1>5. ASSUME NEW p \in Passages, PlayNow(p)
      PROVE  OnceEach'
  <2> DEFINE q == <<p>> \o queue
  <2>1. /\ SkipFrom(q) /\ active = "local" /\ pc = "commands"
        /\ p \notin offered /\ offered' = offered \cup {p}
        /\ UNCHANGED <<away, disk, active, pc>>
    BY <1>5 DEF PlayNow, Asking, handover, store
  <2>2. p \notin Items(queue)
    BY <1>0, <2>1, OfferedAreNoShutdown
  <2>3. Once(q) /\ Items(q) = Items(queue) \cup {p} /\ IsQueue(q)
    BY <1>0, <2>2, OnceAppended, ArrivedTyped
  <2> HIDE DEF q
  <2>4. QED
    BY <1>0, <2>1, <2>3, SkipHeld
<1>6. ASSUME NEW i \in 1..(Cardinality(Passages) + 1), RemoveQueued(i)
      PROVE  OnceEach'
  <2>1. /\ queue' = Cut(queue, i) /\ i \in 1..Len(queue) /\ active = "local" /\ pc = "commands"
        /\ UNCHANGED <<live, roll, away, disk, active, offered, pc>>
    BY <1>6 DEF RemoveQueued, Asking, mixer, handover, store
  <2>2. Once(queue') /\ Items(queue') \subseteq Items(queue)
    BY <1>0, <2>1, OnceCut
  <2>3. QED
    BY <2>1, <2>2, EditHeld
<1>7. ASSUME NEW i \in 1..(Cardinality(Passages) + 1), NEW delta \in {-1, 1},
             ShiftQueued(i, delta)
      PROVE  OnceEach'
  <2> DEFINE to == ShiftedTo(queue, i, delta)
  <2>1. /\ queue' = Moved(queue, i, to) /\ i \in 1..Len(queue)
        /\ active = "local" /\ pc = "commands"
        /\ UNCHANGED <<live, roll, away, disk, active, offered, pc>>
    BY <1>7 DEF ShiftQueued, Asking, mixer, handover, store, history
  <2>2. Len(queue) \in Nat
    BY <1>0, QueueLength
  <2>3. to \in 1..Len(queue)
    BY <2>1, <2>2 DEF ShiftedTo, Clamp
  <2> HIDE DEF to
  <2>4. Once(queue') /\ Items(queue') \subseteq Items(queue)
    BY <1>0, <2>1, <2>3, OnceMoved
  <2>5. QED
    BY <2>1, <2>4, EditHeld
<1>8. QED
  BY <1>1, <1>2, <1>3, <1>4, <1>5, <1>6, <1>7

LEMMA GivingSame ==
    ASSUME NEW r, r \in Seq(Passages), NEW l, IsMixer(l, r)
    PROVE  \A d \in Giving(l, r) \cup Giving(On(Giving(l, r), 1), r) :
              \E c \in l : d.adm = c.adm
<1>1. IsMixer(Giving(l, r), r)
  BY GivingTyped
<1>2. \A d \in On(Giving(l, r), 1) : \E c \in Giving(l, r) : d.adm = c.adm
  BY <1>1, OnwardsSame
<1>3. /\ Giving(l, r) \subseteq l
      /\ Giving(On(Giving(l, r), 1), r) \subseteq On(Giving(l, r), 1)
  BY DEF Giving
<1>4. QED
  BY <1>2, <1>3

LEMMA MixHeld == ASSUME TypeOK, Held, Mix PROVE OnceEach'
<1> DEFINE a == Admission(queue, live)
           giving == Giving(a.live, a.roll)
           mixes == MixRoom /\ giving # {}
<1>0. /\ IsQueue(queue) /\ Once(queue) /\ Items(queue) \subseteq offered \cup {Shutdown}
      /\ IsMixer(live, roll)
  BY RollFacts DEF TypeOK, Held, OnceEach
<1>1. /\ IsQueue(a.queue) /\ Extends(a.roll) /\ IsMixer(a.live, a.roll)
  BY <1>0, AdmissionTyped
<1>2. /\ Once(a.queue) /\ Items(a.queue) \subseteq Items(queue)
      /\ \A c \in a.live :
            \/ c \in live /\ a.roll[c.adm] = roll[c.adm]
            \/ a.roll[c.adm] \in Items(queue) \ (Items(a.queue) \cup {Shutdown})
      /\ queue = <<>> => a.queue = <<>> /\ a.live = live
  BY <1>0, OnceAdmitted
<1>3. /\ queue' = IF BadHead(a) THEN Tail(a.queue) ELSE a.queue
      /\ roll' = a.roll
      /\ live' = Giving(IF mixes THEN On(giving, 1) ELSE giving, a.roll)
      /\ UNCHANGED <<away, disk, active, offered>> /\ pc' = "look"
  BY DEF Mix, handover, store
<1>4. BadHead(a) => a.queue # <<>>
  BY DEF BadHead
<1> HIDE DEF a
<1>5. Once(queue') /\ Items(queue') \subseteq Items(a.queue) /\ (a.queue = <<>> => queue' = <<>>)
  <2>1. CASE BadHead(a)
    <3>1. a.queue \in Seq(Passages \cup {Shutdown})
      BY <1>1 DEF IsQueue
    <3>2. QED
      BY <1>2, <1>3, <1>4, <2>1, <3>1, OnceTail
  <2>2. CASE ~BadHead(a)
    BY <1>2, <1>3, <2>2
  <2>3. QED
    BY <2>1, <2>2
<1>6. \A d \in live' : \E c \in a.live : d.adm = c.adm
  <2>1. a.roll \in Seq(Passages)
    BY <1>1 DEF Extends
  <2>2. \A d \in giving \cup Giving(On(giving, 1), a.roll) : \E c \in a.live : d.adm = c.adm
    BY <1>1, <2>1, GivingSame
  <2>3. live' \subseteq giving \cup Giving(On(giving, 1), a.roll)
    BY <1>3 DEF Giving
  <2>4. QED
    BY <2>2, <2>3
<1>7. \A d \in live' : roll'[d.adm] \in offered' \ Items(queue')
  <2> TAKE d \in live'
  <2>1. PICK c \in a.live : d.adm = c.adm
    BY <1>6
  <2>2. CASE c \in live /\ a.roll[c.adm] = roll[c.adm]
    <3>1. roll[c.adm] \in offered \ Items(queue)
      BY <2>2 DEF Held, OnceEach
    <3>2. QED
      BY <1>2, <1>3, <1>5, <2>1, <2>2, <3>1
  <2>3. CASE a.roll[c.adm] \in Items(queue) \ (Items(a.queue) \cup {Shutdown})
    BY <1>0, <1>3, <1>5, <2>1, <2>3
  <2>4. QED
    BY <1>2, <2>2, <2>3
<1>8. QED
  <2>1. /\ Once(away') /\ Items(away') \subseteq offered'
        /\ Once(disk'.queue) /\ Items(disk'.queue) \subseteq offered'
        /\ disk'.resume \in offered' \cup {Nobody}
    BY <1>3 DEF Held, OnceEach
  <2>2. Items(queue') \subseteq offered' \cup {Shutdown}
    BY <1>0, <1>2, <1>3, <1>5
  <2>3. QED
    BY <1>5, <1>7, <2>1, <2>2 DEF OnceEach

LEMMA ExecuteHeld == ASSUME TypeOK, Held, ExecuteShutdown PROVE OnceEach'
<1>1. /\ queue # <<>> /\ live = {} /\ live' = live /\ roll' = roll /\ queue' = Tail(queue)
      /\ UNCHANGED <<away, active, offered>> /\ pc' = "remember"
      /\ disk' = [disk EXCEPT !.resume = Nobody, !.at = 0, !.playing = TRUE,
                              !.queue = Without(queue', Shutdown)]
  BY DEF ExecuteShutdown, ShutdownDue, NextIsShutdown, mixer, handover, history
<1>2. queue \in Seq(Passages \cup {Shutdown}) /\ IsQueue(queue')
  BY <1>1, TailQueue DEF TypeOK, IsQueue
<1>3. Once(queue') /\ Items(queue') \subseteq Items(queue)
  BY <1>1, <1>2, OnceTail DEF Held, OnceEach
<1>4. Items(queue') \subseteq offered' \cup {Shutdown}
  BY <1>1, <1>3 DEF Held, OnceEach
<1>5. disk'.resume = Nobody /\ disk'.queue = Without(queue', Shutdown)
  BY <1>1 DEF TypeOK, Columns
<1>6. Once(disk'.queue) /\ Items(disk'.queue) \subseteq offered'
  <2>1. queue' \in Seq(Passages \cup {Shutdown})
    BY <1>2 DEF IsQueue
  <2>2. /\ Once(Without(queue', Shutdown))
        /\ Items(Without(queue', Shutdown)) \subseteq Items(queue') \ {Shutdown}
    BY <1>3, <2>1, OnceWithout
  <2>3. QED
    BY <1>4, <1>5, <2>2
<1>7. QED
  BY <1>1, <1>3, <1>4, <1>5, <1>6 DEF Held, OnceEach

LEMMA ForemostHeld == ASSUME TypeOK, Held PROVE Foremost \in (offered \ Items(queue)) \cup {Nobody}
<1>1. CASE live = {}
  BY <1>1 DEF Foremost
<1>2. CASE live # {}
  <2>1. Eldest(live) \in live
    BY <1>2, ForemostTyped
  <2>2. QED
    BY <1>2, <2>1 DEF Foremost, Held, OnceEach
<1>3. QED
  BY <1>1, <1>2

LEMMA PersistHeld == ASSUME TypeOK, Held, Persist PROVE OnceEach'
<1>1. /\ UNCHANGED <<queue, live, roll, away, active, offered>> /\ pc' = "remember"
      /\ disk' = disk \/ \E at : disk' = [disk EXCEPT !.resume = Foremost, !.playing = playing,
                                                      !.at = at]
  BY DEF Persist, mixer, handover, history
<1>2. CASE disk' = disk
  BY <1>1, <1>2, StandsStill
<1>3. CASE disk' # disk
  <2>1. disk'.resume = Foremost /\ disk'.queue = disk.queue
    BY <1>1, <1>3 DEF TypeOK, Columns
  <2>2. QED
    BY <1>1, <2>1, ForemostHeld DEF Held, OnceEach
<1>4. QED
  BY <1>2, <1>3

\* What is remembered of a queue.
LEMMA RememberedHeld ==
    ASSUME NEW q, IsQueue(q), Once(q), Items(q) \subseteq offered' \cup {Shutdown}
    PROVE  /\ Once(Without(q, Shutdown)) /\ Items(Without(q, Shutdown)) \subseteq offered'
           /\ Items(Without(q, Shutdown)) \subseteq Items(q)
<1>1. q \in Seq(Passages \cup {Shutdown})
  BY DEF IsQueue
<1>2. Once(Without(q, Shutdown)) /\ Items(Without(q, Shutdown)) \subseteq Items(q) \ {Shutdown}
  BY <1>1, OnceWithout
<1>3. QED
  BY <1>2

(* What a refill adds to the queue was never offered before.               *)
LEMMA RefillAdds ==
    ASSUME TypeOK, Held, Refill
    PROVE  /\ active = "guest" => queue' = queue
           /\ Once(queue') /\ offered \subseteq offered' /\ IsQueue(queue')
           /\ \/ Items(queue') = Items(queue) /\ offered' = offered
              \/ \E p \in Passages \ offered :
                    /\ active = "local" /\ Items(queue') = Items(queue) \cup {p}
                    /\ offered' = offered \cup {p}
<1>1. /\ IsQueue(queue) /\ queue \in Seq(Passages \cup {Shutdown}) /\ Once(queue)
      /\ Items(queue) \subseteq offered \cup {Shutdown} /\ OnceEach
  BY DEF TypeOK, IsQueue, Held, OnceEach
<1>2. \/ queue' = queue /\ offered' = offered
      \/ \E p \in Passages \ offered :
            queue' = queue \o <<p>> /\ offered' = offered \cup {p} /\ active = "local"
  <2>1. PICK picks \in (IF active = "local" THEN Picks ELSE {<<>>}) :
           /\ queue' = queue \o picks
           /\ offered' = offered \cup {picks[i] : i \in 1..Len(picks)}
    BY DEF Refill
  <2>2. CASE picks = <<>>
    <3>1. queue \o <<>> = queue
      BY <1>1, ConcatEmptySeq
    <3>2. {picks[i] : i \in 1..Len(picks)} = {}
      BY <2>2, OnceEmpty DEF Items
    <3>3. QED
      BY <2>1, <2>2, <3>1, <3>2
  <2>3. CASE picks # <<>>
    <3>1. active = "local" /\ \E p \in Passages \ offered : picks = <<p>>
      BY <2>1, <2>3 DEF Picks
    <3>2. PICK p \in Passages \ offered : picks = <<p>>
      BY <3>1
    <3>3. {picks[i] : i \in 1..Len(picks)} = {p}
      BY <3>2, OnceSingle DEF Items
    <3>4. QED
      BY <2>1, <3>1, <3>2, <3>3
  <2>4. QED
    BY <2>2, <2>3
<1>3. /\ Once(queue') /\ offered \subseteq offered' /\ IsQueue(queue')
      /\ \/ Items(queue') = Items(queue) /\ offered' = offered
         \/ \E p \in Passages \ offered :
               /\ active = "local" /\ Items(queue') = Items(queue) \cup {p}
               /\ offered' = offered \cup {p}
  <2>1. CASE queue' = queue /\ offered' = offered
    BY <1>1, <2>1
  <2>2. ASSUME NEW p \in Passages \ offered, queue' = queue \o <<p>>,
               offered' = offered \cup {p}, active = "local"
        PROVE  /\ Once(queue') /\ offered \subseteq offered' /\ IsQueue(queue')
               /\ Items(queue') = Items(queue) \cup {p}
    <3>1. p \notin Items(queue)
      BY <1>1, OfferedAreNoShutdown
    <3>2. Append(queue, p) = queue \o <<p>>
      BY <1>1, AppendIsConcat
    <3>3. /\ Once(Append(queue, p)) /\ Items(Append(queue, p)) = Items(queue) \cup {p}
      BY <1>1, <3>1, OnceAppended
    <3>4. IsQueue(Append(queue, p))
      BY ArrivedTyped
    <3>5. QED
      BY <2>2, <3>2, <3>3, <3>4
  <2>3. QED
    BY <1>2, <2>1, <2>2
<1>4. QED
  BY <1>2, <1>3

LEMMA RefillHeld == ASSUME TypeOK, Held, Refill PROVE OnceEach'
<1>0. /\ IsQueue(queue) /\ queue \in Seq(Passages \cup {Shutdown}) /\ Once(queue)
      /\ Items(queue) \subseteq offered \cup {Shutdown} /\ OnceEach
  BY DEF TypeOK, IsQueue, Held, OnceEach
<1>1. /\ UNCHANGED <<live, roll, away, active>> /\ pc' = "commands"
      /\ disk' = [disk EXCEPT !.queue = IF active = "local" THEN Without(queue', Shutdown)
                                        ELSE SubSeq(away, 2, Len(away))]
  BY DEF Refill, mixer, handover
<1>2. /\ active = "guest" => queue' = queue
      /\ Once(queue') /\ offered \subseteq offered' /\ IsQueue(queue')
      /\ \/ Items(queue') = Items(queue)
         \/ \E p \in offered' \ offered : p \in Passages /\ Items(queue') = Items(queue) \cup {p}
  BY RefillAdds
<1>5. \A c \in live' : roll'[c.adm] \in offered' \ Items(queue')
  BY <1>1, <1>2 DEF OnceEach, Held
<1>6. Items(queue') \subseteq offered' \cup {Shutdown}
  BY <1>0, <1>2
<1>7. Once(disk'.queue) /\ Items(disk'.queue) \subseteq offered' /\ disk'.resume = disk.resume
  <2>1. /\ disk'.resume = disk.resume
        /\ disk'.queue = IF active = "local" THEN Without(queue', Shutdown)
                         ELSE SubSeq(away, 2, Len(away))
    BY <1>1 DEF TypeOK, Columns
  <2>2. CASE active = "local"
    BY <1>2, <1>6, <2>1, <2>2, RememberedHeld
  <2>3. CASE active # "local"
    <3>1. /\ away \in Seq(Passages) /\ Len(away) \in Nat /\ Once(away)
          /\ Items(away) \subseteq offered'
      BY <1>0, <1>2, LenProperties DEF TypeOK, OnceEach
    <3>2. CASE Len(away) < 2
      <4>1. SubSeq(away, 2, Len(away)) = <<>>
        BY <3>1, <3>2, SubSeqEmpty
      <4>2. QED
        BY <2>1, <2>3, <4>1, OnceEmpty
    <3>3. CASE Len(away) >= 2
      <4>1. 2 \in 1..Len(away)
        BY <3>1, <3>3
      <4>2. /\ Once(SubSeq(away, 2, Len(away)))
            /\ Items(SubSeq(away, 2, Len(away))) \subseteq Items(away)
        BY <3>1, <4>1, OnceSuffix
      <4>3. QED
        BY <2>1, <2>3, <3>1, <4>2
    <3>4. QED
      BY <3>1, <3>2, <3>3
  <2>4. QED
    BY <2>2, <2>3
<1>8. QED
  BY <1>0, <1>1, <1>2, <1>5, <1>6, <1>7 DEF OnceEach

LEMMA HandOffHeld == ASSUME TypeOK, Held, HandOff PROVE OnceEach'
<1> DEFINE first == IF live = {} THEN <<>> ELSE <<Foremost>>
<1>0. /\ queue \in Seq(Passages \cup {Shutdown}) /\ IsQueue(queue) /\ Once(queue)
      /\ Items(queue) \subseteq offered' \cup {Shutdown} /\ offered' = offered
  BY DEF TypeOK, IsQueue, Held, OnceEach, HandOff
<1>1. /\ SkipFrom(<<>>) /\ active' = "guest" /\ pc' = "commands"
      /\ away' = first \o Without(queue, Shutdown)
      /\ disk' = [disk EXCEPT !.queue = Without(queue, Shutdown)]
  BY DEF HandOff
<1>2. queue' = <<>> /\ live' = {}
  <2>1. IsQueue(<<>>) /\ Once(<<>>)
    BY NothingTyped, OnceEmpty
  <2>2. QED
    BY <1>1, <2>1, OnceSkipped
<1>3. /\ Once(Without(queue, Shutdown)) /\ Items(Without(queue, Shutdown)) \subseteq offered'
      /\ Items(Without(queue, Shutdown)) \subseteq Items(queue)
      /\ Without(queue, Shutdown) \in Seq(Passages)
  BY <1>0, RememberedHeld, WithoutShutdown
<1>4. /\ Once(first) /\ Items(first) \subseteq offered \ Items(queue)
      /\ first \in Seq(offered)
  <2>1. CASE live = {}
    BY <2>1, OnceEmpty, EmptySeq
  <2>2. CASE live # {}
    <3>1. Foremost \in offered \ Items(queue)
      <4>1. Eldest(live) \in live
        BY <2>2, ForemostTyped
      <4>2. QED
        BY <2>2, <4>1 DEF Foremost, Held, OnceEach
    <3>2. <<Foremost>> \in Seq({Foremost}) /\ Once(<<Foremost>>) /\ Items(<<Foremost>>) = {Foremost}
      BY OnceSingle
    <3>3. <<Foremost>> \in Seq(offered)
      BY <3>1
    <3>4. QED
      BY <2>2, <3>1, <3>2, <3>3
  <2>3. QED
    BY <2>1, <2>2
<1> HIDE DEF first
<1>5. Once(away') /\ Items(away') \subseteq offered'
  <2>1. Items(first) \cap Items(Without(queue, Shutdown)) = {}
    BY <1>3, <1>4
  <2>2. /\ Once(first \o Without(queue, Shutdown))
        /\ Items(first \o Without(queue, Shutdown))
              = Items(first) \cup Items(Without(queue, Shutdown))
    BY <1>3, <1>4, <2>1, OnceJoined
  <2>3. QED
    BY <1>0, <1>1, <1>3, <1>4, <2>2
<1>6. disk'.queue = Without(queue, Shutdown) /\ disk'.resume = disk.resume
  BY <1>1 DEF TypeOK, Columns
<1>7. disk'.resume \in offered' \cup {Nobody}
  BY <1>0, <1>6 DEF Held, OnceEach
<1>8. QED
  BY <1>2, <1>3, <1>5, <1>6, <1>7, OnceEmpty DEF OnceEach

\* What is handed back is the end of what was handed over.
LEMMA BackFromAway ==
    ASSUME TypeOK, Held, NEW k, NEW at, HandBack(k, at)
    PROVE  /\ live = {} /\ IsQueue(queue') /\ Once(queue') /\ Items(queue') \subseteq Items(away)
<1> DEFINE rest == SubSeq(away, k, Len(away))
<1>1. queue = <<>> /\ live = {} /\ queue' = queue \o rest /\ k \in 1..Len(away)
  BY DEF HandBack, Held, Silent
<1>2. away \in Seq(Passages) /\ Once(away) /\ Len(away) \in Nat
  BY LenProperties DEF TypeOK, Held, OnceEach
<1>3. /\ Once(rest) /\ Items(rest) \subseteq Items(away)
      /\ rest \in Seq(Passages)
  BY <1>1, <1>2, OnceSuffix
<1> HIDE DEF rest
<1>4. <<>> \o rest = rest
  BY <1>3, ConcatEmptySeq
<1>5. queue' = rest
  BY <1>1, <1>4
<1>6. IsQueue(rest)
  BY <1>3, PassagesQueue
<1>7. QED
  BY <1>1, <1>3, <1>5, <1>6

LEMMA HandBackHeld == ASSUME TypeOK, Held, NEW k, NEW at, HandBack(k, at) PROVE OnceEach'
<1>1. /\ live = {} /\ IsQueue(queue') /\ Once(queue') /\ Items(queue') \subseteq Items(away)
  BY BackFromAway
<1>2. /\ UNCHANGED <<live, roll, offered>> /\ away' = <<>> /\ active' = "local"
      /\ pc' = "commands" /\ disk' = [disk EXCEPT !.queue = Without(queue', Shutdown)]
  BY DEF HandBack
<1>3. Items(queue') \subseteq offered'
  BY <1>1, <1>2 DEF Held, OnceEach
<1>4. Once(Without(queue', Shutdown)) /\ Items(Without(queue', Shutdown)) \subseteq offered'
  BY <1>1, <1>3, RememberedHeld
<1>5. disk'.queue = Without(queue', Shutdown) /\ disk'.resume = disk.resume
  BY <1>2 DEF TypeOK, Columns
<1>6. disk'.resume \in offered' \cup {Nobody}
  BY <1>2, <1>5 DEF Held, OnceEach
<1>7. QED
  BY <1>1, <1>2, <1>3, <1>4, <1>5, <1>6, OnceEmpty DEF OnceEach

LEMMA LookHeld ==
    ASSUME TypeOK, Held, LookPaused \/ LookDeparted \/ LookOn \/ Show \/ DeviceTakes
    PROVE  OnceEach'
<1>1. UNCHANGED <<queue, live, roll, away, disk, active, offered>>
  BY DEF LookPaused, LookDeparted, LookOn, Show, DeviceTakes, mixer, handover, store, history
<1>2. pc' = "down" => pc = "down"
  BY DEF LookPaused, LookDeparted, LookOn, Show, DeviceTakes
<1>3. QED
  BY <1>1, <1>2, StandsStill

LEMMA CrashHeld == ASSUME TypeOK, Held, Crash PROVE OnceEach'
<1>1. /\ queue' = <<>> /\ live' = {} /\ away' = <<>> /\ active' = "local"
      /\ UNCHANGED <<disk, offered>>
  BY DEF Crash
<1>2. QED
  BY <1>1, OnceEmpty DEF Held, OnceEach

\* A start puts nothing in the queue twice.
LEMMA StartedHeld ==
    ASSUME TypeOK, Held, Prime
    PROVE  Once(queue') /\ Items(queue') \subseteq offered
<1> DEFINE guarded == disk.playing /\ First[1] # Nobody
           drops == guarded /\ Tries >= 2
           resumes == disk.resume # Nobody /\ ~drops
           dealtWith == IF drops THEN First[1] ELSE disk.resume
           rest == Without(disk.queue, dealtWith)
<1>1. /\ queue' = (IF resumes THEN <<disk.resume>> ELSE <<>>) \o rest
      BY DEF Prime, Restored
<1>2. disk.queue \in Seq(Passages) /\ Once(disk.queue) /\ Items(disk.queue) \subseteq offered
  BY DEF TypeOK, Columns, Held, OnceEach
<1>3. Once(rest) /\ Items(rest) \subseteq Items(disk.queue) \ {dealtWith}
  BY <1>2, OnceWithout
<1>4. rest \in Seq(Passages)
  BY <1>2, WithoutPassage
<1>5. resumes => dealtWith = disk.resume /\ disk.resume \in offered /\ disk.resume \in Passages
  BY DEF Held, OnceEach, TypeOK
<1> HIDE DEF rest, dealtWith, resumes
<1>6. CASE resumes
  <2> DEFINE one == <<disk.resume>>
  <2>1. /\ one \in Seq({disk.resume}) /\ Once(one) /\ Items(one) = {disk.resume}
    BY OnceSingle
  <2> HIDE DEF one
  <2>2. Items(one) \cap Items(rest) = {}
    BY <1>3, <1>5, <1>6, <2>1
  <2>3. Once(one \o rest) /\ Items(one \o rest) = Items(one) \cup Items(rest)
    BY <1>3, <1>4, <2>1, <2>2, OnceJoined
  <2>4. queue' = one \o rest
    BY <1>1, <1>6 DEF one
  <2>5. QED
    BY <1>2, <1>3, <1>5, <1>6, <2>1, <2>3, <2>4
<1>7. CASE ~resumes
  <2>1. <<>> \o rest = rest
    BY <1>4, ConcatEmptySeq
  <2>2. QED
    BY <1>1, <1>2, <1>3, <1>7, <2>1
<1>8. QED
  BY <1>6, <1>7

LEMMA PrimeHeld == ASSUME TypeOK, Held, Prime PROVE OnceEach'
<1>1. /\ live = {} /\ active = "local" /\ pc' = "remember"
      /\ UNCHANGED <<live, roll, away, active, offered>>
  BY DEF Prime, Held, Silent, mixer, handover
<1>2. disk'.resume = disk.resume /\ disk'.queue = disk.queue
  <2>1. \/ disk' = disk
        \/ disk' = [disk EXCEPT !.tried = First[1], !.triedAt = First[2], !.tries = Tries]
    BY DEF Prime
  <2>2. QED
    BY <2>1 DEF TypeOK, Columns
<1>3. Once(queue') /\ Items(queue') \subseteq offered
  BY StartedHeld
<1>4. QED
  BY <1>1, <1>2, <1>3 DEF Held, OnceEach

LEMMA NextHeld == ASSUME "seek" \notin Asks, TypeOK, Held, [Next]_vars PROVE Held'
<1> SUFFICES OnceEach'
  BY NextSilent DEF Held
<1>1. CASE UNCHANGED vars
  BY <1>1, StandsStill DEF vars, mixer, handover, store, history
<1>2. CASE \/ Play \/ Pause \/ Skip \/ EnqueueShutdown
           \/ \E p \in Passages : Enqueue(p) \/ EnqueueNext(p) \/ PlayNow(p)
           \/ \E i \in 1..(Cardinality(Passages) + 1) :
                 RemoveQueued(i) \/ \E delta \in {-1, 1} : ShiftQueued(i, delta)
  BY <1>2, CommandHeld
<1>3. CASE HandOff
  BY <1>3, HandOffHeld
<1>4. CASE \E at \in SeekPoints :
              Seek(at) \/ \E k \in 1..Cardinality(Passages) : HandBack(k, at)
  <2>1. ~ \E at \in SeekPoints : Seek(at)
    BY DEF Seek
  <2>2. QED
    BY <1>4, <2>1, HandBackHeld
<1>5. CASE Pass
  BY <1>5, MixHeld, LookHeld, ExecuteHeld, PersistHeld, RefillHeld DEF Pass
<1>6. CASE DeviceTakes \/ Crash \/ Prime
  BY <1>6, LookHeld, CrashHeld, PrimeHeld
<1>7. QED
  BY <1>1, <1>2, <1>3, <1>4, <1>5, <1>6 DEF Next

LEMMA InitHeld == ASSUME Init PROVE Held
<1>1. /\ queue = <<>> /\ live = {} /\ away = <<>> /\ disk.queue = <<>> /\ disk.resume = Nobody
      /\ pc = "commands" /\ active = "local"
  BY DEF Init, NoDisk
<1>2. OnceEach
  BY <1>1, OnceEmpty DEF OnceEach
<1>3. Silent
  BY <1>1 DEF Silent
<1>4. QED
  BY <1>2, <1>3 DEF Held

(* A restart puts nothing in the queue twice, though the disk names the    *)
(* passage on air in two places if the power went between the two writes   *)
(* of a pass, and neither does anything else but a seek: what skips, edits *)
(* and handovers carry about is in one place (Session::prime).  A seek     *)
(* made while a crossfade longer than the ring is under way is the         *)
(* exception: the passage on screen may be queued again and mixed.         *)
THEOREM NothingIsQueuedTwice ==
    ASSUME "seek" \notin Asks
    PROVE  Spec => []NothingPlaysTwice
<1>1. Init => TypeOK /\ Held
  BY InitShape, InitHeld
<1>2. TypeOK /\ Held /\ [Next]_vars => TypeOK' /\ Held'
  BY NextKeepsShape, NextHeld
<1>3. Held => NothingPlaysTwice
  BY DEF Held, OnceEach, Once, NothingPlaysTwice
<1>4. QED
  BY <1>1, <1>2, <1>3, PTL DEF Spec
-----------------------------------------------------------------------------
(* A saved position opens the passage it was saved for.                     *)

\* The passage a pending resume is meant for is the next to be admitted: a
\* resume is pending only until the next pass mixes.
Pending == pendingResume # Nowhere /\ active = "local"

Resuming ==
    /\ Pending => /\ queue # <<>> /\ Head(queue) = resumeFor /\ resumeFor \in Passages
                  /\ live = {} /\ pc \in {"commands", "remember"}
                  /\ pc = "remember" => shown = 0
    /\ pc = "down" => shown = 0

\* No command puts anything before the passage to be resumed, or takes it away.
FrontLeftAlone == Asks \cap {"next", "now", "remove", "shift"} = {}

\* What a step may do to a pending resume.
Resumed ==
    pendingResume # Nowhere /\ pendingResume' = Nowhere /\ pc' # "down"
        => Len(roll') = Len(roll) \/ roll'[Len(roll')] = resumeFor

\* With nothing mixing a skip only leaves the queue as it was put.
LEMMA NothingToSkip ==
    ASSUME live = {}, NEW q, SkipFrom(q)
    PROVE  queue' = q /\ UNCHANGED <<live, roll, pendingResume, shown>>
BY DEF SkipFrom, SkipNothing, SkipToShutdown, SkipToNext, mixer, display

LEMMA HeadOfJoined ==
    ASSUME NEW S, NEW q \in Seq(S), NEW r \in Seq(S), q # <<>>
    PROVE  q \o r # <<>> /\ Head(q \o r) = Head(q)
<1>1. Len(q) \in Nat /\ Len(q) > 0 /\ Len(r) \in Nat
  BY LenProperties, EmptySeq
<1>2. /\ q \o r \in Seq(S) /\ Len(q \o r) = Len(q) + Len(r)
      /\ \A i \in 1..(Len(q) + Len(r)) : (q \o r)[i] = IF i <= Len(q) THEN q[i] ELSE r[i - Len(q)]
  BY ConcatProperties
<1>3. 1 \in 1..(Len(q) + Len(r)) /\ 1 <= Len(q)
  BY <1>1
<1>4. (q \o r)[1] = q[1]
  BY <1>2, <1>3
<1>5. q \o r # <<>>
  BY <1>1, <1>2, EmptySeq
<1>6. QED
  BY <1>4, <1>5

LEMMA PartOfSeq ==
    ASSUME NEW S, NEW q \in Seq(S), NEW k \in 1..Len(q)
    PROVE  LET r == SubSeq(q, k, Len(q))
           IN  r \in Seq(S) /\ r # <<>> /\ Head(r) = q[k] /\ q[k] \in S
<1> DEFINE r == SubSeq(q, k, Len(q))
<1>1. Len(q) \in Nat /\ Len(q) \in k..Len(q) /\ k \in Int /\ Len(q) \in Int
  BY LenProperties
<1>2. \A i \in k..Len(q) : q[i] \in S
  BY <1>1, ElementOfSeq
<1>3. r \in Seq(S) /\ Len(r) = IF k <= Len(q) THEN Len(q) - k + 1 ELSE 0
  BY <1>1, <1>2, SubSeqProperties
<1>4. Len(r) > 0
  BY <1>1, <1>3
<1> HIDE DEF r
<1>5. r # <<>>
  BY <1>3, <1>4, EmptySeq
<1> USE DEF r
<1>6. Head(r) = q[k]
  BY <1>1, HeadTailOfSubSeq
<1>7. QED
  BY <1>1, <1>2, <1>3, <1>5, <1>6

\* A start puts what it resumes in front.
LEMMA StartsWithResumed ==
    ASSUME TypeOK, Prime
    PROVE  pendingResume' # Nowhere =>
              queue' # <<>> /\ Head(queue') = resumeFor' /\ resumeFor' \in Passages
<1> DEFINE guarded == disk.playing /\ First[1] # Nobody
           drops == guarded /\ Tries >= 2
           resumes == disk.resume # Nobody /\ ~drops
           dealtWith == IF drops THEN First[1] ELSE disk.resume
           rest == Without(disk.queue, dealtWith)
           one == <<disk.resume>>
<1>1. /\ queue' = (IF resumes THEN one ELSE <<>>) \o rest
      /\ pendingResume' = IF resumes THEN disk.at ELSE Nowhere
      /\ resumeFor' = IF resumes THEN disk.resume ELSE Nobody
  BY DEF Prime, Restored
<1>2. disk.queue \in Seq(Passages) /\ disk.resume \in Passages \cup {Nobody}
  BY DEF TypeOK, Columns
<1>3. rest \in Seq(Passages)
  BY <1>2, WithoutPassage
<1>4. resumes => disk.resume \in Passages
  BY <1>2
<1> HIDE DEF rest, resumes
<1>5. CASE resumes
  <2>1. one \in Seq(Passages) /\ one # <<>> /\ Head(one) = disk.resume
    BY <1>4, <1>5
  <2> HIDE DEF one
  <2>2. one \o rest # <<>> /\ Head(one \o rest) = Head(one)
    BY <1>3, <2>1, HeadOfJoined
  <2>3. QED
    BY <1>1, <1>4, <1>5, <2>1, <2>2
<1>6. CASE ~resumes
  BY <1>1, <1>6
<1>7. QED
  BY <1>5, <1>6

\* Nothing is pending, and nothing comes to be.
LEMMA NoneComes ==
    ASSUME ~Pending, pendingResume' = pendingResume, active' = active,
           pc' = "down" => pc = "down" /\ shown' = shown, Resuming
    PROVE  Resuming' /\ Resumed
BY DEF Pending, Resuming, Resumed

\* More is put behind what waits.
LEMMA MoreBehind ==
    ASSUME TypeOK, Resuming, pc' \in {"commands", "remember"},
           UNCHANGED <<live, roll, pendingResume, active, resumeFor, shown>>,
           pc' = "commands" \/ pc' = pc,
           NEW r \in Seq(Passages \cup {Shutdown}), queue' = queue \o r,
           Pending => pc \in {"commands", "remember"}
    PROVE  Resuming' /\ Resumed
<1>1. queue \in Seq(Passages \cup {Shutdown})
  BY DEF TypeOK, IsQueue
<1>2. CASE Pending
  <2>1. queue # <<>> /\ Head(queue) = resumeFor /\ resumeFor \in Passages /\ live = {}
        /\ (pc = "remember" => shown = 0)
    BY <1>2 DEF Resuming
  <2>2. queue' # <<>> /\ Head(queue') = Head(queue)
    BY <1>1, <2>1, HeadOfJoined
  <2>3. QED
    BY <2>1, <2>2 DEF Resuming, Resumed
<1>3. CASE ~Pending
  BY <1>3, NoneComes
<1>4. QED
  BY <1>2, <1>3

LEMMA MixResumes ==
    ASSUME TypeOK, Silent, Resuming, Mix
    PROVE  Resuming' /\ Resumed
<1> DEFINE a == Admission(queue, live)
<1>1. /\ pendingResume' = a.resume /\ roll' = a.roll /\ active' = active /\ pc' = "look"
  BY DEF Mix, handover
<1>2. CASE Pending
  <2>1. queue # <<>> /\ Head(queue) = resumeFor /\ resumeFor \in Passages /\ live = {}
    BY <1>2 DEF Resuming
  <2>2. Due(queue, live)
    BY <2>1, PassagesAssumption DEF Due, MayFollow
  <2>3. a.resume = Nowhere /\ (a.roll = roll \/ a.roll = Append(roll, resumeFor))
    BY <2>1, <2>2 DEF Admission
  <2>4. CASE a.roll = roll
    BY <1>1, <2>3, <2>4 DEF Resuming, Pending, Resumed
  <2>5. CASE a.roll = Append(roll, resumeFor)
    <3>1. roll \in Seq(Passages) /\ Len(roll) \in Nat
      BY LenProperties DEF TypeOK
    <3>2. roll'[Len(roll')] = resumeFor
      BY <1>1, <2>1, <2>5, <3>1, AppendProperties
    <3>3. QED
      BY <1>1, <2>3, <3>2 DEF Resuming, Pending, Resumed
  <2>6. QED
    BY <2>3, <2>4, <2>5
<1>3. CASE active = "guest"
  <2>1. pendingResume' = pendingResume
    BY <1>3, MixOfNothing DEF Silent
  <2>2. QED
    BY <1>1, <1>3, <2>1 DEF Resuming, Pending, Resumed
<1>4. CASE ~Pending /\ active = "local"
  <2>1. pendingResume = Nowhere
    BY <1>4 DEF Pending
  <2>2. a.resume = Nowhere
    BY <2>1 DEF Admission
  <2>3. QED
    BY <1>1, <2>1, <2>2 DEF Resuming, Pending, Resumed
<1>5. QED
  BY <1>2, <1>3, <1>4 DEF Silent

LEMMA SkipResumes ==
    ASSUME Resuming, active = "local", pc = "commands", pc' = pc, active' = active,
           resumeFor' = resumeFor, SkipFrom(queue)
    PROVE  Resuming' /\ Resumed
<1>1. CASE Pending
  <2>1. live = {}
    BY <1>1 DEF Resuming
  <2>2. UNCHANGED <<queue, live, roll, pendingResume>>
    BY <2>1, NothingToSkip
  <2>3. QED
    BY <2>2 DEF Resuming, Pending, Resumed
<1>2. CASE ~Pending
  <2>1. pendingResume = Nowhere
    BY <1>2 DEF Pending
  <2>2. Admission(queue, {}).resume = Nowhere
    BY <2>1 DEF Admission
  <2>3. pendingResume' = Nowhere
    BY <2>1, <2>2 DEF SkipFrom, SkipNothing, SkipToShutdown, SkipToNext, mixer
  <2>4. QED
    BY <2>1, <2>3 DEF Resuming, Pending, Resumed
<1>3. QED
  BY <1>1, <1>2

LEMMA CommandsResume ==
    ASSUME FrontLeftAlone, TypeOK, Resuming,
           \/ Play \/ Pause \/ Skip \/ EnqueueShutdown
           \/ \E p \in Passages : Enqueue(p) \/ EnqueueNext(p) \/ PlayNow(p)
           \/ \E i \in 1..(Cardinality(Passages) + 1) :
                 RemoveQueued(i) \/ \E delta \in {-1, 1} : ShiftQueued(i, delta)
    PROVE  Resuming' /\ Resumed
<1>1. CASE Play \/ Pause
  <2>1. UNCHANGED <<pc, queue, live, roll, pendingResume, active, resumeFor, shown>>
    BY <1>1 DEF Play, Pause, mixer, handover, history, display
  <2>2. QED
    BY <2>1 DEF Resuming, Pending, Resumed
<1>2. CASE Skip
  BY <1>2, SkipResumes DEF Skip, Asking, handover
<1>3. CASE EnqueueShutdown \/ \E p \in Passages : Enqueue(p)
  <2>1. /\ UNCHANGED <<pc, live, roll, pendingResume, active, resumeFor, shown>>
        /\ pc = "commands" /\ \E x \in Passages \cup {Shutdown} : queue' = Append(queue, x)
    BY <1>3 DEF EnqueueShutdown, Enqueue, Asking, mixer, handover, history, display
  <2>2. PICK x \in Passages \cup {Shutdown} : queue' = Append(queue, x)
    BY <2>1
  <2> DEFINE r == <<x>>
  <2>3. r \in Seq(Passages \cup {Shutdown}) /\ queue' = queue \o r
    <3>1. queue \in Seq(Passages \cup {Shutdown})
      BY DEF TypeOK, IsQueue
    <3>2. Append(queue, x) = queue \o <<x>>
      BY <3>1, AppendIsConcat
    <3>3. QED
      BY <2>2, <3>2
  <2> HIDE DEF r
  <2>4. QED
    BY <2>1, <2>3, MoreBehind
<1>4. ~ \E p \in Passages : EnqueueNext(p) \/ PlayNow(p)
  BY DEF FrontLeftAlone, EnqueueNext, PlayNow, Asking
<1>5. ~ \E i \in 1..(Cardinality(Passages) + 1) :
           RemoveQueued(i) \/ \E delta \in {-1, 1} : ShiftQueued(i, delta)
  BY DEF FrontLeftAlone, RemoveQueued, ShiftQueued, Asking
<1>6. QED
  BY <1>1, <1>2, <1>3, <1>4, <1>5

LEMMA HandoverResumes ==
    ASSUME TypeOK, Silent, Resuming,
           \/ HandOff
           \/ \E at \in SeekPoints :
                 Seek(at) \/ \E k \in 1..Cardinality(Passages) : HandBack(k, at)
    PROVE  Resuming' /\ Resumed
<1>1. CASE HandOff
  <2>1. active = "local" /\ active' = "guest" /\ pc' = "commands" /\ SkipFrom(<<>>)
    BY <1>1 DEF HandOff
  <2>2. Pending => roll' = roll
    BY <2>1, NothingToSkip DEF Resuming
  <2>3. QED
    BY <2>1, <2>2 DEF Resuming, Pending, Resumed
<1>2. ASSUME NEW at \in SeekPoints, Seek(at) PROVE Resuming' /\ Resumed
  <2>1. ~Pending
    BY <1>2 DEF Seek, Resuming
  <2>2. pendingResume' = pendingResume /\ active' = active /\ pc' = pc /\ pc = "remember"
    BY <1>2 DEF Seek, handover
  <2>3. QED
    BY <2>1, <2>2, NoneComes
<1>3. ASSUME NEW at \in SeekPoints, NEW k \in 1..Cardinality(Passages), HandBack(k, at)
      PROVE  Resuming' /\ Resumed
  <2> DEFINE rest == SubSeq(away, k, Len(away))
  <2>1. /\ queue = <<>> /\ live = {} /\ live' = live /\ roll' = roll /\ pc' = "commands"
        /\ queue' = queue \o rest /\ k \in 1..Len(away) /\ resumeFor' = away[k]
        /\ pendingResume' = at
    BY <1>3 DEF HandBack, Silent
  <2>2. away \in Seq(Passages) /\ Len(away) \in Nat
    BY LenProperties DEF TypeOK
  <2>3. rest \in Seq(Passages) /\ rest # <<>> /\ Head(rest) = away[k] /\ away[k] \in Passages
    BY <2>1, <2>2, PartOfSeq
  <2> HIDE DEF rest
  <2>4. queue' = rest
    BY <2>1, <2>3, ConcatEmptySeq
  <2>5. QED
    BY <2>1, <2>3, <2>4 DEF Resuming, Resumed
<1>4. QED
  BY <1>1, <1>2, <1>3

LEMMA PassResumes ==
    ASSUME TypeOK, Silent, Resuming, Pass
    PROVE  Resuming' /\ Resumed
<1>1. CASE Mix
  BY <1>1, MixResumes
<1>2. CASE LookPaused \/ LookDeparted \/ LookOn \/ Show \/ ExecuteShutdown \/ Persist
  <2>1. /\ pc \in {"look", "show", "settle"} /\ pendingResume' = pendingResume
        /\ active' = active /\ pc' # "down"
    BY <1>2 DEF LookPaused, LookDeparted, LookOn, Show, ExecuteShutdown, Persist, mixer, handover
  <2>2. ~Pending
    BY <2>1 DEF Resuming
  <2>3. QED
    BY <2>1, <2>2, NoneComes
<1>3. CASE Refill
  <2>1. /\ UNCHANGED <<live, roll, pendingResume, active, resumeFor, shown>>
        /\ pc = "remember" /\ pc' = "commands"
        /\ \E r \in Seq(Passages \cup {Shutdown}) : queue' = queue \o r
    <3>1. PICK picks \in (IF active = "local" THEN Picks ELSE {<<>>}) : queue' = queue \o picks
      BY <1>3 DEF Refill
    <3>2. picks \in Seq(Passages \cup {Shutdown})
      <4>1. picks = <<>> \/ \E p \in Passages : picks = <<p>>
        BY <3>1 DEF Picks
      <4>2. CASE picks = <<>>
        BY <4>2, EmptySeq
      <4>3. ASSUME NEW p \in Passages, picks = <<p>>
            PROVE  picks \in Seq(Passages \cup {Shutdown})
        <5>1. <<p>> \in Seq(Passages \cup {Shutdown})
          OBVIOUS
        <5>2. QED
          BY <4>3, <5>1
      <4>4. QED
        BY <4>1, <4>2, <4>3
    <3>3. QED
      BY <1>3, <3>1, <3>2 DEF Refill, mixer, handover, display
  <2>2. QED
    BY <2>1, MoreBehind
<1>4. QED
  BY <1>1, <1>2, <1>3 DEF Pass

LEMMA PowerResumes ==
    ASSUME TypeOK, Silent, Resuming, DeviceTakes \/ Crash \/ Prime
    PROVE  Resuming' /\ Resumed
<1>1. CASE DeviceTakes
  <2>1. UNCHANGED <<pc, queue, live, roll, pendingResume, active, resumeFor, shown>>
    BY <1>1 DEF DeviceTakes, mixer, handover, display
  <2>2. QED
    BY <2>1 DEF Resuming, Pending, Resumed
<1>2. CASE Crash
  BY <1>2 DEF Crash, Resuming, Pending, Resumed
<1>3. CASE Prime
  <2>1. /\ live' = {} /\ roll' = roll /\ pc' = "remember" /\ shown' = 0
    BY <1>3 DEF Prime, Silent, Resuming, mixer, display
  <2>2. pendingResume' # Nowhere =>
           queue' # <<>> /\ Head(queue') = resumeFor' /\ resumeFor' \in Passages
    BY <1>3, StartsWithResumed
  <2>3. QED
    BY <2>1, <2>2 DEF Resuming, Pending, Resumed
<1>4. QED
  BY <1>1, <1>2, <1>3

LEMMA NextResumes ==
    ASSUME FrontLeftAlone, TypeOK, Silent, Resuming, [Next]_vars
    PROVE  Resuming' /\ Resumed
<1>1. CASE UNCHANGED vars
  BY <1>1 DEF vars, mixer, handover, display, history, Resuming, Pending, Resumed
<1>2. CASE \/ Play \/ Pause \/ Skip \/ EnqueueShutdown
           \/ \E p \in Passages : Enqueue(p) \/ EnqueueNext(p) \/ PlayNow(p)
           \/ \E i \in 1..(Cardinality(Passages) + 1) :
                 RemoveQueued(i) \/ \E delta \in {-1, 1} : ShiftQueued(i, delta)
  BY <1>2, CommandsResume
<1>3. CASE \/ HandOff
           \/ \E at \in SeekPoints :
                 Seek(at) \/ \E k \in 1..Cardinality(Passages) : HandBack(k, at)
  BY <1>3, HandoverResumes
<1>4. CASE Pass
  BY <1>4, PassResumes
<1>5. CASE DeviceTakes \/ Crash \/ Prime
  BY <1>5, PowerResumes
<1>6. QED
  BY <1>1, <1>2, <1>3, <1>4, <1>5 DEF Next

(* The saved position opens the passage it was saved for and no other, as  *)
(* long as no command puts another in front of it or takes it away before  *)
(* the next pass: a seek, a skip, a handover, a choice put behind, a       *)
(* refill and a power cut do not (Engine::pending_resume, admit_due,       *)
(* Session::prime).                                                        *)
THEOREM ResumeOpensItsOwn ==
    ASSUME Asks \cap {"next", "now", "remove", "shift"} = {}
    PROVE  Spec => ResumeIsItsOwn
<1>0. FrontLeftAlone
  BY DEF FrontLeftAlone
<1>1. Init => TypeOK /\ Silent /\ Resuming
  <2>1. Init => Silent /\ Resuming
    BY DEF Init, Silent, Resuming, Pending
  <2>2. QED
    BY <2>1, InitShape
<1>2. TypeOK /\ Silent /\ Resuming /\ [Next]_vars
         => TypeOK' /\ Silent' /\ Resuming'
  BY <1>0, NextKeepsShape, NextSilent, NextResumes
<1>3. TypeOK /\ Silent /\ Resuming /\ [Next]_vars
         => [pendingResume # Nowhere /\ pendingResume' = Nowhere /\ pc' # "down"
                => Len(roll') = Len(roll) \/ roll'[Len(roll')] = resumeFor]_vars
  BY <1>0, NextResumes DEF Resumed
<1>4. QED
  BY <1>1, <1>2, <1>3, PTL DEF Spec, ResumeIsItsOwn

-----------------------------------------------------------------------------
(* Nothing is cut short by a queued shutdown.  Where nobody skips, seeks,   *)
(* removes, hands over or pulls the plug, each passage is admitted once and *)
(* from its start; what was listened to of it is where the device got to in *)
(* it; and until that is its end, the mixer has it or its last unit is in   *)
(* the ring.                                                                *)

NobodyInterrupts == Asks \subseteq {"play", "pause", "next", "shift", "shutdown"}

AtHome == active = "local" /\ pc # "down" /\ pendingResume = Nowhere

AdmittedOnce(r, q) ==
    /\ \A a, b \in 1..Len(r) : r[a] = r[b] => a = b
    /\ \A a \in 1..Len(r) : r[a] \in offered \ Items(q)
    /\ \A p \in offered \ Unopenable : p \in Items(q) \/ \E a \in 1..Len(r) : r[a] = p

Accounted(r, ends) ==
    /\ \A p \in Passages : (\A a \in 1..Len(r) : r[a] # p) => listened[p] = 0
    /\ \A a \in 1..Len(r) : listened[r[a]] = ends[a]

\* What nothing was heard of yet, the mixer or the ring begins at its start.
FromTheStart(units, ends, l, r) ==
    \A a \in 1..Len(r) : ends[a] = 0 =>
        /\ (\A i \in 1..Len(units) : ~Within(a, units[i])) => \A c \in l : c.adm = a => c.at = 0
        /\ \A i \in 1..Len(units) : \A c \in units[i] :
              c.adm = a /\ (\A j \in 1..(i - 1) : ~Within(a, units[j])) => c.at = 0

LastOf(a, unit, r) == \E c \in unit : c.adm = a /\ c.at + 1 = Length[r[a]]

ToTheEnd(units, ends, l, r) ==
    /\ \A c \in l : c.at < Length[r[c.adm]]
    /\ \A i \in 1..Len(units) : \A c \in units[i] : c.at < Length[r[c.adm]]
    /\ \A a \in 1..Len(r) :
          \/ ends[a] = Length[r[a]]
          \/ Within(a, l)
          \/ \E i \in 1..Len(units) : LastOf(a, units[i], r)

Uninterrupted ==
    /\ AtHome /\ AdmittedOnce(roll, queue) /\ Accounted(roll, heardEnd)
    /\ FromTheStart(ring, heardEnd, live, roll) /\ ToTheEnd(ring, heardEnd, live, roll)

LEMMA TailKeeps ==
    ASSUME NEW S, NEW q \in Seq(S), q # <<>>
    PROVE  /\ Items(q) \subseteq Items(Tail(q)) \cup {Head(q)}
           /\ Items(Tail(q)) \subseteq Items(q)
<1> DEFINE t == Tail(q)
<1>1. /\ Len(q) \in Nat /\ Head(q) = q[1]
      /\ Len(t) = Len(q) - 1 /\ \A i \in 1..Len(t) : t[i] = q[i + 1]
  BY LenProperties, HeadTailProperties
<1> HIDE DEF t
<1>2. \A i \in 1..Len(q) : i = 1 \/ (i - 1 \in 1..Len(t) /\ t[i - 1] = q[i])
  <2> TAKE i \in 1..Len(q)
  <2>1. i = 1 \/ (i - 1 \in 1..Len(t) /\ (i - 1) + 1 = i)
    BY <1>1
  <2>2. QED
    BY <1>1, <2>1
<1>3. \A i \in 1..Len(t) : i + 1 \in 1..Len(q)
  BY <1>1
<1>4. QED
  BY <1>1, <1>2, <1>3 DEF Items, t

LEMMA MovedKeeps ==
    ASSUME NEW S, NEW q \in Seq(S), NEW k \in 1..Len(q), NEW to \in 1..Len(q)
    PROVE  Items(q) \subseteq Items(Moved(q, k, to))
<1> DEFINE c == Cut(q, k)
           one == <<q[k]>>
           m == Splice(c, to - 1, one)
           g == [j \in 1..Len(q) |->
                   IF j = k THEN to
                   ELSE LET i == IF j < k THEN j ELSE j - 1
                        IN  IF i < to THEN i ELSE i + 1]
<1>1. Len(q) \in Nat /\ q[k] \in S
  BY LenProperties, ElementOfSeq
<1>2. /\ c \in Seq(S) /\ Len(c) = Len(q) - 1
      /\ \A i \in 1..(Len(q) - 1) : c[i] = IF i < k THEN q[i] ELSE q[i + 1]
  BY CutFacts
<1>3. one \in Seq(S) /\ Len(one) = 1 /\ one[1] = q[k]
  BY <1>1
<1> HIDE DEF c, one
<1>4. /\ Len(m) = Len(c) + Len(one)
      /\ \A i \in 1..(Len(c) + Len(one)) :
            m[i] = IF i <= to - 1 THEN c[i]
                   ELSE IF i <= to - 1 + Len(one) THEN one[i - (to - 1)]
                   ELSE c[i - Len(one)]
  <2>1. to - 1 \in 0..Len(c)
    BY <1>1, <1>2
  <2>2. QED
    BY <2>1, <1>2, <1>3, SpliceFacts, ZenonT(60)
<1> HIDE DEF m
<1>5. Len(m) = Len(q)
  BY <1>1, <1>2, <1>3, <1>4
<1>6. ASSUME NEW j \in 1..Len(q)
      PROVE  g[j] \in 1..Len(m) /\ m[g[j]] = q[j]
  <2>1. CASE j = k
    <3>1. m[to] = one[to - (to - 1)] /\ to - (to - 1) = 1
      BY <1>1, <1>2, <1>3, <1>4, <1>5
    <3>2. QED
      BY <1>3, <1>5, <2>1, <3>1
  <2>2. ASSUME NEW i \in 1..(Len(q) - 1), c[i] = q[j], g[j] = IF i < to THEN i ELSE i + 1
        PROVE  g[j] \in 1..Len(m) /\ m[g[j]] = q[j]
    <3>1. CASE i < to
      <4>1. i <= to - 1 /\ i \in 1..(Len(c) + Len(one))
        BY <1>1, <1>2, <1>3, <3>1
      <4>2. m[i] = c[i]
        BY <1>4, <4>1
      <4>3. QED
        BY <1>4, <2>2, <3>1, <4>1, <4>2
    <3>2. CASE ~(i < to)
      <4>1. i + 1 \in 1..(Len(c) + Len(one)) /\ ~(i + 1 <= to - 1)
            /\ ~(i + 1 <= to - 1 + Len(one)) /\ (i + 1) - Len(one) = i
        BY <1>1, <1>2, <1>3, <3>2
      <4>2. m[i + 1] = c[i]
        BY <1>4, <4>1
      <4>3. QED
        BY <1>4, <2>2, <3>2, <4>1, <4>2
    <3>3. QED
      BY <3>1, <3>2
  <2>3. CASE j < k
    <3>1. j \in 1..(Len(q) - 1) /\ c[j] = q[j] /\ g[j] = IF j < to THEN j ELSE j + 1
      BY <1>1, <1>2, <2>3
    <3>2. QED
      BY <2>2, <3>1
  <2>4. CASE j > k
    <3>1. /\ j - 1 \in 1..(Len(q) - 1) /\ ~(j - 1 < k) /\ (j - 1) + 1 = j /\ ~(j < k) /\ j # k
      BY <1>1, <2>4
    <3>2. c[j - 1] = q[j] /\ g[j] = IF j - 1 < to THEN j - 1 ELSE (j - 1) + 1
      BY <1>2, <3>1
    <3>3. QED
      BY <2>2, <3>1, <3>2
  <2>5. QED
    BY <1>1, <2>1, <2>3, <2>4
<1> HIDE DEF g
<1>7. Items(q) \subseteq Items(m)
  BY <1>6 DEF Items
<1>8. QED
  BY <1>7 DEF m, c, one, Moved

-----------------------------------------------------------------------------
(* An edit of what waits, and an admission.                                 *)

LEMMA EditUninterrupted ==
    ASSUME TypeOK, Uninterrupted,
           UNCHANGED <<live, roll, pendingResume, output, active, listened>>, pc' # "down",
           \/ Items(queue') = Items(queue) /\ offered' = offered
           \/ Items(queue') = Items(queue) \cup {Shutdown} /\ offered' = offered
           \/ \E p \in Passages \ offered : /\ Items(queue') = Items(queue) \cup {p}
                                            /\ offered' = offered \cup {p}
           \/ Items(queue') = Items(queue) \ {Shutdown} /\ offered' = offered
    PROVE  Uninterrupted'
<1>1. AtHome' /\ Accounted(roll, heardEnd)'
  BY DEF Uninterrupted, AtHome, Accounted, output
<1>2. FromTheStart(ring, heardEnd, live, roll)' /\ ToTheEnd(ring, heardEnd, live, roll)'
  BY DEF Uninterrupted, FromTheStart, ToTheEnd, output
<1>3. offered \subseteq Passages /\ Shutdown \notin Passages
  BY PassagesAssumption DEF TypeOK
<1>4. AdmittedOnce(roll, queue)'
  BY <1>3 DEF Uninterrupted, AdmittedOnce
<1>5. QED
  BY <1>1, <1>2, <1>4 DEF Uninterrupted

LEMMA StandsUninterrupted ==
    ASSUME TypeOK, Uninterrupted, UNCHANGED <<queue, mixer, output, active, listened, offered>>,
           pc' # "down"
    PROVE  Uninterrupted'
BY EditUninterrupted DEF mixer

LEMMA AdmittedWhole ==
    ASSUME TypeOK, Once(queue), pendingResume = Nowhere
    PROVE  LET a == Admission(queue, live)
           IN  /\ a.resume = Nowhere
               /\ \/ /\ a.roll = roll /\ a.live = live
                     /\ Items(a.queue) \subseteq Items(queue)
                     /\ Items(queue) \subseteq Items(a.queue) \cup Unopenable
                  \/ \E p \in Items(queue) \cap Passages :
                        /\ a.roll = Append(roll, p)
                        /\ a.live = live \cup {[adm |-> Len(roll) + 1, at |-> 0]}
                        /\ Items(a.queue) \subseteq Items(queue) \ {p}
                        /\ Items(queue) \subseteq Items(a.queue) \cup {p}
<1> DEFINE a == Admission(queue, live)
<1>1. queue \in Seq(Passages \cup {Shutdown}) /\ IsQueue(queue)
  BY DEF TypeOK, IsQueue
<1>2. CASE ~Due(queue, live)
  BY <1>2 DEF Admission
<1>3. CASE Due(queue, live) /\ Head(queue) \in Unopenable
  <2>1. queue # <<>>
    BY <1>3 DEF Due
  <2>2. /\ Items(Tail(queue)) \subseteq Items(queue) \ {Head(queue)}
        /\ Items(queue) \subseteq Items(Tail(queue)) \cup {Head(queue)}
    BY <1>1, <2>1, OnceTail, TailKeeps
  <2>3. a = [queue |-> Tail(queue), live |-> live, roll |-> roll, resume |-> Nowhere,
             dropped |-> {Head(queue)}]
    BY <1>3 DEF Admission
  <2>4. QED
    BY <1>3, <2>2, <2>3
<1>4. CASE Due(queue, live) /\ Head(queue) \notin Unopenable
  <2>1. queue # <<>> /\ Head(queue) # Shutdown /\ Head(queue) \in Passages
    BY <1>1, <1>4, TailQueue DEF Due
  <2>2. /\ Items(Tail(queue)) \subseteq Items(queue) \ {Head(queue)}
        /\ Items(queue) \subseteq Items(Tail(queue)) \cup {Head(queue)}
        /\ Head(queue) \in Items(queue)
    BY <1>1, <2>1, OnceTail, TailKeeps
  <2>3. a = [queue |-> Tail(queue), live |-> live \cup {Opened(Origin(Head(queue)))},
             roll |-> Append(roll, Head(queue)), resume |-> Nowhere, dropped |-> {}]
    BY <1>4 DEF Admission
  <2>4. Opened(Origin(Head(queue))) = [adm |-> Len(roll) + 1, at |-> 0]
    BY DEF Opened, Origin
  <2>5. QED
    BY <2>1, <2>2, <2>3, <2>4
<1>5. QED
  BY <1>2, <1>3, <1>4

\* Once admitted, whatever it is.
LEMMA AdmissionUninterrupted ==
    ASSUME TypeOK, OnceEach, Uninterrupted
    PROVE  LET a == Admission(queue, live)
               e == NewAdmissions(a.roll)
           IN  /\ a.resume = Nowhere
               /\ AdmittedOnce(a.roll, a.queue) /\ Accounted(a.roll, e)
               /\ FromTheStart(ring, e, a.live, a.roll) /\ ToTheEnd(ring, e, a.live, a.roll)
<1> DEFINE a == Admission(queue, live)
           r == a.roll
           l == a.live
           q == a.queue
           e == NewAdmissions(r)
<1>1. IsQueue(queue) /\ IsMixer(live, roll) /\ IsRing(ring, roll) /\ Len(roll) \in Nat
  BY RollFacts, RingTyped, LenProperties DEF TypeOK
<1>2. Extends(r)
  BY <1>1, AdmissionTyped
<1>3. /\ \A b \in 1..Len(roll) : e[b] = heardEnd[b]
      /\ \A b \in 1..Len(r) : b > Len(roll) => e[b] = 0
  BY <1>2, EndsGrown
<1>4. /\ \A i \in 1..Len(ring) : \A c \in ring[i] : c.adm \in 1..Len(roll)
      /\ \A c \in live : c.adm \in 1..Len(roll)
  BY <1>1, UnitFacts DEF IsMixer
<1>5. /\ AdmittedOnce(roll, queue) /\ Accounted(roll, heardEnd)
      /\ FromTheStart(ring, heardEnd, live, roll) /\ ToTheEnd(ring, heardEnd, live, roll)
      /\ pendingResume = Nowhere
  BY DEF Uninterrupted, AtHome
<1>6. /\ a.resume = Nowhere
      /\ \/ /\ r = roll /\ l = live
            /\ Items(q) \subseteq Items(queue)
            /\ Items(queue) \subseteq Items(q) \cup Unopenable
         \/ \E p \in Items(queue) \cap Passages :
               /\ r = Append(roll, p)
               /\ l = live \cup {[adm |-> Len(roll) + 1, at |-> 0]}
               /\ Items(q) \subseteq Items(queue) \ {p}
               /\ Items(queue) \subseteq Items(q) \cup {p}
  BY <1>5, AdmittedWhole DEF OnceEach
<1> HIDE DEF e, q, l, r
<1>7. CASE /\ r = roll /\ l = live
           /\ Items(q) \subseteq Items(queue)
           /\ Items(queue) \subseteq Items(q) \cup Unopenable
  <2>1. AdmittedOnce(r, q)
    BY <1>5, <1>7 DEF AdmittedOnce
  <2>2. Accounted(r, e)
    BY <1>3, <1>5, <1>7 DEF Accounted
  <2>3. FromTheStart(ring, e, l, r)
    BY <1>3, <1>5, <1>7 DEF FromTheStart
  <2>4. ToTheEnd(ring, e, l, r)
    BY <1>3, <1>5, <1>7 DEF ToTheEnd
  <2>5. QED
    BY <1>6, <2>1, <2>2, <2>3, <2>4 DEF r, l, q, e
<1>8. ASSUME NEW p \in Items(queue) \cap Passages,
             r = Append(roll, p),
             l = live \cup {[adm |-> Len(roll) + 1, at |-> 0]},
             Items(q) \subseteq Items(queue) \ {p},
             Items(queue) \subseteq Items(q) \cup {p}
      PROVE  /\ AdmittedOnce(r, q) /\ Accounted(r, e)
             /\ FromTheStart(ring, e, l, r) /\ ToTheEnd(ring, e, l, r)
  <2> DEFINE n == Len(roll) + 1
  <2>1. /\ Len(r) = n /\ n \in Nat /\ n \notin 1..Len(roll) /\ r[n] = p /\ n \in 1..Len(r)
        /\ \A b \in 1..Len(roll) : r[b] = roll[b] /\ b \in 1..Len(r)
        /\ \A b \in 1..Len(r) : b \in 1..Len(roll) \/ b = n
    <3>1. roll \in Seq(Passages)
      BY DEF TypeOK
    <3>2. /\ Len(r) = n /\ r[n] = p /\ \A b \in 1..Len(roll) : r[b] = roll[b]
      BY <1>8, <3>1, AppendProperties
    <3>3. QED
      BY <1>1, <3>2
  <2>2. e[n] = 0
    BY <1>1, <1>3, <2>1
  <2> HIDE DEF n
  <2>3. \A b \in 1..Len(roll) : roll[b] # p
    BY <1>5, <1>8 DEF AdmittedOnce
  <2>4. AdmittedOnce(r, q)
    <3>1. \A b, c \in 1..Len(r) : r[b] = r[c] => b = c
      BY <1>5, <2>1, <2>3 DEF AdmittedOnce
    <3>2. p \in offered
      BY <1>8, PassagesAssumption DEF OnceEach
    <3>3. \A b \in 1..Len(r) : r[b] \in offered \ Items(q)
      BY <1>5, <1>8, <2>1, <3>2 DEF AdmittedOnce
    <3>4. \A x \in offered \ Unopenable : x \in Items(q) \/ \E b \in 1..Len(r) : r[b] = x
      BY <1>5, <1>8, <2>1 DEF AdmittedOnce
    <3>5. QED
      BY <3>1, <3>3, <3>4 DEF AdmittedOnce
  <2>5. Accounted(r, e)
    <3>1. listened[p] = 0
      BY <1>5, <1>8, <2>3 DEF Accounted
    <3>2. QED
      BY <1>3, <1>5, <2>1, <2>2, <3>1 DEF Accounted
  <2>6. FromTheStart(ring, e, l, r)
    <3> SUFFICES ASSUME NEW b \in 1..Len(r), e[b] = 0
                 PROVE  /\ (\A i \in 1..Len(ring) : ~Within(b, ring[i])) =>
                              \A c \in l : c.adm = b => c.at = 0
                        /\ \A i \in 1..Len(ring) : \A c \in ring[i] :
                              c.adm = b /\ (\A j \in 1..(i - 1) : ~Within(b, ring[j])) => c.at = 0
      BY DEF FromTheStart
    <3>1. CASE b \in 1..Len(roll)
      <4>1. heardEnd[b] = 0 /\ b # n
        BY <1>3, <2>1, <3>1
      <4>2. \A c \in l : c.adm = b => c \in live
        BY <1>8, <4>1 DEF n
      <4>3. QED
        BY <1>5, <3>1, <4>1, <4>2 DEF FromTheStart
    <3>2. CASE b = n
      <4>1. \A c \in l : c.adm = b => c.at = 0
        BY <1>4, <1>8, <2>1, <3>2 DEF n
      <4>2. \A i \in 1..Len(ring) : \A c \in ring[i] : c.adm # b
        BY <1>4, <2>1, <3>2
      <4>3. QED
        BY <4>1, <4>2
    <3>3. QED
      BY <2>1, <3>1, <3>2
  <2>7. ToTheEnd(ring, e, l, r)
    <3>1. \A c \in l : c.at < Length[r[c.adm]]
      <4>1. Length[p] \in Nat \ {0}
        BY <1>8, SpanAssumption
      <4>2. \A c \in live : c.at < Length[r[c.adm]]
        BY <1>4, <1>5, <2>1 DEF ToTheEnd
      <4>3. \A c \in l : c \in live \/ c = [adm |-> n, at |-> 0]
        BY <1>8 DEF n
      <4>4. QED
        BY <2>1, <4>1, <4>2, <4>3
    <3>2. ASSUME NEW b \in 1..Len(r)
          PROVE  \/ e[b] = Length[r[b]]
                 \/ Within(b, l)
                 \/ \E i \in 1..Len(ring) : LastOf(b, ring[i], r)
      <4>1. CASE b \in 1..Len(roll)
        BY <1>3, <1>5, <1>8, <2>1, <4>1 DEF ToTheEnd, Within, LastOf
      <4>2. CASE b = n
        <5>1. [adm |-> n, at |-> 0] \in l /\ [adm |-> n, at |-> 0].adm = b
          BY <1>8, <4>2 DEF n
        <5>2. Within(b, l)
          BY <5>1 DEF Within
        <5>3. QED
          BY <5>2
      <4>3. QED
        BY <2>1, <4>1, <4>2
    <3>3. \A i \in 1..Len(ring) : \A c \in ring[i] : c.at < Length[r[c.adm]]
      BY <1>4, <1>5, <2>1 DEF ToTheEnd
    <3>4. QED
      BY <3>1, <3>2, <3>3 DEF ToTheEnd
  <2>8. QED
    BY <2>4, <2>5, <2>6, <2>7
<1>9. QED
  BY <1>6, <1>7, <1>8 DEF r, l, q, e

\* Once mixed on by one unit, or not.
LEMMA StartMixed ==
    ASSUME NEW units, NEW ends, NEW l, NEW r, FromTheStart(units, ends, l, r),
           Len(units) \in Nat, NEW g, g \subseteq l,
           NEW w, Len(w) = Len(units) + 1, w[Len(units) + 1] = g,
           \A i \in 1..Len(units) : w[i] = units[i],
           NEW k, \A c \in k : \E d \in g : d.adm = c.adm
    PROVE  FromTheStart(w, ends, k, r)
<1> DEFINE m == Len(units)
<1> SUFFICES ASSUME NEW a \in 1..Len(r), ends[a] = 0
             PROVE  /\ (\A i \in 1..Len(w) : ~Within(a, w[i])) => \A c \in k : c.adm = a => c.at = 0
                    /\ \A i \in 1..Len(w) : \A c \in w[i] :
                          c.adm = a /\ (\A j \in 1..(i - 1) : ~Within(a, w[j])) => c.at = 0
  BY DEF FromTheStart
<1>1. /\ (\A i \in 1..m : ~Within(a, units[i])) => \A c \in l : c.adm = a => c.at = 0
      /\ \A i \in 1..m : \A c \in units[i] :
            c.adm = a /\ (\A j \in 1..(i - 1) : ~Within(a, units[j])) => c.at = 0
  BY DEF FromTheStart
<1>2. (\A i \in 1..Len(w) : ~Within(a, w[i])) => \A c \in k : c.adm # a
  <2>1. m + 1 \in 1..Len(w)
    OBVIOUS
  <2>2. QED
    BY <2>1 DEF Within
<1>3. ASSUME NEW i \in 1..Len(w), NEW c \in w[i], c.adm = a,
             \A j \in 1..(i - 1) : ~Within(a, w[j])
      PROVE  c.at = 0
  <2>1. CASE i \in 1..m
    <3>1. \A j \in 1..(i - 1) : j \in 1..m
      BY <2>1
    <3>2. \A j \in 1..(i - 1) : ~Within(a, units[j])
      BY <1>3, <3>1
    <3>3. c \in units[i]
      BY <2>1
    <3>4. QED
      BY <1>1, <1>3, <2>1, <3>2, <3>3
  <2>2. CASE i = m + 1
    <3>1. \A j \in 1..m : j \in 1..(i - 1)
      BY <2>2
    <3>2. \A j \in 1..m : ~Within(a, units[j])
      BY <1>3, <3>1
    <3>3. c \in l
      BY <2>2
    <3>4. QED
      BY <1>1, <1>3, <3>2, <3>3
  <2>3. QED
    BY <2>1, <2>2
<1>4. QED
  BY <1>2, <1>3

LEMMA EndMixed ==
    ASSUME NEW units, NEW ends, NEW r, r \in Seq(Passages), NEW l, IsMixer(l, r),
           ToTheEnd(units, ends, l, r), Len(units) \in Nat,
           NEW w, Len(w) = Len(units) + 1, w[Len(units) + 1] = l,
           \A i \in 1..Len(units) : w[i] = units[i]
    PROVE  ToTheEnd(w, ends, Giving(On(l, 1), r), r)
<1> DEFINE k == Giving(On(l, 1), r)
           m == Len(units)
<1>1. \A c \in k : c.at < Length[r[c.adm]]
  BY DEF Giving
<1>2. ASSUME NEW a \in 1..Len(r)
      PROVE  \/ ends[a] = Length[r[a]]
             \/ Within(a, k)
             \/ \E i \in 1..Len(w) : LastOf(a, w[i], r)
  <2>1. CASE ends[a] = Length[r[a]]
    BY <2>1
  <2>2. CASE Within(a, l)
    <3>1. PICK c \in l : c.adm = a
      BY <2>2 DEF Within
    <3> DEFINE d == [c EXCEPT !.at = @ + 1]
    <3>2. /\ c.at \in Nat /\ c.at < Length[r[a]] /\ Length[r[a]] \in Nat
          /\ d \in On(l, 1) /\ d.adm = a /\ d.at = c.at + 1
      <4>1. c.at \in Nat /\ c \in [adm : 1..Len(r), at : Nat]
        BY DEF IsMixer
      <4>2. Length[r[a]] \in Nat
        BY LengthOf, ElementOfSeq
      <4>3. d \in On(l, 1) /\ d.adm = a /\ d.at = c.at + 1
        BY <3>1, <4>1 DEF On
      <4>4. QED
        BY <3>1, <4>1, <4>2, <4>3 DEF ToTheEnd
    <3> HIDE DEF d
    <3>3. CASE d.at < Length[r[a]]
      <4>1. d \in k
        BY <3>2, <3>3 DEF Giving
      <4>2. QED
        BY <3>2, <4>1 DEF Within
    <3>4. CASE ~(d.at < Length[r[a]])
      <4>1. c.at + 1 = Length[r[a]]
        BY <3>2, <3>4
      <4>2. LastOf(a, w[m + 1], r) /\ m + 1 \in 1..Len(w)
        BY <3>1, <4>1 DEF LastOf
      <4>3. QED
        BY <4>2
    <3>5. QED
      BY <3>3, <3>4
  <2>3. ASSUME NEW i \in 1..m, LastOf(a, units[i], r)
        PROVE  \E j \in 1..Len(w) : LastOf(a, w[j], r)
    <3>1. i \in 1..Len(w) /\ w[i] = units[i]
      OBVIOUS
    <3>2. QED
      BY <2>3, <3>1
  <2>4. QED
    BY <2>1, <2>2, <2>3 DEF ToTheEnd
<1>3. \A i \in 1..Len(w) : \A c \in w[i] : c.at < Length[r[c.adm]]
  <2>1. \A i \in 1..Len(w) : i \in 1..m \/ i = m + 1
    OBVIOUS
  <2>2. QED
    BY <2>1 DEF ToTheEnd
<1>4. QED
  BY <1>1, <1>2, <1>3 DEF ToTheEnd

LEMMA MixUninterrupted ==
    ASSUME TypeOK, OnceEach, Uninterrupted, Mix
    PROVE  Uninterrupted'
<1> DEFINE a == Admission(queue, live)
           r == a.roll
           e == NewAdmissions(r)
           giving == Giving(a.live, r)
           mixes == MixRoom /\ giving # {}
<1>1. /\ IsQueue(queue) /\ IsMixer(live, roll) /\ IsRing(ring, roll) /\ Len(ring) \in Nat
  BY RollFacts, RingTyped, UnitFacts DEF TypeOK
<1>2. Extends(r) /\ IsMixer(a.live, r) /\ r \in Seq(Passages) /\ IsQueue(a.queue)
  BY <1>1, AdmissionTyped DEF Extends
<1>3. /\ a.resume = Nowhere
      /\ AdmittedOnce(r, a.queue) /\ Accounted(r, e)
      /\ FromTheStart(ring, e, a.live, r) /\ ToTheEnd(ring, e, a.live, r)
  BY AdmissionUninterrupted
<1>4. /\ queue' = IF BadHead(a) THEN Tail(a.queue) ELSE a.queue
      /\ roll' = r /\ heardEnd' = e /\ pendingResume' = a.resume
      /\ ring' = IF mixes THEN Append(ring, giving) ELSE ring
      /\ live' = Giving(IF mixes THEN On(giving, 1) ELSE giving, r)
      /\ UNCHANGED <<active, listened, offered>> /\ pc' = "look"
  BY DEF Mix, handover
<1>5. giving = a.live
  BY <1>3 DEF ToTheEnd, Giving
<1>6. a.queue \in Seq(Passages \cup {Shutdown}) /\ (BadHead(a) => a.queue # <<>>)
  BY <1>2 DEF IsQueue, BadHead
<1>7. BadHead(a) => Head(a.queue) \in Unopenable
  BY DEF BadHead
<1>8. active' = "local"
  BY <1>4 DEF Uninterrupted, AtHome
<1> HIDE DEF a, e, mixes, giving
<1>9. Items(queue') \subseteq Items(a.queue) /\ Items(a.queue) \subseteq Items(queue') \cup Unopenable
  <2>1. CASE BadHead(a)
    <3>1. /\ Items(a.queue) \subseteq Items(Tail(a.queue)) \cup {Head(a.queue)}
          /\ Items(Tail(a.queue)) \subseteq Items(a.queue)
      BY <1>6, <2>1, TailKeeps
    <3>2. QED
      BY <1>4, <1>7, <2>1, <3>1
  <2>2. CASE ~BadHead(a)
    BY <1>4, <2>2
  <2>3. QED
    BY <2>1, <2>2
<1>10. AdmittedOnce(roll, queue)' /\ Accounted(roll, heardEnd)'
  BY <1>3, <1>4, <1>9 DEF AdmittedOnce, Accounted
<1>11. CASE mixes
  <2> DEFINE w == Append(ring, giving)
  <2>1. /\ Len(w) = Len(ring) + 1 /\ w[Len(ring) + 1] = giving
        /\ \A i \in 1..Len(ring) : w[i] = ring[i]
    <3>1. ring \in Seq(Units(roll) \cup {giving})
      BY <1>1, SeqMonotonic DEF IsRing
    <3>2. QED
      BY <3>1, AppendProperties
  <2>2. ring' = w /\ live' = Giving(On(giving, 1), r)
    BY <1>4, <1>11
  <2> HIDE DEF w
  <2>3. \A c \in live' : \E d \in giving : d.adm = c.adm
    <3>1. \A d \in giving : [d EXCEPT !.at = @ + 1].adm = d.adm
      BY <1>2, <1>5 DEF IsMixer
    <3>2. live' \subseteq On(giving, 1)
      BY <2>2 DEF Giving
    <3>3. QED
      BY <3>1, <3>2 DEF On
  <2>4. FromTheStart(w, e, live', r)
    BY <1>1, <1>3, <1>5, <2>1, <2>3, StartMixed
  <2>5. ToTheEnd(w, e, Giving(On(giving, 1), r), r)
    BY <1>1, <1>2, <1>3, <1>5, <2>1, EndMixed
  <2>6. FromTheStart(ring, heardEnd, live, roll)' /\ ToTheEnd(ring, heardEnd, live, roll)'
    BY <1>4, <2>2, <2>4, <2>5
  <2>7. QED
    BY <1>3, <1>4, <1>8, <1>10, <2>6 DEF Uninterrupted, AtHome
<1>12. CASE ~mixes
  <2>1. ring' = ring /\ live' = Giving(giving, r) /\ Giving(giving, r) = giving
    <3>1. Giving(giving, r) = giving
      BY <1>5 DEF giving, Giving
    <3>2. QED
      BY <1>4, <1>12, <3>1
  <2>2. FromTheStart(ring, heardEnd, live, roll)' /\ ToTheEnd(ring, heardEnd, live, roll)'
    BY <1>3, <1>4, <1>5, <2>1
  <2>3. QED
    BY <1>3, <1>4, <1>8, <1>10, <2>2 DEF Uninterrupted, AtHome
<1>13. QED
  BY <1>11, <1>12

\* The device takes the front unit, and is then past the places in it.
DeviceOn ==
    /\ listened' = [p \in Passages |->
                      IF \E c \in ring[1] : roll[c.adm] = p THEN listened[p] + 1 ELSE listened[p]]
    /\ UNCHANGED <<pc, queue, live, roll, pendingResume, active, offered>>
    /\ Len(ring) \in Nat /\ Len(ring) > 0 /\ 1 \in 1..Len(ring)
    /\ \A c \in ring[1] : c.adm \in 1..Len(roll) /\ c.at \in Nat
    /\ \A i \in 1..Len(ring) : \A c \in ring[i] : c.adm \in 1..Len(roll)
    /\ \A a \in 1..Len(roll) : heardEnd[a] \in Nat /\ roll[a] \in Passages
    /\ \A c \in ring[1] : heardEnd'[c.adm] = c.at + 1
    /\ \A a \in 1..Len(roll) : ~Within(a, ring[1]) => heardEnd'[a] = heardEnd[a]
    /\ Len(ring') = Len(ring) - 1
    /\ \A i \in 1..Len(ring') : i + 1 \in 1..Len(ring) /\ ring'[i] = ring[i + 1]
    /\ \A i \in 1..Len(ring) : i = 1 \/ (i - 1 \in 1..Len(ring') /\ ring'[i - 1] = ring[i])

LEMMA DeviceGoesOn == ASSUME TypeOK, Lying, DeviceTakes PROVE DeviceOn
<1> DEFINE unit == Head(ring)
<1>1. /\ listened' = [p \in Passages |->
                        IF \E c \in unit : roll[c.adm] = p THEN listened[p] + 1 ELSE listened[p]]
      /\ UNCHANGED <<pc, queue, live, roll, pendingResume, active, offered>>
  BY DEF DeviceTakes, mixer, handover
<1>2. /\ Len(ring) \in Nat /\ Len(ring) > 0 /\ unit = ring[1] /\ 1 \in 1..Len(ring)
      /\ \A c \in unit : c.adm \in 1..Len(roll) /\ c.at \in Nat
      /\ \A i \in 1..Len(ring) : \A c \in ring[i] : c.adm \in 1..Len(roll)
      /\ \A a \in 1..Len(roll) : heardEnd[a] \in Nat /\ roll[a] \in Passages
      /\ \A c \in unit : heardEnd'[c.adm] = c.at + 1
      /\ \A a \in 1..Len(roll) : ~Within(a, unit) => heardEnd'[a] = heardEnd[a]
      /\ Len(ring') = Len(ring) - 1 /\ \A i \in 1..Len(ring') : ring'[i] = ring[i + 1]
  <2>1. \A a \in 1..Len(roll) : roll[a] \in Passages
    BY ElementOfSeq DEF TypeOK
  <2>2. Len(ring) \in Nat /\ Len(ring) > 0 => 1 \in 1..Len(ring)
    OBVIOUS
  <2>3. QED
    BY <2>1, <2>2, DeviceMoves
<1> HIDE DEF unit
<1>3. \A i \in 1..Len(ring) : i = 1 \/ (i - 1 \in 1..Len(ring') /\ ring'[i - 1] = ring[i])
  <2> TAKE i \in 1..Len(ring)
  <2>1. i = 1 \/ (i - 1 \in 1..Len(ring') /\ (i - 1) + 1 = i)
    BY <1>2
  <2>2. QED
    BY <1>2, <2>1
<1>4. \A i \in 1..Len(ring') : i + 1 \in 1..Len(ring) /\ ring'[i] = ring[i + 1]
  BY <1>2
<1>5. QED
  BY <1>1, <1>2, <1>3, <1>4 DEF DeviceOn

\* The ring takes up where the device is, or at the start.
LEMMA FrontReached ==
    ASSUME NEW units, NEW ends, NEW l, NEW r, Laid(units, ends), FromTheStart(units, ends, l, r),
           Len(units) \in Nat, Len(units) > 0, NEW c \in units[1], c.adm \in 1..Len(r)
    PROVE  ends[c.adm] = c.at
<1>1. ends[c.adm] = 0 \/ ends[c.adm] = c.at
  BY DEF Laid, GoesOn
<1>2. ends[c.adm] = 0 => c.at = 0
  <2>1. 1 \in 1..Len(units) /\ \A j \in 1..(1 - 1) : ~Within(c.adm, units[j])
    OBVIOUS
  <2>2. QED
    BY <2>1 DEF FromTheStart
<1>3. QED
  BY <1>1, <1>2

LEMMA AccountsTaken ==
    ASSUME Lying, DeviceOn, \A a, b \in 1..Len(roll) : roll[a] = roll[b] => a = b,
           Accounted(roll, heardEnd), FromTheStart(ring, heardEnd, live, roll)
    PROVE  Accounted(roll, heardEnd)'
<1> DEFINE unit == ring[1]
<1>1. /\ listened' = [p \in Passages |->
                        IF \E c \in unit : roll[c.adm] = p THEN listened[p] + 1 ELSE listened[p]]
      /\ UNCHANGED roll
      /\ \A c \in unit : c.adm \in 1..Len(roll) /\ c.at \in Nat
      /\ \A a \in 1..Len(roll) : heardEnd[a] \in Nat /\ roll[a] \in Passages
      /\ \A c \in unit : heardEnd'[c.adm] = c.at + 1
      /\ \A a \in 1..Len(roll) : ~Within(a, unit) => heardEnd'[a] = heardEnd[a]
  BY DEF DeviceOn
<1>2. \A c \in unit : heardEnd[c.adm] = c.at
  BY FrontReached DEF Lying, DeviceOn
<1> HIDE DEF unit
<1>3. Accounted(roll, heardEnd)'
  <2>1. ASSUME NEW p \in Passages, \A a \in 1..Len(roll) : roll[a] # p
        PROVE  listened'[p] = 0
    <3>1. ~\E c \in unit : roll[c.adm] = p
      BY <1>1, <2>1
    <3>2. QED
      BY <1>1, <2>1, <3>1 DEF Accounted
  <2>2. ASSUME NEW a \in 1..Len(roll)
        PROVE  listened'[roll[a]] = heardEnd'[a]
    <3>1. listened[roll[a]] = heardEnd[a] /\ roll[a] \in Passages
      BY <1>1 DEF Accounted
    <3>2. CASE Within(a, unit)
      <4>1. PICK c \in unit : c.adm = a
        BY <3>2 DEF Within
      <4>2. listened'[roll[a]] = listened[roll[a]] + 1
        BY <1>1, <3>1, <4>1
      <4>3. heardEnd'[a] = c.at + 1 /\ heardEnd[a] = c.at
        BY <1>1, <1>2, <4>1
      <4>4. QED
        BY <3>1, <4>2, <4>3
    <3>3. CASE ~Within(a, unit)
      <4>1. ~\E c \in unit : roll[c.adm] = roll[a]
        BY <1>1, <3>3 DEF Within
      <4>2. QED
        BY <1>1, <3>1, <3>3, <4>1
    <3>4. QED
      BY <3>2, <3>3
  <2>3. QED
    BY <1>1, <2>1, <2>2 DEF Accounted
<1>4. QED
  BY <1>3

LEMMA StartTaken ==
    ASSUME DeviceOn, FromTheStart(ring, heardEnd, live, roll)
    PROVE  FromTheStart(ring, heardEnd, live, roll)'
<1> DEFINE unit == ring[1]
<1>1. /\ Len(ring) \in Nat /\ Len(ring) > 0 /\ 1 \in 1..Len(ring) /\ UNCHANGED <<live, roll>>
      /\ \A c \in unit : c.at \in Nat /\ heardEnd'[c.adm] = c.at + 1
      /\ \A a \in 1..Len(roll) : ~Within(a, unit) => heardEnd'[a] = heardEnd[a]
      /\ Len(ring') = Len(ring) - 1
      /\ \A i \in 1..Len(ring') : i + 1 \in 1..Len(ring) /\ ring'[i] = ring[i + 1]
      /\ \A i \in 1..Len(ring) : i = 1 \/ (i - 1 \in 1..Len(ring') /\ ring'[i - 1] = ring[i])
  BY DEF DeviceOn
<1>2. FromTheStart(ring, heardEnd, live, roll)'
  <2> SUFFICES ASSUME NEW a \in 1..Len(roll), heardEnd'[a] = 0
               PROVE  /\ (\A i \in 1..Len(ring') : ~Within(a, ring'[i])) =>
                            \A c \in live : c.adm = a => c.at = 0
                      /\ \A i \in 1..Len(ring') : \A c \in ring'[i] :
                            c.adm = a /\ (\A j \in 1..(i - 1) : ~Within(a, ring'[j])) => c.at = 0
    BY <1>1 DEF FromTheStart
  <2>1. ~Within(a, unit)
    <3>1. ASSUME NEW c \in unit, c.adm = a PROVE FALSE
      <4>1. heardEnd'[a] = c.at + 1 /\ c.at \in Nat
        BY <1>1, <3>1
      <4>2. QED
        BY <4>1
    <3>2. QED
      BY <3>1 DEF Within
  <2>2. heardEnd[a] = 0
    BY <1>1, <2>1
  <2>3. ASSUME \A i \in 1..Len(ring') : ~Within(a, ring'[i])
        PROVE  \A c \in live : c.adm = a => c.at = 0
    <3>1. \A i \in 1..Len(ring) : ~Within(a, ring[i])
      BY <1>1, <2>1, <2>3
    <3>2. QED
      BY <1>1, <2>2, <3>1 DEF FromTheStart
  <2>4. ASSUME NEW i \in 1..Len(ring'), NEW c \in ring'[i], c.adm = a,
               \A j \in 1..(i - 1) : ~Within(a, ring'[j])
        PROVE  c.at = 0
    <3>1. i + 1 \in 1..Len(ring) /\ c \in ring[i + 1]
      BY <1>1
    <3>2. ASSUME NEW j \in 1..((i + 1) - 1)
          PROVE  ~Within(a, ring[j])
      <4>1. j \in 1..Len(ring) /\ (j = 1 \/ j - 1 \in 1..(i - 1))
        BY <1>1, <3>1
      <4>2. QED
        BY <1>1, <2>1, <2>4, <4>1
    <3>3. QED
      BY <1>1, <2>2, <2>4, <3>1, <3>2 DEF FromTheStart
  <2>5. QED
    BY <2>3, <2>4
<1>3. QED
  BY <1>2

LEMMA DeviceUninterrupted ==
    ASSUME TypeOK, Lying, Uninterrupted, DeviceTakes
    PROVE  Uninterrupted'
<1> DEFINE unit == ring[1]
<1>1. UNCHANGED <<pc, queue, live, roll, pendingResume, active, offered>>
  BY DEF DeviceTakes, mixer, handover
<1>2. DeviceOn
  BY DeviceGoesOn
<1>3. /\ AtHome /\ AdmittedOnce(roll, queue) /\ Accounted(roll, heardEnd)
      /\ FromTheStart(ring, heardEnd, live, roll) /\ ToTheEnd(ring, heardEnd, live, roll)
  BY DEF Uninterrupted
<1>4. Accounted(roll, heardEnd)' /\ FromTheStart(ring, heardEnd, live, roll)'
  BY <1>2, <1>3, AccountsTaken, StartTaken DEF AdmittedOnce
<1>5. /\ \A c \in unit : c.adm \in 1..Len(roll) /\ c.at \in Nat
      /\ \A c \in unit : heardEnd[c.adm] = c.at /\ heardEnd'[c.adm] = c.at + 1
      /\ \A a \in 1..Len(roll) : ~Within(a, unit) => heardEnd'[a] = heardEnd[a]
      /\ \A i \in 1..Len(ring') : i + 1 \in 1..Len(ring) /\ ring'[i] = ring[i + 1]
      /\ \A i \in 1..Len(ring) : i = 1 \/ (i - 1 \in 1..Len(ring') /\ ring'[i - 1] = ring[i])
      /\ 1 \in 1..Len(ring)
  BY <1>2, <1>3, FrontReached DEF DeviceOn, Lying
<1> HIDE DEF unit
<1>6. ToTheEnd(ring, heardEnd, live, roll)'
  <2>1. \A c \in live' : c.at < Length[roll'[c.adm]]
    BY <1>1, <1>3 DEF ToTheEnd
  <2>2. \A i \in 1..Len(ring') : \A c \in ring'[i] : c.at < Length[roll'[c.adm]]
    BY <1>1, <1>3, <1>5 DEF ToTheEnd
  <2>3. ASSUME NEW a \in 1..Len(roll)
        PROVE  \/ heardEnd'[a] = Length[roll[a]]
               \/ Within(a, live)
               \/ \E i \in 1..Len(ring') : LastOf(a, ring'[i], roll)
    <3>1. CASE heardEnd[a] = Length[roll[a]]
      <4>1. ASSUME NEW c \in unit, c.adm = a PROVE FALSE
        <5>1. c.at = Length[roll[a]] /\ c.at < Length[roll[a]] /\ c.at \in Nat
          BY <1>3, <1>5, <3>1, <4>1 DEF ToTheEnd, unit
        <5>2. QED
          BY <5>1
      <4>2. ~Within(a, unit)
        BY <4>1 DEF Within
      <4>3. QED
        BY <1>5, <3>1, <4>2
    <3>2. CASE Within(a, live)
      BY <3>2
    <3>3. ASSUME NEW i \in 1..Len(ring), LastOf(a, ring[i], roll)
          PROVE  \/ heardEnd'[a] = Length[roll[a]]
                 \/ \E j \in 1..Len(ring') : LastOf(a, ring'[j], roll)
      <4>1. CASE i = 1
        <5>1. PICK c \in unit : c.adm = a /\ c.at + 1 = Length[roll[a]]
          BY <3>3, <4>1 DEF LastOf, unit
        <5>2. QED
          BY <1>5, <5>1
      <4>2. CASE i # 1
        BY <1>5, <3>3, <4>2
      <4>3. QED
        BY <4>1, <4>2
    <3>4. QED
      BY <1>3, <3>1, <3>2, <3>3 DEF ToTheEnd
  <2>4. QED
    BY <1>1, <2>1, <2>2, <2>3 DEF ToTheEnd
<1>7. AtHome' /\ AdmittedOnce(roll, queue)'
  BY <1>1, <1>3 DEF AtHome, AdmittedOnce
<1>8. QED
  BY <1>4, <1>6, <1>7 DEF Uninterrupted

LEMMA CommandUninterrupted ==
    ASSUME TypeOK, OnceEach, Uninterrupted,
           \/ Play \/ Pause \/ EnqueueShutdown
           \/ \E p \in Passages : Enqueue(p) \/ EnqueueNext(p)
           \/ \E i \in 1..(Cardinality(Passages) + 1) :
                 \E delta \in {-1, 1} : ShiftQueued(i, delta)
    PROVE  Uninterrupted'
<1>0. /\ queue \in Seq(Passages \cup {Shutdown}) /\ Once(queue)
      /\ Items(queue) \subseteq offered \cup {Shutdown} /\ pc # "down"
  BY DEF TypeOK, IsQueue, OnceEach, Uninterrupted, AtHome
<1>1. CASE Play \/ Pause
  BY <1>0, <1>1, StandsUninterrupted DEF Play, Pause, handover, history
<1>2. CASE EnqueueShutdown
  <2>1. /\ queue' = Append(queue, Shutdown) /\ Shutdown \notin Items(queue)
        /\ UNCHANGED <<live, roll, pendingResume, output, active, listened, offered, pc>>
    BY <1>2 DEF EnqueueShutdown, Items, mixer, handover, history
  <2>2. Items(queue') = Items(queue) \cup {Shutdown}
    BY <1>0, <2>1, OnceAppended
  <2>3. QED
    BY <1>0, <2>1, <2>2, EditUninterrupted
<1>3. ASSUME NEW p \in Passages, Enqueue(p) \/ EnqueueNext(p)
      PROVE  Uninterrupted'
  <2>1. /\ queue' = Append(queue, p) \/ queue' = <<p>> \o queue
        /\ p \notin offered /\ offered' = offered \cup {p}
        /\ UNCHANGED <<live, roll, pendingResume, output, active, listened, pc>>
    BY <1>3 DEF Enqueue, EnqueueNext, mixer, handover
  <2>2. p \notin Items(queue)
    BY <2>1, OfferedAreNoShutdown
  <2>3. Items(queue') = Items(queue) \cup {p}
    <3>1. /\ Items(Append(queue, p)) = Items(queue) \cup {p}
          /\ Items(<<p>> \o queue) = Items(queue) \cup {p}
      BY <1>0, <2>2, OnceAppended
    <3>2. QED
      BY <2>1, <3>1
  <2>4. QED
    BY <1>0, <2>1, <2>3, EditUninterrupted
<1>4. ASSUME NEW i \in 1..(Cardinality(Passages) + 1), NEW delta \in {-1, 1},
             ShiftQueued(i, delta)
      PROVE  Uninterrupted'
  <2> DEFINE to == ShiftedTo(queue, i, delta)
  <2>1. /\ queue' = Moved(queue, i, to) /\ i \in 1..Len(queue)
        /\ UNCHANGED <<live, roll, pendingResume, output, active, listened, offered, pc>>
    BY <1>4 DEF ShiftQueued, mixer, handover, history
  <2>2. Len(queue) \in Nat
    BY <1>0, LenProperties
  <2>3. to \in 1..Len(queue)
    BY <2>1, <2>2 DEF ShiftedTo, Clamp
  <2> HIDE DEF to
  <2>4. Items(queue') = Items(queue)
    <3>1. Items(Moved(queue, i, to)) \subseteq Items(queue)
      BY <1>0, <2>1, <2>3, OnceMoved
    <3>2. Items(queue) \subseteq Items(Moved(queue, i, to))
      BY <1>0, <2>1, <2>3, MovedKeeps
    <3>3. QED
      BY <2>1, <3>1, <3>2
  <2>5. QED
    BY <1>0, <2>1, <2>4, EditUninterrupted
<1>5. QED
  BY <1>1, <1>2, <1>3, <1>4

LEMMA PassUninterrupted ==
    ASSUME TypeOK, Held, Uninterrupted, Pass
    PROVE  Uninterrupted'
<1>0. queue \in Seq(Passages \cup {Shutdown}) /\ Once(queue) /\ OnceEach
  BY DEF TypeOK, IsQueue, Held, OnceEach
<1>1. CASE Mix
  BY <1>0, <1>1, MixUninterrupted
<1>2. CASE LookPaused \/ LookDeparted \/ LookOn
  BY <1>2, StandsUninterrupted DEF LookPaused, LookDeparted, LookOn, handover, history
<1>3. CASE Show \/ Persist
  BY <1>3, StandsUninterrupted DEF Show, Persist, handover, history
<1>4. CASE ExecuteShutdown
  <2>1. /\ queue # <<>> /\ Head(queue) = Shutdown /\ queue' = Tail(queue)
        /\ UNCHANGED <<live, roll, pendingResume, output, active, listened, offered>>
        /\ pc' = "remember"
    BY <1>4 DEF ExecuteShutdown, ShutdownDue, NextIsShutdown, mixer, handover, history
  <2>2. Items(queue') = Items(queue) \ {Shutdown}
    BY <1>0, <2>1, OnceTail, TailKeeps
  <2>3. QED
    BY <2>1, <2>2, EditUninterrupted
<1>5. CASE Refill
  <2>1. /\ UNCHANGED <<live, roll, pendingResume, output, active, listened>>
        /\ pc' = "commands"
    BY <1>5 DEF Refill, mixer, handover
  <2>2. \/ Items(queue') = Items(queue) /\ offered' = offered
        \/ \E p \in Passages \ offered : /\ Items(queue') = Items(queue) \cup {p}
                                         /\ offered' = offered \cup {p}
    BY <1>5, RefillAdds
  <2>3. QED
    BY <2>1, <2>2, EditUninterrupted
<1>6. QED
  BY <1>1, <1>2, <1>3, <1>4, <1>5 DEF Pass

LEMMA NextUninterrupted ==
    ASSUME NobodyInterrupts, TypeOK, Held, Lying, Uninterrupted, [Next]_vars
    PROVE  Uninterrupted'
<1>0. OnceEach /\ active = "local" /\ pc # "down"
  BY DEF Held, Uninterrupted, AtHome
<1>1. CASE UNCHANGED vars
  BY <1>0, <1>1, StandsUninterrupted DEF vars, handover, history
<1>2. CASE \/ Play \/ Pause \/ EnqueueShutdown
           \/ \E p \in Passages : Enqueue(p) \/ EnqueueNext(p)
           \/ \E i \in 1..(Cardinality(Passages) + 1) :
                 \E delta \in {-1, 1} : ShiftQueued(i, delta)
  BY <1>0, <1>2, CommandUninterrupted
<1>3. ASSUME \/ Skip \/ HandOff \/ Crash \/ Prime
             \/ \E p \in Passages : PlayNow(p)
             \/ \E i \in 1..(Cardinality(Passages) + 1) : RemoveQueued(i)
             \/ \E at \in SeekPoints :
                   Seek(at) \/ \E k \in 1..Cardinality(Passages) : HandBack(k, at)
      PROVE  FALSE
  BY <1>0, <1>3 DEF NobodyInterrupts, Skip, HandOff, Crash, Prime, PlayNow, RemoveQueued, Seek,
                    HandBack, Asking
<1>4. CASE Pass
  BY <1>4, PassUninterrupted
<1>5. CASE DeviceTakes
  BY <1>5, DeviceUninterrupted
<1>6. QED
  BY <1>1, <1>2, <1>3, <1>4, <1>5 DEF Next

LEMMA InitUninterrupted == ASSUME Init PROVE Uninterrupted
<1>1. /\ queue = <<>> /\ live = {} /\ roll = <<>> /\ pendingResume = Nowhere /\ ring = <<>>
      /\ active = "local" /\ pc = "commands" /\ offered = {}
      /\ listened = [p \in Passages |-> 0]
  BY DEF Init
<1>2. Len(roll) = 0 /\ Len(ring) = 0 /\ 1..0 = {}
  BY <1>1
<1>3. AtHome
  BY <1>1 DEF AtHome
<1>4. AdmittedOnce(roll, queue) /\ Accounted(roll, heardEnd)
  BY <1>1, <1>2 DEF AdmittedOnce, Accounted
<1>5. FromTheStart(ring, heardEnd, live, roll) /\ ToTheEnd(ring, heardEnd, live, roll)
  BY <1>1, <1>2 DEF FromTheStart, ToTheEnd
<1>6. QED
  BY <1>3, <1>4, <1>5 DEF Uninterrupted

LEMMA ShutdownComesLast ==
    ASSUME TypeOK, Uninterrupted, ExecuteShutdown, NEW p \in offered \ Unopenable
    PROVE  p \in InQueue \/ listened[p] = Length[p]
<1>1. live = {} /\ ring = <<>> /\ Len(ring) = 0 /\ 1..Len(ring) = {}
  BY DEF ExecuteShutdown, ShutdownDue
<1>2. CASE p \in Items(queue)
  <2>1. p # Shutdown
    BY PassagesAssumption DEF TypeOK
  <2>2. QED
    BY <1>2, <2>1 DEF InQueue, Items
<1>3. CASE p \notin Items(queue)
  <2>1. PICK a \in 1..Len(roll) : roll[a] = p
    BY <1>3 DEF Uninterrupted, AdmittedOnce
  <2>2. ~Within(a, live)
    BY <1>1 DEF Within
  <2>3. heardEnd[a] = Length[p]
    BY <1>1, <2>1, <2>2 DEF Uninterrupted, ToTheEnd
  <2>4. QED
    BY <2>1, <2>3 DEF Uninterrupted, Accounted
<1>4. QED
  BY <1>2, <1>3

(* A queued shutdown interrupts nothing: as long as nobody skips, seeks,    *)
(* removes, hands over or pulls the plug, when it stops the player all that *)
(* was ever queued either waits behind it or was played to its last unit,   *)
(* crossfades and the ring included ([SPEC-QSD-060],                        *)
(* check_queued_shutdown).                                                  *)
THEOREM ShutdownComesAfterAll ==
    ASSUME NobodyInterrupts
    PROVE  Spec => ShutdownInterruptsNothing
<1> DEFINE Inv == TypeOK /\ Held /\ Credible /\ Uninterrupted
           Last == ~shutdownSaved /\ shutdownSaved' =>
                      \A p \in offered \ Unopenable : p \in InQueue \/ listened[p] = Length[p]
<1>0. "seek" \notin Asks
  BY DEF NobodyInterrupts
<1>1. Init => Inv
  BY InitShape, InitHeld, InitCredible, InitUninterrupted
<1>2. Inv /\ [Next]_vars => Inv'
  <2> SUFFICES ASSUME Inv, [Next]_vars PROVE Inv'
    OBVIOUS
  <2>1. TypeOK' /\ Credible' /\ Held'
    BY <1>0, NextKeepsShape, NextKeepsCredit, NextHeld
  <2>2. Uninterrupted'
    BY NextUninterrupted DEF Credible
  <2>3. QED
    BY <2>1, <2>2
<1>3. Inv /\ [Next]_vars => [Last]_vars
  <2> SUFFICES ASSUME Inv, [Next]_vars, ~shutdownSaved, shutdownSaved' PROVE Last
    OBVIOUS
  <2>1. ExecuteShutdown
    BY DEF Next, vars, Pass, Play, Pause, Skip, EnqueueShutdown, HandOff, Enqueue, EnqueueNext,
           PlayNow, RemoveQueued, ShiftQueued, Seek, HandBack, Mix, LookPaused, LookDeparted,
           LookOn, Show, Persist, Refill, DeviceTakes, Crash, Prime, store
  <2>2. QED
    BY <2>1, ShutdownComesLast
<1>4. QED
  BY <1>1, <1>2, <1>3, PTL DEF Spec, ShutdownInterruptsNothing


-----------------------------------------------------------------------------
(* The display never goes back.  Where no cut is longer than what is laid   *)
(* along it, the mixer holds the latest admissions, and the later of them   *)
(* end later; so once a unit is of an admission every unit after it that    *)
(* has anything older has it too, and what is heard only ever moves on.     *)

\* Nobody seeks with a saved place waiting for a passage that was taken away.
SeeksHaveTheMixer == "seek" \in Asks => "handoff" \notin Asks \/ FrontLeftAlone

\* What a cut may open at: the start, or where somebody may seek.
CutPoints == {0} \cup {at \in SeekPoints : "seek" \in Asks}

CutsAreCovered ==
    \A p \in Passages : \A at \in CutPoints :
        at < Length[p] => at + Fade <= Length[p] + Lead

\* What is left of a contribution's passage.
Rest(c, r) == Length[r[c.adm]] - c.at

Topmost(l, r) ==
    /\ \A c \in l : \A b \in c.adm..Len(r) : Within(b, l)
    /\ \A c, d \in l : c.adm <= d.adm => Rest(c, r) <= Rest(d, r)

Rising(units, last) ==
    \A j \in 1..Len(units) : \A e \in units[j] :
        /\ e.adm < last => Within(last, units[j])
        /\ \A i \in 1..(j - 1) : \A c \in units[i] : e.adm < c.adm => Within(c.adm, units[j])

\* The display is not ahead of what is heard, or of what a cut announced.
Promised == IF announced = 0 THEN shown <= Audible.adm ELSE shown <= announced

\* A place is only ever saved for an empty mixer.
Waiting ==
    /\ pendingResume # Nowhere \/ pc = "down" => live = {}
    /\ "handoff" \notin Asks =>
          active = "local" /\ (pendingResume # Nowhere \/ pc = "down" => roll = <<>>)

Ordered == Waiting /\ Topmost(live, roll) /\ Rising(ring, lastHeard) /\ Promised

LEMMA LatestIsLast ==
    ASSUME NEW n \in Nat, NEW unit, unit \subseteq [adm : 1..n, at : Nat], unit # {}
    PROVE  Latest(unit) \in unit /\ \A d \in unit : d.adm <= Latest(unit).adm
<1>1. \E c \in unit : \A d \in unit : d.adm <= c.adm
  <2> DEFINE T == {n - c.adm : c \in unit}
  <2>1. T \subseteq Nat /\ T # {}
    OBVIOUS
  <2>2. PICK x \in T : \A y \in T : x <= y
    BY <2>1, LeastOfAny
  <2>3. PICK c \in unit : x = n - c.adm
    BY <2>2
  <2>4. \A d \in unit : d.adm <= c.adm
    <3> TAKE d \in unit
    <3>1. n - c.adm <= n - d.adm
      BY <2>2, <2>3
    <3>2. c.adm \in Nat /\ d.adm \in Nat
      OBVIOUS
    <3>3. QED
      BY <3>1, <3>2
  <2>5. QED
    BY <2>4
<1>2. QED
  BY <1>1 DEF Latest

\* What is heard of a ring.
Sounded(units, last) ==
    IF Len(units) > 0 /\ units[1] # {} THEN Latest(units[1]).adm ELSE last

LEMMA SoundedIs ==
    ASSUME TypeOK
    PROVE  Audible.adm = Sounded(ring, lastHeard)
<1>1. CASE ring # <<>>
  BY <1>1, FrontOfRing DEF Audible, Sounded
<1>2. CASE ring = <<>>
  <2>1. Len(ring) = 0 /\ Covering = {}
    BY <1>2, FrontOfRing
  <2>2. QED
    BY <2>1 DEF Audible, Sounded
<1>3. QED
  BY <1>1, <1>2

LEMMA SoundedNext ==
    ASSUME TypeOK'
    PROVE  (Audible.adm)' = Sounded(ring', lastHeard')
<1>1. IsRing(ring', roll')
  BY DEF TypeOK, IsRing, Units, Contributions
<1>2. CASE Len(ring') > 0
  <2>1. Covering' = ring'[1]
    BY <1>1, <1>2, FrontOfNext
  <2>2. QED
    BY <1>2, <2>1 DEF Audible, Sounded
<1>3. CASE ~(Len(ring') > 0)
  <2>1. Len(ring') \in Nat
    BY <1>1, UnitFacts
  <2>2. ring' = <<>>
    BY <1>1, <1>3, <2>1, EmptySeq DEF IsRing
  <2>3. Covering' = {}
    BY <2>2 DEF Covering
  <2>4. QED
    BY <1>3, <2>3 DEF Audible, Sounded
<1>4. QED
  BY <1>2, <1>3

LEMMA SoundedTyped ==
    ASSUME NEW r \in Seq(Passages), NEW units, IsRing(units, r), NEW last \in 0..Len(r)
    PROVE  Sounded(units, last) \in 0..Len(r)
<1>1. CASE Len(units) > 0 /\ units[1] # {}
  <2>1. 1 \in 1..Len(units) /\ Len(r) \in Nat
    BY <1>1, UnitFacts, LenProperties
  <2>2. units[1] \subseteq [adm : 1..Len(r), at : Nat]
    BY <2>1, ElementOfSeq DEF IsRing, Units
  <2>3. Latest(units[1]) \in units[1]
    BY <1>1, <2>1, <2>2, LatestIsLast
  <2>4. QED
    BY <1>1, <2>1, <2>2, <2>3 DEF Sounded
<1>2. CASE ~(Len(units) > 0 /\ units[1] # {})
  BY <1>2 DEF Sounded
<1>3. QED
  BY <1>1, <1>2

LEMMA SoundedTops ==
    ASSUME NEW r \in Seq(Passages), NEW units, IsRing(units, r),
           NEW last \in 0..Len(r), Rising(units, last)
    PROVE  last <= Sounded(units, last)
<1>1. Len(r) \in Nat /\ Len(units) \in Nat
  BY LenProperties DEF IsRing
<1>2. CASE Len(units) > 0 /\ units[1] # {}
  <2>1. 1 \in 1..Len(units)
    BY <1>1, <1>2
  <2>2. units[1] \subseteq [adm : 1..Len(r), at : Nat]
    BY <2>1, ElementOfSeq DEF IsRing, Units
  <2> DEFINE m == Latest(units[1])
  <2>3. m \in units[1] /\ \A d \in units[1] : d.adm <= m.adm
    BY <1>1, <1>2, <2>2, LatestIsLast
  <2> HIDE DEF m
  <2>4. m.adm < last => Within(last, units[1])
    BY <2>1, <2>3 DEF Rising
  <2>5. m.adm \in 1..Len(r)
    BY <2>2, <2>3
  <2>6. last <= m.adm
    BY <1>1, <2>3, <2>4, <2>5 DEF Within
  <2>7. QED
    BY <1>2, <2>6 DEF Sounded, m
<1>3. CASE ~(Len(units) > 0 /\ units[1] # {})
  <2>1. Sounded(units, last) = last
    BY <1>3 DEF Sounded
  <2>2. QED
    BY <1>1, <2>1
<1>4. QED
  BY <1>2, <1>3


-----------------------------------------------------------------------------
(* The mixer stays topmost.                                                *)

LEMMA NothingIsTopmost == ASSUME NEW r PROVE Topmost({}, r)
BY DEF Topmost

LEMMA AdmissionTopmost ==
    ASSUME TypeOK, NEW q, IsQueue(q), NEW l, l # {} => pendingResume = Nowhere,
           IsMixer(l, roll), Topmost(l, roll)
    PROVE  LET a == Admission(q, l)
           IN  /\ Topmost(a.live, a.roll)
               /\ \/ a.live = l /\ a.roll = roll /\ a.resume \in {pendingResume, Nowhere}
                  \/ /\ a.live = l \cup {Opened(Origin(Head(q)))} /\ a.resume = Nowhere
                     /\ Head(q) \in Passages /\ a.roll = Append(roll, Head(q))
<1> DEFINE a == Admission(q, l)
           p == Head(q)
           r == Append(roll, p)
<1>1. CASE ~Due(q, l)
  BY <1>1 DEF Admission
<1>2. CASE Due(q, l) /\ p \in Unopenable
  BY <1>2 DEF Admission
<1>3. CASE Due(q, l) /\ p \notin Unopenable
  <2>1. q # <<>> /\ p \in Passages /\ MayFollow(p, l)
    BY <1>3, TailQueue DEF Due
  <2>2. Origin(p) \in Nat /\ (l # {} => Origin(p) = 0)
    BY <2>1, OriginTyped DEF Origin
  <2>3. a = [queue |-> Tail(q), live |-> l \cup {Opened(Origin(p))}, roll |-> r,
             resume |-> Nowhere, dropped |-> {}]
    BY <1>3 DEF Admission
  <2>4. /\ Len(r) = Len(roll) + 1 /\ r[Len(roll) + 1] = p /\ Len(roll) \in Nat
        /\ \A i \in 1..Len(roll) : r[i] = roll[i]
    BY <2>1, RollGrows, RollFacts DEF Extends
  <2>5. Length[p] \in Nat
    BY <2>1, LengthOf
  <2> DEFINE new == Opened(Origin(p))
             n == Len(roll)
  <2>6. new.adm = n + 1 /\ new.at \in Nat /\ (l # {} => new.at = 0)
    BY <2>2 DEF Opened
  <2>7. \A c \in l : /\ c.adm \in 1..n /\ c.at \in Nat /\ r[c.adm] = roll[c.adm]
                     /\ Length[roll[c.adm]] \in Nat /\ c.at <= Length[roll[c.adm]]
    <3> TAKE c \in l
    <3>1. c.adm \in 1..n /\ c.at \in Nat /\ c.at <= Length[roll[c.adm]]
      BY DEF IsMixer
    <3>2. roll[c.adm] \in Passages
      BY <3>1, RollFacts
    <3>3. QED
      BY <2>4, <3>1, <3>2, LengthOf
  <2> HIDE DEF new, r, p
  <2>8. ASSUME NEW c \in l
        PROVE  Length[roll[c.adm]] - c.at <= Length[p]
    <3> DEFINE m == Latest(l)
               out == roll[m.adm]
    <3>1. l \subseteq [adm : 1..n, at : Nat]
      BY DEF IsMixer
    <3>2. m \in l /\ c.adm <= m.adm
      BY <2>4, <3>1, LatestIsLast
    <3>3. Rest(c, roll) <= Rest(m, roll)
      BY <3>2 DEF Topmost
    <3>4. ShouldAdmit(Length[out], m.at, Overlap(LeadOut[out], LeadIn[p], Length[out], Length[p]))
      BY <2>1 DEF MayFollow
    <3> HIDE DEF m
    <3>5. /\ out \in Passages /\ LeadOut[out] \in Nat /\ LeadIn[p] \in Nat
          /\ Length[out] \in Nat /\ m.at \in Nat /\ m.at <= Length[out]
      BY <2>1, <2>7, <3>2, RollFacts, SpanAssumption, LengthOf
    <3>6. Overlap(LeadOut[out], LeadIn[p], Length[out], Length[p]) <= Length[p]
          /\ Overlap(LeadOut[out], LeadIn[p], Length[out], Length[p]) \in Nat
      BY <2>5, <3>5 DEF Overlap, Least
    <3>7. Length[out] - m.at <= Length[p]
      BY <2>5, <3>4, <3>5, <3>6 DEF ShouldAdmit
    <3>8. QED
      BY <2>5, <2>7, <3>3, <3>5, <3>7 DEF Rest
  <2>9. Topmost(l \cup {new}, r)
    <3>1. ASSUME NEW c \in l \cup {new}, NEW b \in c.adm..Len(r)
          PROVE  Within(b, l \cup {new})
      <4>1. CASE b = n + 1
        BY <2>6, <4>1 DEF Within
      <4>2. CASE b # n + 1
        <5>1. c \in l
          BY <2>4, <2>6, <4>2
        <5>2. b \in c.adm..n
          BY <2>4, <2>7, <4>2, <5>1
        <5>3. Within(b, l)
          BY <5>1, <5>2 DEF Topmost
        <5>4. QED
          BY <5>3 DEF Within
      <4>3. QED
        BY <4>1, <4>2
    <3>2. ASSUME NEW c \in l \cup {new}, NEW d \in l \cup {new}, c.adm <= d.adm
          PROVE  Rest(c, r) <= Rest(d, r)
      <4>1. CASE c \in l /\ d \in l
        <5>1. Rest(c, roll) <= Rest(d, roll)
          BY <3>2, <4>1 DEF Topmost
        <5>2. QED
          BY <2>7, <4>1, <5>1 DEF Rest
      <4>2. CASE c \in l /\ d = new
        BY <2>4, <2>5, <2>6, <2>7, <2>8, <4>2 DEF Rest
      <4>3. CASE c = new /\ d \in l
        BY <2>4, <2>6, <2>7, <3>2, <4>3
      <4>4. CASE c = new /\ d = new
        BY <2>4, <2>5, <2>6, <4>4 DEF Rest
      <4>5. QED
        BY <4>1, <4>2, <4>3, <4>4
    <3>3. QED
      BY <3>1, <3>2 DEF Topmost
  <2>10. QED
    BY <2>1, <2>3, <2>4, <2>9 DEF new, r, p
<1>4. QED
  BY <1>1, <1>2, <1>3

(* The later end later, so what still gives is topmost too.                *)
LEMMA GivingTopmost ==
    ASSUME NEW r \in Seq(Passages), NEW l, IsMixer(l, r), Topmost(l, r)
    PROVE  Topmost(Giving(l, r), r) /\ Topmost(On(Giving(l, r), 1), r)
<1> DEFINE g == Giving(l, r)
<1>1. \A c \in l : /\ c \in [adm : 1..Len(r), at : Nat] /\ Length[r[c.adm]] \in Nat
  BY ElementOfSeq, LengthOf DEF IsMixer
<1>2. \A c \in g : c \in l /\ c.at < Length[r[c.adm]]
  BY DEF Giving
<1>3. \A c \in l : c.at < Length[r[c.adm]] => c \in g
  BY DEF Giving
<1>0. Len(r) \in Nat
  BY LenProperties
<1> HIDE DEF g
<1>4. ASSUME NEW c \in g, NEW b \in c.adm..Len(r)
      PROVE  Within(b, g)
  <2>1. PICK d \in l : d.adm = b
    BY <1>2 DEF Topmost, Within
  <2>2. Rest(c, r) <= Rest(d, r)
    BY <1>0, <1>1, <1>2, <2>1 DEF Topmost
  <2>3. d.at < Length[r[d.adm]]
    BY <1>1, <1>2, <2>2 DEF Rest
  <2>4. QED
    BY <1>3, <2>1, <2>3 DEF Within
<1>5. \A c, d \in g : c.adm <= d.adm => Rest(c, r) <= Rest(d, r)
  BY <1>2 DEF Topmost
<1>6. \A c \in On(g, 1) : \E d \in g : c = [d EXCEPT !.at = @ + 1]
  BY DEF On
<1>7. \A c \in On(g, 1) : \E d \in g : c.adm = d.adm /\ c.at = d.at + 1
  BY <1>1, <1>2, <1>6
<1>8. \A d \in g : Within(d.adm, On(g, 1))
  <2> TAKE d \in g
  <2>1. [d EXCEPT !.at = @ + 1] \in On(g, 1) /\ [d EXCEPT !.at = @ + 1].adm = d.adm
    BY <1>1, <1>2 DEF On
  <2>2. QED
    BY <2>1 DEF Within
<1>9. Topmost(On(g, 1), r)
  <2>1. ASSUME NEW c \in On(g, 1), NEW b \in c.adm..Len(r)
        PROVE  Within(b, On(g, 1))
    <3>1. PICK d \in g : c.adm = d.adm
      BY <1>7
    <3>2. PICK e \in g : e.adm = b
      BY <1>4, <3>1 DEF Within
    <3>3. QED
      BY <1>8, <3>2
  <2>2. ASSUME NEW c \in On(g, 1), NEW d \in On(g, 1), c.adm <= d.adm
        PROVE  Rest(c, r) <= Rest(d, r)
    <3>1. PICK x \in g : c.adm = x.adm /\ c.at = x.at + 1
      BY <1>7
    <3>2. PICK y \in g : d.adm = y.adm /\ d.at = y.at + 1
      BY <1>7
    <3>3. Rest(x, r) <= Rest(y, r)
      BY <1>5, <2>2, <3>1, <3>2
    <3>4. QED
      BY <1>1, <1>2, <3>1, <3>2, <3>3 DEF Rest
  <2>3. QED
    BY <2>1, <2>2 DEF Topmost
<1>10. QED
  BY <1>4, <1>5, <1>9 DEF Topmost, g

-----------------------------------------------------------------------------
(* A cut keeps the ring rising: it lays the newcomer to the ring's end, or  *)
(* not at all.                                                             *)

LEMMA CutRises ==
    ASSUME TypeOK, NEW left, IsRing(left, roll), NEW last \in 0..Len(roll), Rising(left, last),
           NEW r, Extends(r), NEW l,
           \/ l = {}
           \/ \E at \in Nat : /\ l = {Opened(at)} /\ Len(r) = Len(roll) + 1
                              /\ at < Length[r[Len(roll) + 1]]
                              /\ at + Fade <= Length[r[Len(roll) + 1]] + Lead,
           NEW n \in Decoded(left, l, r)
    PROVE  Rising(CutOver(left, l, n), last) /\ Topmost(On(l, n), r)
<1> DEFINE k == Len(Kept(left))
           w == CutOver(left, l, n)
           laid(i) == IF i > Lead /\ i <= Lead + n THEN On(l, i - Lead - 1) ELSE {}
<1>1. /\ Len(roll) \in Nat /\ Len(r) \in Nat /\ Lead \in Nat /\ Lead > 0 /\ Fade \in Nat
      /\ r \in Seq(Passages)
  BY RollFacts, LenProperties, DeviceAssumption DEF Extends
<1>2. k \in Nat /\ k <= Len(left) /\ k <= Fade /\ Len(left) \in Nat
  BY KeptTyped, UnitFacts
<1>3. \A i \in 1..Len(left) : \A c \in left[i] : c.adm \in 1..Len(roll)
  BY UnitFacts
<1>4. Len(w) = k /\ \A i \in 1..k : w[i] = left[i] \cup laid(i)
  BY CutUnits
<1>5. Wanted(left) = IF k > Lead THEN k - Lead ELSE 0
  BY DEF Wanted
<1> HIDE DEF k, w
<1>6. CASE l = {}
  <2>1. \A i \in 1..k : laid(i) = {}
    BY <1>6 DEF On
  <2> HIDE DEF laid
  <2>2. \A i \in 1..k : w[i] = left[i] /\ i \in 1..Len(left)
    <3> TAKE i \in 1..k
    <3>1. w[i] = left[i] \cup laid(i) /\ laid(i) = {}
      BY <1>4, <2>1
    <3>2. i \in 1..Len(left)
      BY <1>2
    <3>3. QED
      BY <3>1, <3>2
  <2>3. Rising(w, last)
    BY <1>2, <1>4, <2>2 DEF Rising
  <2>4. On(l, n) = {}
    BY <1>6 DEF On
  <2>5. QED
    BY <2>3, <2>4, NothingIsTopmost DEF w
<1>7. CASE \E at \in Nat : /\ l = {Opened(at)} /\ Len(r) = Len(roll) + 1
                           /\ at < Length[r[Len(roll) + 1]]
                           /\ at + Fade <= Length[r[Len(roll) + 1]] + Lead
  <2>1. PICK at \in Nat : /\ l = {Opened(at)} /\ Len(r) = Len(roll) + 1
                          /\ at < Length[r[Len(roll) + 1]]
                          /\ at + Fade <= Length[r[Len(roll) + 1]] + Lead
    BY <1>7
  <2> DEFINE o == Opened(at)
             new == Len(roll) + 1
  <2>2. o.adm = new /\ o.at = at
    BY DEF Opened
  <2>3. Length[r[new]] \in Nat
    BY <1>1, <2>1, ElementOfSeq, LengthOf
  <2>4. n = 0 \/ n = Wanted(left)
    <3>1. n = 0 \/ n = Least(Wanted(left), Length[r[o.adm]] - o.at)
      BY <2>1 DEF Decoded
    <3>2. Wanted(left) <= Length[r[new]] - at
      BY <1>1, <1>2, <1>5, <2>1, <2>3
    <3>3. QED
      BY <1>1, <1>2, <1>5, <2>1, <2>2, <2>3, <3>1, <3>2 DEF Least
  <2>5. n \in Nat
    BY <1>1, <1>2, <1>5, <2>4
  <2> HIDE DEF o
  <2>6. ASSUME NEW i
        PROVE  On(l, i) = {[o EXCEPT !.at = @ + i]} /\ [o EXCEPT !.at = @ + i].adm = new
    <3>1. On(l, i) = {[o EXCEPT !.at = @ + i]}
      BY <2>1 DEF On, o
    <3>2. [o EXCEPT !.at = @ + i].adm = new
      BY <2>2 DEF o, Opened
    <3>3. QED
      BY <3>1, <3>2
  <2>7. \A i \in 1..k : \A c \in laid(i) : c.adm = new
    BY <2>6
  <2>8. ASSUME NEW i \in 1..k, laid(i) # {}, NEW j \in 1..k, i < j
        PROVE  Within(new, laid(j))
    <3>1. i > Lead /\ i <= Lead + n
      BY <2>8
    <3>2. n = k - Lead /\ k > Lead
      BY <1>1, <1>2, <1>5, <2>4, <3>1
    <3>3. j > Lead /\ j <= Lead + n
      BY <1>1, <1>2, <2>8, <3>1, <3>2
    <3>4. QED
      BY <2>6, <3>3 DEF Within
  <2> HIDE DEF laid
  <2>9. ASSUME NEW j \in 1..k, NEW e \in w[j]
        PROVE  /\ e.adm < last => Within(last, w[j])
               /\ \A i \in 1..(j - 1) : \A c \in w[i] : e.adm < c.adm => Within(c.adm, w[j])
    <3>1. j \in 1..Len(left) /\ w[j] = left[j] \cup laid(j)
      BY <1>2, <1>4
    <3>2. CASE e \in left[j]
      <4>1. e.adm < last => Within(last, w[j])
        BY <3>1, <3>2 DEF Rising, Within
      <4>2. ASSUME NEW i \in 1..(j - 1), NEW c \in w[i], e.adm < c.adm
            PROVE  Within(c.adm, w[j])
        <5>1. i \in 1..k /\ i < j /\ w[i] = left[i] \cup laid(i)
          BY <1>2, <1>4
        <5>2. CASE c \in left[i]
          BY <3>1, <3>2, <4>2, <5>2 DEF Rising, Within
        <5>3. CASE c \in laid(i)
          <6>1. c.adm = new /\ Within(new, laid(j))
            BY <2>7, <2>8, <5>1, <5>3
          <6>2. QED
            BY <3>1, <6>1 DEF Within
        <5>4. QED
          BY <4>2, <5>1, <5>2, <5>3
      <4>3. QED
        BY <4>1, <4>2
    <3>3. CASE e \in laid(j)
      <4>1. e.adm = new
        BY <2>7, <3>3
      <4>2. \A i \in 1..(j - 1) : \A c \in w[i] : c.adm <= new
        <5> TAKE i \in 1..(j - 1)
        <5> TAKE c \in w[i]
        <5>1. i \in 1..k /\ i \in 1..Len(left) /\ w[i] = left[i] \cup laid(i)
          BY <1>2, <1>4
        <5>2. QED
          BY <1>1, <1>3, <2>7, <5>1
      <4>3. ~(e.adm < last)
        BY <1>1, <4>1
      <4>4. \A i \in 1..(j - 1) : \A c \in w[i] : ~(e.adm < c.adm)
        <5> TAKE i \in 1..(j - 1)
        <5> TAKE c \in w[i]
        <5>1. i \in 1..k /\ i \in 1..Len(left) /\ w[i] = left[i] \cup laid(i)
          BY <1>2, <1>4
        <5>2. c.adm \in Nat
          BY <1>1, <1>3, <2>7, <5>1
        <5>3. QED
          BY <1>1, <4>1, <4>2, <5>2
      <4>5. QED
        BY <4>3, <4>4
    <3>4. QED
      BY <3>1, <3>2, <3>3
  <2>10. Rising(w, last)
    BY <1>4, <2>9 DEF Rising
  <2>11. Topmost(On(l, n), r)
    <3> DEFINE c == [o EXCEPT !.at = @ + n]
    <3>1. On(l, n) = {c} /\ c.adm = new
      BY <2>6
    <3>2. c.at = at + n
      BY <2>2, <2>6 DEF o, Opened
    <3> HIDE DEF c
    <3>3. \A b \in c.adm..Len(r) : b = new
      BY <1>1, <2>1, <3>1
    <3>4. Rest(c, r) <= Rest(c, r)
      BY <2>1, <2>3, <2>5, <3>1, <3>2 DEF Rest
    <3>5. QED
      BY <3>1, <3>3, <3>4 DEF Topmost, Within
  <2>12. QED
    BY <2>10, <2>11 DEF w
<1>8. QED
  BY <1>6, <1>7


-----------------------------------------------------------------------------
(* The order through each step.                                            *)

\* Once something is on screen, a later step shows it or what came later.
ShowsOn == shown' # 0 => shown' >= shown

LEMMA OrderedStays ==
    ASSUME TypeOK, Ordered, UNCHANGED <<live, roll, pendingResume, output, active, display>>,
           pc' # "down"
    PROVE  Ordered' /\ ShowsOn
<1>1. UNCHANGED <<ring, heardEnd, lastHeard, shown, announced>>
  BY DEF output, display
<1>2. Covering' = Covering
  BY <1>1 DEF Covering
<1>3. Audible' = Audible
  BY <1>1, <1>2 DEF Audible
<1>4. Waiting' /\ Topmost(live, roll)' /\ Rising(ring, lastHeard)'
  BY <1>1 DEF Ordered, Waiting
<1>5. Promised'
  BY <1>1, <1>3 DEF Ordered, Promised
<1>6. shown \in Nat
  BY RollFacts DEF TypeOK
<1>7. QED
  BY <1>1, <1>4, <1>5, <1>6 DEF Ordered, ShowsOn

(* The unheard are forgotten, and what was heard last is not unheard.      *)
LEMMA ForgottenRises ==
    ASSUME TypeOK, HasHeard, Rising(ring, lastHeard)
    PROVE  Rising(Forgotten(ring, Unheard), lastHeard)
<1> DEFINE f == Forgotten(ring, Unheard)
<1>1. /\ Len(f) = Len(ring) /\ Len(ring) \in Nat
      /\ \A i \in 1..Len(ring) : f[i] = {c \in ring[i] : c.adm \notin Unheard}
  BY RingTyped, ForgottenTyped, UnitFacts DEF Forgotten
<1> HIDE DEF f
<1>2. lastHeard # 0 => lastHeard \notin Unheard
  <2> SUFFICES ASSUME lastHeard # 0 PROVE lastHeard \notin Unheard
    OBVIOUS
  <2>1. lastHeard \in 1..Len(roll) /\ Len(roll) \in Nat
    BY RollFacts DEF TypeOK
  <2>2. heardEnd[lastHeard] > 0 /\ heardEnd[lastHeard] \in Nat
    BY <2>1, HeardEndOf DEF HasHeard
  <2>3. CASE \E c \in Covering : c.adm = lastHeard
    <3> DEFINE d == CHOOSE c \in Covering : c.adm = lastHeard
    <3>1. d \in Covering /\ HeardTo(lastHeard) = d.at
      BY <2>3 DEF HeardTo
    <3> HIDE DEF d
    <3>2. d.at \in Nat
      BY <3>1, CoveringTyped
    <3>3. HeardTo(lastHeard) # Nowhere
      BY <3>1, <3>2 DEF Nowhere
    <3>4. QED
      BY <3>3 DEF Unheard
  <2>4. CASE ~\E c \in Covering : c.adm = lastHeard
    <3>1. HeardTo(lastHeard) # Nowhere
      BY <2>2, <2>4 DEF HeardTo, Nowhere
    <3>2. QED
      BY <3>1 DEF Unheard
  <2>5. QED
    BY <2>3, <2>4
<1>3. ASSUME NEW j \in 1..Len(f), NEW e \in f[j]
      PROVE  /\ e.adm < lastHeard => Within(lastHeard, f[j])
             /\ \A i \in 1..(j - 1) : \A c \in f[i] : e.adm < c.adm => Within(c.adm, f[j])
  <2>1. e \in ring[j] /\ j \in 1..Len(ring)
    BY <1>1
  <2>2. ASSUME e.adm < lastHeard
        PROVE  Within(lastHeard, f[j])
    <3>1. Within(lastHeard, ring[j])
      BY <2>1, <2>2 DEF Rising
    <3>2. e.adm \in Nat /\ e.adm > 0 /\ lastHeard \in Nat
      <4>1. e.adm \in 1..Len(roll)
        BY <2>1, RingTyped, UnitFacts
      <4>2. Len(roll) \in Nat /\ lastHeard \in 0..Len(roll)
        BY RollFacts DEF TypeOK
      <4>3. QED
        BY <4>1, <4>2
    <3>3. lastHeard \notin Unheard
      BY <1>2, <2>2, <3>2
    <3>4. QED
      BY <1>1, <2>1, <3>1, <3>3 DEF Within
  <2>3. ASSUME NEW i \in 1..(j - 1), NEW c \in f[i], e.adm < c.adm
        PROVE  Within(c.adm, f[j])
    <3>1. i \in 1..Len(ring)
      BY <1>1, <2>1
    <3>2. c \in ring[i] /\ c.adm \notin Unheard
      BY <1>1, <3>1
    <3>3. Within(c.adm, ring[j])
      BY <2>1, <2>3, <3>2 DEF Rising
    <3>4. QED
      BY <1>1, <2>1, <3>2, <3>3 DEF Within
  <2>4. QED
    BY <2>2, <2>3
<1>4. QED
  BY <1>3 DEF Rising, f

LEMMA SkipOrdered ==
    ASSUME CutsAreCovered, TypeOK, HasHeard, Ordered, NEW q, IsQueue(q), SkipFrom(q),
           active' = active \/ "handoff" \in Asks, pc' # "down"
    PROVE  Ordered' /\ ShowsOn
<1>0. /\ Waiting /\ Topmost(live, roll) /\ Rising(ring, lastHeard) /\ Promised
      /\ live # {} => pendingResume = Nowhere
  BY DEF Ordered, Waiting
<1>1. /\ Len(roll) \in Nat /\ IsRing(ring, roll) /\ lastHeard \in 0..Len(roll)
      /\ shown \in 0..Len(roll) /\ Len(ring) \in Nat
  BY RollFacts, RingTyped, UnitFacts DEF TypeOK
<1>2. CASE SkipNothing(q)
  <2>1. UNCHANGED <<live, roll, pendingResume, ring, heardEnd, lastHeard, shown, announced>>
    BY <1>2 DEF SkipNothing, mixer, output, display
  <2>2. Covering' = Covering
    BY <2>1 DEF Covering
  <2>3. Audible' = Audible
    BY <2>1, <2>2 DEF Audible
  <2>4. Waiting'
    BY <1>0, <2>1 DEF Waiting
  <2>5. Promised' /\ ShowsOn
    BY <1>0, <1>1, <2>1, <2>3 DEF Promised, ShowsOn
  <2>6. QED
    BY <1>0, <2>1, <2>4, <2>5 DEF Ordered
<1>3. CASE SkipToShutdown(q)
  <2>1. /\ live' = {} /\ ring' = Kept(ring) /\ shown' = 0 /\ announced' = Len(roll) + 1
        /\ UNCHANGED <<roll, pendingResume, lastHeard>>
    BY <1>3 DEF SkipToShutdown
  <2>2. /\ Len(Kept(ring)) \in Nat /\ Len(Kept(ring)) <= Len(ring)
        /\ \A i \in 1..Len(Kept(ring)) : Kept(ring)[i] = ring[i]
    BY <1>1, KeptTyped
  <2>3. Rising(Kept(ring), lastHeard)
    <3> DEFINE k == Kept(ring)
    <3> HIDE DEF k
    <3>1. \A i \in 1..Len(k) : i \in 1..Len(ring) /\ k[i] = ring[i]
      BY <1>1, <2>2 DEF k
    <3>2. \A j \in 1..Len(k) : \A i \in 1..(j - 1) : i \in 1..Len(k)
      BY <2>2 DEF k
    <3>3. Rising(k, lastHeard)
      BY <1>0, <3>1, <3>2 DEF Rising
    <3>4. QED
      BY <3>3 DEF k
  <2>4. Promised'
    BY <1>1, <2>1 DEF Promised
  <2>5. Waiting'
    BY <1>0, <1>3, <2>1 DEF Waiting, SkipToShutdown
  <2>6. QED
    BY <2>1, <2>3, <2>4, <2>5, NothingIsTopmost DEF Ordered, ShowsOn
<1>4. CASE SkipToNext(q)
  <2> DEFINE a == Admission(q, {})
             r == a.roll
             l == a.live
             left == Forgotten(ring, Unheard)
  <2>1. IsMixer({}, roll) /\ Topmost({}, roll)
    BY FS_EmptySet, NothingIsTopmost DEF IsMixer
  <2>0. pendingResume = Nowhere /\ \A p : Origin(p) = 0
    BY <1>0, <1>4 DEF SkipToNext, Origin
  <2>2. /\ a.resume = Nowhere
        /\ \/ l = {} /\ r = roll
           \/ /\ l = {} \cup {Opened(Origin(Head(q)))}
              /\ Head(q) \in Passages /\ r = Append(roll, Head(q))
    BY <2>0, <2>1, AdmissionTopmost
  <2>3. Extends(r)
    BY <2>1, AdmissionTyped
  <2>4. PICK n \in Decoded(left, l, r) :
             /\ roll' = r /\ live' = On(l, n) /\ pendingResume' = a.resume
             /\ ring' = CutOver(left, l, n)
             /\ shown' = IF l = {} THEN 0 ELSE Len(r)
             /\ announced' = Len(roll) + 1
             /\ lastHeard' = lastHeard
    BY <1>4 DEF SkipToNext
  <2>5. Rising(left, lastHeard) /\ IsRing(left, roll)
    BY <1>0, <1>1, ForgottenRises, ForgottenTyped
  <2>6. \/ l = {}
        \/ /\ l = {Opened(0)} /\ Len(r) = Len(roll) + 1
           /\ r[Len(roll) + 1] \in Passages
    <3>1. CASE l = {}
      BY <3>1
    <3>2. CASE l # {}
      <4>1. Head(q) \in Passages /\ r = Append(roll, Head(q)) /\ l = {Opened(0)}
        BY <2>0, <2>2, <3>2
      <4>2. Len(r) = Len(roll) + 1 /\ r[Len(roll) + 1] = Head(q)
        BY <4>1, RollGrows
      <4>3. QED
        BY <4>1, <4>2
    <3>3. QED
      BY <3>1, <3>2
  <2>7. a.resume = Nowhere /\ (l # {} => Len(r) = Len(roll) + 1)
    BY <2>2, <2>6
  <2> HIDE DEF a, r, l, left
  <2>8. \/ l = {}
        \/ \E at \in Nat : /\ l = {Opened(at)} /\ Len(r) = Len(roll) + 1
                           /\ at < Length[r[Len(roll) + 1]]
                           /\ at + Fade <= Length[r[Len(roll) + 1]] + Lead
    <3>1. CASE l = {}
      BY <3>1
    <3>2. CASE l # {}
      <4>1. 0 < Length[r[Len(roll) + 1]]
        BY <2>6, <3>2, LengthOf
      <4>2. 0 + Fade <= Length[r[Len(roll) + 1]] + Lead
        BY <2>6, <3>2, <4>1 DEF CutsAreCovered, CutPoints
      <4>3. QED
        BY <2>6, <3>2, <4>1, <4>2
    <3>3. QED
      BY <3>1, <3>2
  <2>9. Rising(ring', lastHeard') /\ Topmost(live', roll')
    BY <1>1, <2>3, <2>4, <2>5, <2>8, CutRises
  <2>10. Promised' /\ ShowsOn
    BY <1>1, <2>4, <2>7 DEF Promised, ShowsOn
  <2>11. Waiting'
    BY <1>0, <2>4, <2>7 DEF Waiting
  <2>12. QED
    BY <2>9, <2>10, <2>11 DEF Ordered
<1>5. QED
  BY <1>2, <1>3, <1>4 DEF SkipFrom

LEMMA SeekOrdered ==
    ASSUME CutsAreCovered, SeeksHaveTheMixer, TypeOK, FrontLeftAlone => Resuming, Ordered,
           NEW at \in SeekPoints, Seek(at)
    PROVE  Ordered' /\ ShowsOn
<1>0. Waiting /\ Topmost(live, roll) /\ Rising(ring, lastHeard)
  BY DEF Ordered
<1>1. /\ Len(roll) \in Nat /\ IsRing(ring, roll) /\ lastHeard \in 0..Len(roll)
      /\ shown \in 0..Len(roll) /\ at \in Nat
  BY RollFacts, RingTyped, DeviceAssumption DEF TypeOK
<1>2. /\ shown # 0 /\ at < Length[roll[shown]] /\ pc' = pc
      /\ roll' = Append(roll, roll[shown])
      /\ shown' = Len(roll') /\ announced' = Len(roll')
      /\ UNCHANGED <<pendingResume, lastHeard, active>>
  BY DEF Seek, handover
<1>3. roll[shown] \in Passages
  BY <1>1, <1>2, RollFacts
<1>4. Extends(roll') /\ Len(roll') = Len(roll) + 1 /\ roll'[Len(roll) + 1] = roll[shown]
  BY <1>2, <1>3, RollGrows
<1>5. at + Fade <= Length[roll[shown]] + Lead
  BY <1>2, <1>3 DEF CutsAreCovered, CutPoints, Seek
<1>6. PICK n \in Decoded(ring, {Opened(at)}, roll') :
           /\ live' = On({Opened(at)}, n)
           /\ ring' = CutOver(ring, {Opened(at)}, n)
  BY DEF Seek
<1> DEFINE l == {Opened(at)}
<1>7. \E x \in Nat : /\ l = {Opened(x)} /\ Len(roll') = Len(roll) + 1
                     /\ x < Length[roll'[Len(roll) + 1]]
                     /\ x + Fade <= Length[roll'[Len(roll) + 1]] + Lead
  BY <1>1, <1>2, <1>4, <1>5
<1> HIDE DEF l
<1>8. Rising(CutOver(ring, l, n), lastHeard) /\ Topmost(On(l, n), roll')
  BY <1>0, <1>1, <1>4, <1>6, <1>7, CutRises DEF l
<1>9. Rising(ring', lastHeard') /\ Topmost(live', roll')
  BY <1>2, <1>6, <1>8 DEF l
<1>10. Promised' /\ ShowsOn
  BY <1>1, <1>2, <1>4 DEF Promised, ShowsOn
<1>11. Waiting'
  <2>1. pendingResume = Nowhere
    <3>1. CASE "handoff" \notin Asks
      <4>1. pendingResume # Nowhere => Len(roll) = 0
        BY <1>0, <3>1 DEF Waiting
      <4>2. QED
        BY <1>1, <1>2, <4>1
    <3>2. CASE FrontLeftAlone
      <4>1. active = "local" /\ pc = "remember"
        BY DEF Seek
      <4>2. QED
        BY <1>2, <3>2, <4>1 DEF Resuming, Pending
    <3>3. QED
      BY <3>1, <3>2 DEF SeeksHaveTheMixer, Seek
  <2>2. pc = "remember" /\ active' = active
    BY <1>2 DEF Seek
  <2>3. QED
    BY <1>0, <1>2, <2>1, <2>2 DEF Waiting
<1>12. QED
  BY <1>9, <1>10, <1>11 DEF Ordered

LEMMA MixOrdered ==
    ASSUME TypeOK, TypeOK', Ordered, Mix
    PROVE  Ordered' /\ ShowsOn
<1> DEFINE a == Admission(queue, live)
           r == a.roll
           g == Giving(a.live, a.roll)
           mixes == MixRoom /\ g # {}
<1>0. /\ Waiting /\ Topmost(live, roll) /\ Rising(ring, lastHeard) /\ Promised
      /\ live # {} => pendingResume = Nowhere
  BY DEF Ordered, Waiting
<1>1. /\ Len(roll) \in Nat /\ IsRing(ring, roll) /\ lastHeard \in 0..Len(roll)
      /\ shown \in 0..Len(roll) /\ IsQueue(queue) /\ IsMixer(live, roll) /\ Len(ring) \in Nat
  BY RollFacts, RingTyped, UnitFacts DEF TypeOK
<1>2. /\ Topmost(a.live, r)
      /\ a.resume = Nowhere \/ (a.resume = pendingResume /\ a.live = live /\ r = roll)
  BY <1>0, <1>1, AdmissionTopmost
<1>3. Extends(r) /\ IsMixer(a.live, r)
  BY <1>1, AdmissionTyped
<1>4. r \in Seq(Passages) /\ Len(r) \in Nat /\ Len(r) >= Len(roll)
  BY <1>3, LenProperties DEF Extends
<1>5. /\ roll' = r /\ pendingResume' = a.resume
      /\ ring' = IF mixes THEN Append(ring, g) ELSE ring
      /\ live' = Giving(IF mixes THEN On(g, 1) ELSE g, r)
      /\ pc' = "look" /\ UNCHANGED <<lastHeard, shown, announced, active>>
  BY DEF Mix, display, handover
<1>6. /\ Topmost(g, r) /\ Topmost(On(g, 1), r) /\ IsMixer(g, r) /\ IsMixer(On(g, 1), r)
  BY <1>2, <1>3, <1>4, GivingTopmost, GivingTyped
<1> HIDE DEF a, g
<1>7. Topmost(live', roll')
  <2>1. CASE mixes
    BY <1>4, <1>5, <1>6, <2>1, GivingTopmost
  <2>2. CASE ~mixes
    BY <1>4, <1>5, <1>6, <2>2, GivingTopmost
  <2>3. QED
    BY <2>1, <2>2
<1>8. Rising(ring', lastHeard')
  <2>1. CASE mixes
    <3> DEFINE w == Append(ring, g)
    <3>1. /\ Len(w) = Len(ring) + 1 /\ w[Len(ring) + 1] = g
          /\ \A i \in 1..Len(ring) : w[i] = ring[i]
      BY <1>1, AppendProperties DEF IsRing
    <3> HIDE DEF w
    <3>2. ASSUME NEW j \in 1..Len(w), NEW e \in w[j]
          PROVE  /\ e.adm < lastHeard => Within(lastHeard, w[j])
                 /\ \A i \in 1..(j - 1) : \A c \in w[i] : e.adm < c.adm => Within(c.adm, w[j])
      <4>1. CASE j \in 1..Len(ring)
        <5>1. \A i \in 1..(j - 1) : i \in 1..Len(ring)
          BY <1>1, <4>1
        <5>2. QED
          BY <1>0, <3>1, <4>1, <5>1 DEF Rising
      <4>2. CASE j = Len(ring) + 1
        <5>1. e \in g /\ w[j] = g /\ e.adm \in Nat
          BY <1>6, <3>1, <4>2 DEF IsMixer
        <5>2. \A b \in 1..Len(roll) : e.adm < b => Within(b, g)
          BY <1>1, <1>4, <1>6, <5>1 DEF Topmost
        <5>3. e.adm < lastHeard => lastHeard \in 1..Len(roll)
          BY <1>1, <5>1
        <5>4. \A i \in 1..(j - 1) : \A c \in w[i] : c.adm \in 1..Len(roll)
          <6> TAKE i \in 1..(j - 1)
          <6>1. i \in 1..Len(ring)
            BY <1>1, <4>2
          <6>2. QED
            BY <1>1, <3>1, <6>1, UnitFacts
        <5>5. QED
          BY <5>1, <5>2, <5>3, <5>4
      <4>3. QED
        BY <1>1, <3>1, <4>1, <4>2
    <3>3. Rising(w, lastHeard)
      BY <3>2 DEF Rising
    <3>4. QED
      BY <1>5, <2>1, <3>3 DEF w
  <2>2. CASE ~mixes
    BY <1>0, <1>5, <2>2
  <2>3. QED
    BY <2>1, <2>2
<1>9. Promised'
  <2>1. Audible.adm \in Nat /\ Audible.adm = Sounded(ring, lastHeard)
    BY <1>1, AudibleTyped, SoundedIs
  <2>2. (Audible.adm)' = Sounded(ring', lastHeard') /\ (Audible.adm)' \in 0..Len(roll')
    <3>1. IsRing(ring', roll') /\ lastHeard' \in 0..Len(roll') /\ Len(roll') \in Nat
      BY <1>4, <1>5 DEF TypeOK, IsRing, Units, Contributions
    <3>2. (Audible.adm)' = Sounded(ring', lastHeard')
      BY SoundedNext
    <3>3. Sounded(ring', lastHeard') \in 0..Len(roll')
      BY <1>4, <1>5, <3>1, SoundedTyped
    <3>4. QED
      BY <3>2, <3>3
  <2>3. Sounded(ring, lastHeard) <= Sounded(ring', lastHeard')
    <3>1. IsRing(ring', roll') /\ lastHeard' \in 0..Len(roll') /\ roll' \in Seq(Passages)
      BY <1>4, <1>5 DEF TypeOK, IsRing, Units, Contributions
    <3>2. lastHeard <= Sounded(ring', lastHeard')
      BY <1>5, <1>8, <3>1, SoundedTops
    <3>3. CASE Len(ring) > 0 /\ ring[1] # {}
      <4>1. ring'[1] = ring[1] /\ Len(ring') > 0
        <5>1. CASE mixes
          <6>1. Len(Append(ring, g)) = Len(ring) + 1 /\ Append(ring, g)[1] = ring[1]
            BY <1>1, <3>3, AppendProperties DEF IsRing
          <6>2. QED
            BY <1>1, <1>5, <5>1, <6>1
        <5>2. CASE ~mixes
          BY <1>5, <3>3, <5>2
        <5>3. QED
          BY <5>1, <5>2
      <4>2. Sounded(ring', lastHeard') = Sounded(ring, lastHeard)
        BY <3>3, <4>1 DEF Sounded
      <4>3. QED
        BY <2>1, <4>2
    <3>4. CASE ~(Len(ring) > 0 /\ ring[1] # {})
      BY <3>2, <3>4 DEF Sounded
    <3>5. QED
      BY <3>3, <3>4
  <2>4. QED
    BY <1>0, <1>1, <1>4, <1>5, <2>1, <2>2, <2>3 DEF Promised
<1>10. ShowsOn
  BY <1>1, <1>5 DEF ShowsOn
<1>11. Waiting'
  <2>1. a.live = {} => live' = {}
    BY <1>5 DEF Giving, On, g
  <2>2. QED
    BY <1>0, <1>2, <1>5, <2>1 DEF Waiting
<1>12. QED
  BY <1>7, <1>8, <1>9, <1>10, <1>11 DEF Ordered

LEMMA DeviceOrdered ==
    ASSUME TypeOK, TypeOK', Ordered, DeviceTakes
    PROVE  Ordered' /\ ShowsOn
<1>0. /\ Waiting /\ Topmost(live, roll) /\ Rising(ring, lastHeard) /\ Promised
      /\ live # {} => pendingResume = Nowhere
  BY DEF Ordered, Waiting
<1>1. /\ Len(roll) \in Nat /\ IsRing(ring, roll) /\ lastHeard \in 0..Len(roll)
      /\ shown \in 0..Len(roll) /\ Len(ring) \in Nat /\ ring \in Seq(Units(roll))
      /\ roll \in Seq(Passages)
  BY RollFacts, RingTyped, UnitFacts DEF TypeOK, IsRing
<1>2. /\ ring # <<>> /\ ring' = Tail(ring)
      /\ lastHeard' = IF Head(ring) = {} THEN lastHeard ELSE Latest(Head(ring)).adm
      /\ UNCHANGED <<live, roll, pendingResume, pc, shown, announced, active>>
  BY DEF DeviceTakes, mixer, display, handover
<1>3. Head(ring) = ring[1] /\ Len(ring) > 0
  BY <1>1, <1>2, EmptySeq
<1>4. lastHeard' = Sounded(ring, lastHeard)
  BY <1>2, <1>3 DEF Sounded
<1>5. /\ Len(ring') = Len(ring) - 1
      /\ \A i \in 1..Len(ring') : ring'[i] = ring[i + 1] /\ i + 1 \in 1..Len(ring)
  <2>1. /\ Len(Tail(ring)) = Len(ring) - 1
        /\ \A i \in 1..Len(Tail(ring)) : Tail(ring)[i] = ring[i + 1]
    BY <1>1, <1>2, HeadTailProperties
  <2>2. QED
    BY <1>1, <1>2, <2>1
<1>6. \/ ring[1] = {} /\ lastHeard' = lastHeard
      \/ \E c \in ring[1] : lastHeard' = c.adm
  <2>1. CASE ring[1] # {}
    <3>1. ring[1] \subseteq [adm : 1..Len(roll), at : Nat]
      <4>1. 1 \in 1..Len(ring)
        BY <1>1, <1>3
      <4>2. QED
        BY <1>1, <4>1, ElementOfSeq DEF Units
    <3>2. Latest(ring[1]) \in ring[1]
      BY <1>1, <2>1, <3>1, LatestIsLast
    <3>3. QED
      BY <1>2, <1>3, <2>1, <3>2
  <2>2. CASE ring[1] = {}
    BY <1>2, <1>3, <2>2
  <2>3. QED
    BY <2>1, <2>2
<1>7. Rising(ring', lastHeard')
  <2>1. ASSUME NEW j \in 1..Len(ring'), NEW e \in ring'[j]
        PROVE  /\ e.adm < lastHeard' => Within(lastHeard', ring'[j])
               /\ \A i \in 1..(j - 1) : \A c \in ring'[i] :
                     e.adm < c.adm => Within(c.adm, ring'[j])
    <3>1. e \in ring[j + 1] /\ ring'[j] = ring[j + 1] /\ j + 1 \in 1..Len(ring)
      BY <1>5
    <3>2. e.adm < lastHeard' => Within(lastHeard', ring'[j])
      <4>1. CASE lastHeard' = lastHeard
        BY <1>0, <3>1, <4>1 DEF Rising
      <4>2. CASE \E c \in ring[1] : lastHeard' = c.adm
        <5>1. 1 \in 1..((j + 1) - 1)
          BY <1>1, <1>5
        <5>2. QED
          BY <1>0, <3>1, <4>2, <5>1 DEF Rising
      <4>3. QED
        BY <1>6, <4>1, <4>2
    <3>3. ASSUME NEW i \in 1..(j - 1), NEW c \in ring'[i], e.adm < c.adm
          PROVE  Within(c.adm, ring'[j])
      <4>1. i \in 1..Len(ring') /\ i + 1 \in 1..((j + 1) - 1)
        BY <1>1, <1>5
      <4>2. c \in ring[i + 1]
        BY <1>5, <4>1
      <4>3. QED
        BY <1>0, <3>1, <3>3, <4>1, <4>2 DEF Rising
    <3>4. QED
      BY <3>2, <3>3
  <2>2. QED
    BY <2>1 DEF Rising
<1>8. /\ Audible.adm = lastHeard' /\ lastHeard' \in 0..Len(roll)
      /\ (Audible.adm)' = Sounded(ring', lastHeard')
      /\ lastHeard' <= Sounded(ring', lastHeard')
  <2>1. IsRing(ring', roll) /\ lastHeard' \in 0..Len(roll)
    BY <1>2 DEF TypeOK, IsRing, Units, Contributions
  <2>2. QED
    BY <1>1, <1>4, <1>7, <2>1, SoundedIs, SoundedNext, SoundedTops
<1>9. Sounded(ring', lastHeard') \in 0..Len(roll)
  <2>1. IsRing(ring', roll) /\ lastHeard' \in 0..Len(roll)
    BY <1>2 DEF TypeOK, IsRing, Units, Contributions
  <2>2. QED
    BY <1>1, <2>1, SoundedTyped
<1>10. Promised'
  BY <1>0, <1>1, <1>2, <1>8, <1>9 DEF Promised
<1>11. ShowsOn
  BY <1>1, <1>2 DEF ShowsOn
<1>12. Waiting'
  BY <1>0, <1>2 DEF Waiting, DeviceTakes
<1>13. QED
  BY <1>0, <1>2, <1>7, <1>10, <1>11, <1>12 DEF Ordered


LEMMA ShowOrdered ==
    ASSUME TypeOK, Ordered, Show
    PROVE  Ordered' /\ ShowsOn
<1>1. /\ announced' = (IF Audible.adm >= announced THEN 0 ELSE announced)
      /\ shown' = IF announced' = 0 /\ Audible.adm # 0 THEN Audible.adm ELSE shown
      /\ UNCHANGED <<live, roll, pendingResume, ring, heardEnd, lastHeard, active>>
      /\ pc' = "settle"
  BY DEF Show, Announcement, mixer, output, handover
<1>2. /\ Audible.adm \in Nat /\ shown \in Nat /\ announced \in Nat
  <2>1. Len(roll) \in Nat /\ Audible.adm \in 0..Len(roll)
    BY AudibleTyped, RollFacts
  <2>2. shown \in 0..Len(roll) /\ announced \in 0..(Len(roll) + 1)
    BY DEF TypeOK
  <2>3. QED
    BY <2>1, <2>2
<1>3. Covering' = Covering
  BY <1>1 DEF Covering
<1>4. Audible' = Audible
  BY <1>1, <1>3 DEF Audible
<1>5. Promised
  BY DEF Ordered
<1>6. Promised' /\ ShowsOn
  BY <1>1, <1>2, <1>4, <1>5 DEF Promised, ShowsOn
<1>7. QED
  BY <1>1, <1>6 DEF Ordered, Waiting, Show

LEMMA ExecuteOrdered ==
    ASSUME TypeOK, Ordered, ExecuteShutdown
    PROVE  Ordered' /\ ShowsOn
<1>1. /\ shown' = 0 /\ announced' = Len(roll) + 1 /\ pc' = "remember"
      /\ UNCHANGED <<live, roll, pendingResume, ring, lastHeard, active>>
  BY DEF ExecuteShutdown, mixer, output, handover
<1>2. Len(roll) \in Nat
  BY RollFacts
<1>3. QED
  BY <1>1, <1>2 DEF Ordered, Waiting, Promised, ShowsOn, ExecuteShutdown

LEMMA NextOrdered ==
    ASSUME CutsAreCovered, SeeksHaveTheMixer, TypeOK, TypeOK', HasHeard, Silent,
           FrontLeftAlone => Resuming, Ordered, [Next]_vars
    PROVE  Ordered' /\ ShowsOn
<1>0. IsQueue(queue) /\ IsQueue(<<>>) /\ shown \in Nat
  BY PassagesQueue, RollFacts DEF TypeOK, IsQueue
<1>1. CASE UNCHANGED vars
  <2>1. UNCHANGED <<live, roll, pendingResume, ring, heardEnd, lastHeard, shown, announced,
                    active, pc>>
    BY <1>1 DEF vars, mixer, output, display, handover
  <2>2. Covering' = Covering
    BY <2>1 DEF Covering
  <2>3. Audible' = Audible
    BY <2>1, <2>2 DEF Audible
  <2>4. QED
    BY <1>0, <2>1, <2>3 DEF Ordered, Waiting, Promised, ShowsOn
<1>2. CASE Play \/ Pause \/ EnqueueShutdown
  BY <1>2, OrderedStays DEF Play, Pause, EnqueueShutdown, Asking, mixer, handover
<1>3. CASE Skip
  BY <1>0, <1>3, SkipOrdered DEF Skip, Asking, handover
<1>4. ASSUME NEW p \in Passages, Enqueue(p) \/ EnqueueNext(p) \/ PlayNow(p)
      PROVE  Ordered' /\ ShowsOn
  <2>1. CASE Enqueue(p) \/ EnqueueNext(p)
    BY <2>1, OrderedStays DEF Enqueue, EnqueueNext, Asking, mixer, handover
  <2>2. CASE PlayNow(p)
    <3>1. IsQueue(<<p>> \o queue)
      BY ArrivedTyped
    <3>2. QED
      BY <1>0, <2>2, <3>1, SkipOrdered DEF PlayNow, Asking, handover
  <2>3. QED
    BY <1>4, <2>1, <2>2
<1>5. ASSUME NEW i \in 1..(Cardinality(Passages) + 1),
             RemoveQueued(i) \/ \E delta \in {-1, 1} : ShiftQueued(i, delta)
      PROVE  Ordered' /\ ShowsOn
  BY <1>5, OrderedStays DEF RemoveQueued, ShiftQueued, Asking, mixer, handover
<1>6. ASSUME NEW at \in SeekPoints,
             Seek(at) \/ \E k \in 1..Cardinality(Passages) : HandBack(k, at)
      PROVE  Ordered' /\ ShowsOn
  <2>1. CASE Seek(at)
    BY <2>1, SeekOrdered
  <2>2. ASSUME NEW k \in 1..Cardinality(Passages), HandBack(k, at)
        PROVE  Ordered' /\ ShowsOn
    <3>1. /\ UNCHANGED <<live, roll, ring, heardEnd, lastHeard, shown, announced>>
          /\ live = {} /\ active = "guest" /\ active' = "local"
      BY <2>2 DEF HandBack, Silent, output, display
    <3>2. Covering' = Covering
      BY <3>1 DEF Covering
    <3>3. Audible' = Audible
      BY <3>1, <3>2 DEF Audible
    <3>4. QED
      BY <1>0, <3>1, <3>3 DEF Ordered, Waiting, Promised, ShowsOn
  <2>3. QED
    BY <1>6, <2>1, <2>2
<1>7. CASE HandOff
  BY <1>0, <1>7, SkipOrdered DEF HandOff
<1>8. CASE Crash
  <2>1. /\ live' = {} /\ roll' = <<>> /\ ring' = <<>> /\ lastHeard' = 0
        /\ shown' = 0 /\ announced' = 0 /\ active' = "local"
    BY <1>8 DEF Crash
  <2>2. Covering' = {}
    BY <2>1 DEF Covering
  <2>3. Promised' /\ ShowsOn
    BY <2>1, <2>2 DEF Promised, Audible, ShowsOn
  <2>4. Rising(ring', lastHeard')
    BY <2>1 DEF Rising
  <2>5. Waiting'
    BY <2>1 DEF Waiting
  <2>6. QED
    BY <2>1, <2>3, <2>4, <2>5, NothingIsTopmost DEF Ordered
<1>9. CASE Prime
  <2>1. /\ UNCHANGED <<live, roll, ring, heardEnd, lastHeard, shown, announced, active>>
        /\ pc = "down" /\ pc' = "remember"
    BY <1>9 DEF Prime, output, display, handover
  <2>2. Covering' = Covering
    BY <2>1 DEF Covering
  <2>3. Audible' = Audible
    BY <2>1, <2>2 DEF Audible
  <2>4. QED
    BY <1>0, <2>1, <2>3 DEF Ordered, Waiting, Promised, ShowsOn
<1>10. CASE Pass
  <2>1. CASE Mix
    BY <2>1, MixOrdered
  <2>2. CASE LookPaused \/ LookDeparted \/ LookOn \/ Persist \/ Refill
    BY <2>2, OrderedStays DEF LookPaused, LookDeparted, LookOn, Persist, Refill,
                              mixer, handover
  <2>3. CASE Show
    BY <2>3, ShowOrdered
  <2>4. CASE ExecuteShutdown
    BY <2>4, ExecuteOrdered
  <2>5. QED
    BY <1>10, <2>1, <2>2, <2>3, <2>4 DEF Pass
<1>11. CASE DeviceTakes
  BY <1>11, DeviceOrdered
<1>12. QED
  BY <1>1, <1>2, <1>3, <1>4, <1>5, <1>6, <1>7, <1>10, <1>11, <1>8, <1>9 DEF Next

LEMMA InitOrdered == ASSUME Init PROVE Ordered
<1>1. /\ live = {} /\ ring = <<>> /\ lastHeard = 0 /\ shown = 0 /\ announced = 0
      /\ active = "local" /\ pc = "commands" /\ pendingResume = Nowhere
  BY DEF Init
<1>2. Covering = {}
  BY <1>1 DEF Covering
<1>3. Promised
  BY <1>1, <1>2 DEF Promised, Audible
<1>4. Rising(ring, lastHeard)
  BY <1>1 DEF Rising
<1>5. QED
  BY <1>1, <1>3, <1>4, NothingIsTopmost DEF Ordered, Waiting

(* The display never goes back, through crossfades, skips in the middle of  *)
(* them, seeks, underruns, a queued shutdown, handovers and restarts: so    *)
(* long as what a cut brings in lasts as long as the fade it is laid along  *)
(* ([GDE-ARC-059], advance_shown, cut_ring_to_incoming).                    *)
THEOREM DisplayNeverGoesBack ==
    ASSUME CutsAreCovered, SeeksHaveTheMixer
    PROVE  Spec => ShownNeverGoesBack
<1> DEFINE Inv == TypeOK /\ Credible /\ Silent /\ (FrontLeftAlone => Resuming) /\ Ordered
           Onwards == shown # 0 /\ shown' # 0 /\ pc # "down" /\ pc' # "down" => shown' >= shown
<1>1. Init => Inv
  <2>1. Init => Silent /\ Resuming
    BY DEF Init, Silent, Resuming, Pending
  <2>2. QED
    BY <2>1, InitShape, InitCredible, InitOrdered
<1>2. Inv /\ [Next]_vars => Inv' /\ [Onwards]_vars
  <2> SUFFICES ASSUME Inv, [Next]_vars PROVE Inv' /\ Onwards
    OBVIOUS
  <2>1. TypeOK' /\ Credible' /\ Silent' /\ (FrontLeftAlone => Resuming')
    BY NextKeepsShape, NextKeepsCredit, NextSilent, NextResumes
  <2>2. Ordered' /\ ShowsOn
    BY <2>1, NextOrdered DEF Credible
  <2>3. QED
    BY <2>1, <2>2 DEF ShowsOn
<1>3. QED
  BY <1>1, <1>2, PTL DEF Spec, ShownNeverGoesBack
=============================================================================
