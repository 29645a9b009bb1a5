------------------------ MODULE EngineAnswersProofs ------------------------
(***************************************************************************)
(* Every passage queued at one player is accounted for, judged once, and   *)
(* judged right: the five parts of what stays in order while a listener    *)
(* plays, pauses, skips and orders passages about.                         *)
(***************************************************************************)
EXTENDS EngineProofs

(* Every passage gets its one verdict, and the right one, whatever a        *)
(* listener does at this player: as long as a passage has room for the      *)
(* ring, for the overlap with its neighbours and for the fade of a skip in  *)
(* less than half of it.                                                    *)

ListenersAsk == Asks \subseteq {"play", "pause", "skip", "next", "now", "remove", "shift"}

Half(p) == Length[p] \div 2

Roomy ==
    /\ Fade > 0
    /\ \A p \in Passages : RingCap <= Length[p] /\ 2 * Fade + 3 <= Length[p] + 2 * Lead
    /\ \A p, q \in Passages :
          2 * Overlap(LeadOut[p], LeadIn[q], Length[p], Length[q]) + 3 <= Length[p]

LEMMA RoomFor ==
    ASSUME Roomy, NEW p \in Passages
    PROVE  /\ Length[p] \in Nat /\ Half(p) \in Nat /\ Half(p) + 2 <= Length[p]
           /\ RingCap <= Length[p] /\ Fade + Half(p) + 2 <= Length[p] + Lead
           /\ \A q \in Passages :
                 LET o == Overlap(LeadOut[p], LeadIn[q], Length[p], Length[q])
                 IN  o \in Nat /\ o + Half(p) + 2 <= Length[p]
<1>1. Length[p] \in Nat /\ Fade \in Nat /\ Lead \in Nat
  BY LengthOf, DeviceAssumption
<1>2. RingCap <= Length[p] /\ 2 * Fade + 3 <= Length[p] + 2 * Lead
  BY DEF Roomy
<1>3. ASSUME NEW q \in Passages
      PROVE  /\ Overlap(LeadOut[p], LeadIn[q], Length[p], Length[q]) \in Nat
             /\ 2 * Overlap(LeadOut[p], LeadIn[q], Length[p], Length[q]) + 3 <= Length[p]
  <2>1. LeadOut[p] \in Nat /\ LeadIn[q] \in Nat /\ Length[q] \in Nat
    BY SpanAssumption
  <2>2. QED
    BY <1>1, <2>1 DEF Roomy, Overlap, Least
<1>4. Half(p) \in Nat /\ 2 * Half(p) <= Length[p]
  BY <1>1 DEF Half
<1>5. ASSUME NEW o \in Nat, 2 * o + 3 <= Length[p]
      PROVE  o + Half(p) + 2 <= Length[p]
  BY <1>1, <1>4, <1>5
<1>6. \A q \in Passages :
         LET o == Overlap(LeadOut[p], LeadIn[q], Length[p], Length[q])
         IN  o \in Nat /\ o + Half(p) + 2 <= Length[p]
  BY <1>3, <1>5
<1>7. Half(p) + 2 <= Length[p]
  <2>1. 2 * 0 + 3 <= Length[p]
    <3> DEFINE o == Overlap(LeadOut[p], LeadIn[p], Length[p], Length[p])
    <3>1. o \in Nat /\ 2 * o + 3 <= Length[p]
      BY <1>3
    <3> HIDE DEF o
    <3>2. QED
      BY <1>1, <3>1
  <2>2. QED
    BY <1>1, <1>4, <2>1
<1>8. Fade + Half(p) + 2 <= Length[p] + Lead
  BY <1>1, <1>2, <1>4
<1>9. QED
  BY <1>1, <1>2, <1>4, <1>6, <1>7, <1>8

\* A skip cuts to the start of a passage, and nobody seeks.
LEMMA RoomToCut ==
    ASSUME Roomy, ListenersAsk
    PROVE  CutsAreCovered /\ SeeksHaveTheMixer
<1>1. CutPoints = {0}
  BY DEF CutPoints, ListenersAsk
<1>2. \A p \in Passages : 0 + Fade <= Length[p] + Lead
  <2> TAKE p \in Passages
  <2>1. Fade \in Nat /\ Lead \in Nat
    BY DeviceAssumption
  <2>2. QED
    BY <2>1, RoomFor
<1>3. QED
  BY <1>1, <1>2 DEF CutsAreCovered, SeeksHaveTheMixer, ListenersAsk

-----------------------------------------------------------------------------
(* An admission lies in the ring as one straight line.                      *)

\* From where it was begun to where it is, it is in every unit.
LEMMA InEvery ==
    ASSUME NEW units, NEW ends, Laid(units, ends), Len(units) \in Nat,
           NEW k \in 1..Len(units), NEW d \in units[k],
           NEW i \in 1..k, Begun(units, ends, i, d.adm)
    PROVE  \A j \in i..k : Within(d.adm, units[j])
<1> DEFINE T == {k - j : j \in {x \in i..k : ~Within(d.adm, units[x])}}
<1> SUFFICES ASSUME T # {} PROVE FALSE
  OBVIOUS
<1>1. T \subseteq Nat
  OBVIOUS
<1>2. PICK x \in T : \A y \in T : x <= y
  BY <1>1, LeastOfAny
<1>3. PICK j \in i..k : ~Within(d.adm, units[j]) /\ x = k - j
  BY <1>2
<1>4. j # k
  BY <1>3 DEF Within
<1>5. j + 1 \in i..k /\ j \in 1..Len(units) /\ j + 1 <= Len(units)
  BY <1>4
<1>6. Within(d.adm, units[j + 1])
  <2>1. ASSUME ~Within(d.adm, units[j + 1])
        PROVE  FALSE
    <3>1. k - (j + 1) \in T
      BY <1>5, <2>1
    <3>2. k - j <= k - (j + 1)
      BY <1>2, <1>3, <3>1
    <3>3. QED
      BY <3>2
  <2>2. QED
    BY <2>1
<1>7. PICK b \in units[j + 1] : b.adm = d.adm
  BY <1>6 DEF Within
<1>8. Begun(units, ends, j, b.adm)
  <2>1. \A m \in 1..i : m \in 1..j
    OBVIOUS
  <2>2. QED
    BY <1>7, <2>1 DEF Begun
<1>9. Within(b.adm, units[j])
  BY <1>5, <1>7, <1>8 DEF Laid, Unbroken
<1>10. QED
  BY <1>3, <1>7, <1>9

LEMMA InLine ==
    ASSUME NEW units, NEW ends, Laid(units, ends), Len(units) \in Nat,
           NEW i \in 1..Len(units), NEW k \in 1..Len(units), i <= k,
           NEW c \in units[i], NEW d \in units[k], c.adm = d.adm,
           \A j \in 1..Len(units) : \A b \in units[j] : b.at \in Nat
    PROVE  d.at = c.at + (k - i)
<1> DEFINE T == {k - j : j \in {x \in i..k : \E b \in units[x] :
                                   b.adm = d.adm /\ b.at + (k - x) # d.at}}
<1>1. \A j \in i..k : Within(d.adm, units[j])
  <2>1. Begun(units, ends, i, d.adm)
    <3>1. i \in 1..i /\ Within(d.adm, units[i])
      BY DEF Within
    <3>2. QED
      BY <3>1 DEF Begun
  <2>2. QED
    BY <2>1, InEvery
<1> SUFFICES ASSUME T # {} PROVE FALSE
  <2>1. i \in i..k /\ c.at \in Nat /\ d.at \in Nat
    OBVIOUS
  <2>2. T = {} => c.at + (k - i) = d.at
    BY <2>1
  <2>3. QED
    BY <2>2
<1>2. T \subseteq Nat
  OBVIOUS
<1>3. PICK x \in T : \A y \in T : x <= y
  BY <1>2, LeastOfAny
<1>4. PICK j \in i..k : x = k - j /\ \E b \in units[j] : b.adm = d.adm /\ b.at + (k - j) # d.at
  BY <1>3
<1>5. PICK b \in units[j] : b.adm = d.adm /\ b.at + (k - j) # d.at
  BY <1>4
<1>6. j # k
  <2>1. ASSUME j = k
        PROVE  FALSE
    <3>1. b = d
      BY <1>5, <2>1 DEF Laid, Single
    <3>2. QED
      BY <1>5, <2>1, <3>1
  <2>2. QED
    BY <2>1
<1>7. j + 1 \in i..k /\ j \in 1..Len(units) /\ j + 1 <= Len(units) /\ j + 1 \in 1..Len(units)
  BY <1>6
<1>8. PICK e \in units[j + 1] : e.adm = d.adm
  BY <1>1, <1>7 DEF Within
<1>9. e.at = b.at + 1
  BY <1>5, <1>7, <1>8 DEF Laid, InStep
<1>10. e.at + (k - (j + 1)) = d.at
  <2>1. ASSUME e.at + (k - (j + 1)) # d.at
        PROVE  FALSE
    <3>1. k - (j + 1) \in T
      BY <1>7, <1>8, <2>1
    <3>2. k - j <= k - (j + 1)
      BY <1>3, <1>4, <3>1
    <3>3. QED
      BY <3>2
  <2>2. QED
    BY <2>1
<1>11. b.at \in Nat /\ d.at \in Nat
  BY <1>7
<1>12. (b.at + 1) + (k - (j + 1)) = b.at + (k - j)
  <2>1. j \in Nat /\ k \in Nat
    OBVIOUS
  <2> HIDE DEF T
  <2>2. QED
    BY <1>11, <2>1
<1>13. b.at + (k - j) = d.at
  BY <1>9, <1>10, <1>12
<1>14. QED
  BY <1>5, <1>13

\* What has been heard and is still in the ring is at its front.
LEMMA InFront ==
    ASSUME NEW units, NEW ends, Laid(units, ends), Len(units) \in Nat,
           NEW k \in 1..Len(units), NEW d \in units[k], ends[d.adm] > 0
    PROVE  Len(units) > 0 /\ Within(d.adm, units[1])
<1>1. 1 \in 1..k /\ Begun(units, ends, 1, d.adm)
  BY DEF Begun
<1>2. \A j \in 1..k : Within(d.adm, units[j])
  BY <1>1, InEvery
<1>3. QED
  BY <1>1, <1>2

\* The first unit of the ring that has an admission.
LEMMA FirstUnit ==
    ASSUME NEW units, NEW k \in Nat, NEW i \in 1..k, NEW a, Within(a, units[i])
    PROVE  \E j \in 1..i : Within(a, units[j]) /\ \A m \in 1..(j - 1) : ~Within(a, units[m])
<1> DEFINE T == {j \in 1..i : Within(a, units[j])}
<1>1. T \subseteq Nat /\ T # {}
  OBVIOUS
<1>2. PICK x \in T : \A y \in T : x <= y
  BY <1>1, LeastOfAny
<1>3. \A m \in 1..(x - 1) : ~Within(a, units[m])
  <2> SUFFICES ASSUME NEW m \in 1..(x - 1), Within(a, units[m]) PROVE FALSE
    OBVIOUS
  <2>1. m \in T
    OBVIOUS
  <2>2. x <= m
    BY <1>2, <2>1
  <2>3. QED
    BY <2>2
<1>4. QED
  BY <1>2, <1>3

-----------------------------------------------------------------------------
(* What a pass and a skip do to the ring and the mixer.                     *)

\* Each passage is admitted once, and does not wait any more.
Distinct(r, q) ==
    /\ \A a, b \in 1..Len(r) : r[a] = r[b] => a = b
    /\ \A a \in 1..Len(r) : r[a] \in offered \ Items(q)

\* Nothing is opened but at its start, and what is listened to is accounted for.
Whole ==
    /\ AtHome /\ Shutdown \notin Items(queue)
    /\ ~handingOver /\ countedElsewhere = Nobody
    /\ Distinct(roll, queue) /\ Accounted(roll, heardEnd)
    /\ FromTheStart(ring, heardEnd, live, roll)

\* Of the admission all there is has been heard, or is in the ring.
Ended(a, units, ends, r) ==
    ends[a] = Length[r[a]] \/ \E i \in 1..Len(units) : LastOf(a, units[i], r)

\* It never will be.
Stopped(a, units, ends, l, r) == ~Within(a, l) /\ ~Ended(a, units, ends, r)

\* The earlier of two is half its passage and more ahead.
Far(c, d, r) == c.at >= d.at + Half(r[c.adm]) + 2

Apart(l, r) == \A c, d \in l : c.adm < d.adm => Far(c, d, r)

\* So it is where two sound together, unless the earlier was stopped.
Passed(units, ends, l, r) ==
    \A i \in 1..Len(units) : \A c, d \in units[i] : c.adm < d.adm =>
        c.at >= 1 /\ (Far(c, d, r) \/ Stopped(c.adm, units, ends, l, r))

Inside(units, ends, l, r) ==
    /\ \A c \in l : c.at < Length[r[c.adm]]
    /\ \A i \in 1..Len(units) : \A c \in units[i] : c.at < Length[r[c.adm]]
    /\ \A a \in 1..Len(r) : ends[a] <= Length[r[a]]

\* What the device has not come to yet is still being mixed.
ToBeHeard(units, ends, l, r) ==
    \A a \in 1..Len(r) : \A i \in 1..Len(units) :
        ends[a] = 0 /\ Within(a, units[i]) /\ ~Within(a, units[1]) => Within(a, l)

Lined ==
    /\ Inside(ring, heardEnd, live, roll) /\ Apart(live, roll)
    /\ Passed(ring, heardEnd, live, roll) /\ ToBeHeard(ring, heardEnd, live, roll)
    /\ \A a \in 1..Len(roll) : heardEnd[a] > 0 => a <= lastHeard

\* What is admitted from a queue that no shutdown waits in.
LEMMA Admits ==
    ASSUME TypeOK, NEW q, IsQueue(q), Once(q), Shutdown \notin Items(q),
           pendingResume = Nowhere, NEW l
    PROVE  LET a == Admission(q, l)
           IN  /\ a.resume = Nowhere /\ IsQueue(a.queue) /\ Once(a.queue)
               /\ \/ a.queue = q /\ a.live = l /\ a.roll = roll /\ a.dropped = {}
                  \/ \E p \in Items(q) \cap Passages :
                        /\ a.live = l /\ a.roll = roll /\ a.dropped = {p}
                        /\ Items(a.queue) = Items(q) \ {p}
                  \/ \E p \in Items(q) \cap Passages :
                        /\ MayFollow(p, l)
                        /\ a.live = l \cup {[adm |-> Len(roll) + 1, at |-> 0]}
                        /\ a.roll = Append(roll, p) /\ a.dropped = {}
                        /\ Items(a.queue) = Items(q) \ {p}
<1> DEFINE a == Admission(q, l)
<1>1. q \in Seq(Passages \cup {Shutdown})
  BY DEF IsQueue
<1>2. CASE ~Due(q, l)
  BY <1>2 DEF Admission
<1>3. ASSUME Due(q, l)
      PROVE  /\ IsQueue(Tail(q)) /\ Once(Tail(q)) /\ Head(q) \in Items(q) \cap Passages
             /\ Items(Tail(q)) = Items(q) \ {Head(q)} /\ MayFollow(Head(q), l)
  <2>1. q # <<>> /\ Head(q) # Shutdown /\ MayFollow(Head(q), l)
    BY <1>3 DEF Due
  <2>2. IsQueue(Tail(q)) /\ Head(q) \in Passages
    BY <2>1, TailQueue
  <2>3. /\ Once(Tail(q)) /\ Items(Tail(q)) \subseteq Items(q) \ {Head(q)}
        /\ Head(q) \in Items(q)
    BY <1>1, <2>1, OnceTail
  <2>4. Items(q) \subseteq Items(Tail(q)) \cup {Head(q)}
    BY <1>1, <2>1, TailKeeps
  <2>5. QED
    BY <2>1, <2>2, <2>3, <2>4
<1>4. CASE Due(q, l) /\ Head(q) \in Unopenable
  <2>1. a = [queue |-> Tail(q), live |-> l, roll |-> roll, resume |-> Nowhere,
             dropped |-> {Head(q)}]
    BY <1>4 DEF Admission
  <2>2. QED
    BY <1>3, <1>4, <2>1
<1>5. CASE Due(q, l) /\ Head(q) \notin Unopenable
  <2>1. a = [queue |-> Tail(q), live |-> l \cup {Opened(Origin(Head(q)))},
             roll |-> Append(roll, Head(q)), resume |-> Nowhere, dropped |-> {}]
    BY <1>5 DEF Admission
  <2>2. Opened(Origin(Head(q))) = [adm |-> Len(roll) + 1, at |-> 0]
    BY DEF Opened, Origin
  <2>3. QED
    BY <1>3, <1>5, <2>1, <2>2
<1>6. QED
  BY <1>2, <1>4, <1>5

\* The roll goes on, what was heard of the admissions made before is as it was.
RollsOn ==
    /\ Extends(roll') /\ Len(roll') \in Nat /\ lastHeard' = lastHeard
    /\ \A a \in 1..Len(roll) : heardEnd'[a] = heardEnd[a] /\ a \in 1..Len(roll')
                               /\ roll'[a] = roll[a]
    /\ \A a \in 1..Len(roll') : a \in 1..Len(roll) \/ (a = Len(roll) + 1 /\ heardEnd'[a] = 0)

\* A pass, m being the mixer with what was admitted to it.
MixesOn(m) ==
    /\ RollsOn /\ IsMixer(m, roll') /\ Mixing(ring, heardEnd', m, roll')
    /\ live \subseteq m
    /\ \A c \in m : c \in live \/ c = [adm |-> Len(roll) + 1, at |-> 0]
    /\ \A a \in 1..Len(roll') : a \in 1..Len(roll) \/ Within(a, m)
    /\ \A c \in m : c.at < Length[roll'[c.adm]]
    /\ Apart(m, roll')
    /\ \/ /\ ring' = ring /\ live' = m
       \/ /\ playing /\ Len(ring) < RingCap
          /\ Len(ring') = Len(ring) + 1 /\ ring'[Len(ring) + 1] = m
          /\ \A i \in 1..Len(ring) : ring'[i] = ring[i]
          /\ \A c \in live' : /\ c.at < Length[roll'[c.adm]]
                              /\ \E d \in m : c.adm = d.adm /\ c.at = d.at + 1
          /\ \A d \in m : d.at + 1 < Length[roll'[d.adm]] => Within(d.adm, live')

\* What is taken from the queue q: drop is dropped, and one more may be admitted.
Takes(q, drop) ==
    /\ drop \in SUBSET (Items(q) \cap Passages)
    /\ \/ roll' = roll /\ Items(queue') = Items(q) \ drop
       \/ \E p \in (Items(q) \cap Passages) \ drop :
             roll' = Append(roll, p) /\ Items(queue') = Items(q) \ (drop \cup {p})

\* A skip: the ring is cut and what is unheard taken out of it, and the newcomer
\* is laid along its end; nothing that was mixed is.
CutsOn ==
    /\ RollsOn /\ IsRing(ring', roll') /\ Covering' = Covering
    /\ Len(ring') \in Nat /\ Len(ring') <= Len(ring) /\ Len(ring') <= Fade
    /\ \A i \in 1..Len(ring') : \A c \in ring'[i] :
          \/ c.adm \in 1..Len(roll) /\ c \in ring[i] /\ c.adm \notin Unheard
          \/ /\ c.adm = Len(roll) + 1 /\ i > Lead /\ c.at = i - Lead - 1
             /\ Within(c.adm, ring'[Lead + 1]) /\ c.at < Length[roll'[c.adm]]
    /\ \A i \in 1..Len(ring') : \A c \in ring[i] : c.adm \notin Unheard => c \in ring'[i]
    /\ \A c \in live' : /\ c.adm = Len(roll) + 1 /\ c.at < Length[roll'[c.adm]]
                        /\ c.at = 0 \/ \E i \in 1..Len(ring') : Within(c.adm, ring'[i])
    /\ \A a \in 1..Len(roll') : a \in 1..Len(roll) \/ Within(a, live')

LEMMA RollsOnward ==
    ASSUME TypeOK, Extends(roll'), heardEnd' = NewAdmissions(roll'), lastHeard' = lastHeard,
           Len(roll') <= Len(roll) + 1
    PROVE  RollsOn
<1>1. Len(roll) \in Nat /\ Len(roll') \in Nat /\ Len(roll) <= Len(roll')
  BY RollFacts, LenProperties DEF Extends
<1>2. /\ \A a \in 1..Len(roll) : heardEnd'[a] = heardEnd[a]
      /\ \A a \in 1..Len(roll') : a > Len(roll) => heardEnd'[a] = 0
  BY EndsGrown
<1>3. \A a \in 1..Len(roll) : a \in 1..Len(roll') /\ roll'[a] = roll[a]
  BY <1>1 DEF Extends
<1>4. \A a \in 1..Len(roll') : a \in 1..Len(roll) \/ a = Len(roll) + 1
  BY <1>1
<1>5. QED
  BY <1>1, <1>2, <1>3, <1>4 DEF RollsOn

LEMMA ApartAdmitted ==
    ASSUME Roomy, TypeOK, Single(live), Apart(live, roll), NEW p \in Passages, MayFollow(p, live),
           NEW r, Extends(r)
    PROVE  Apart(live \cup {[adm |-> Len(roll) + 1, at |-> 0]}, r)
<1> DEFINE n == [adm |-> Len(roll) + 1, at |-> 0]
<1>1. /\ \A c \in live : c.adm \in 1..Len(roll) /\ c.at \in Nat /\ r[c.adm] = roll[c.adm]
                         /\ roll[c.adm] \in Passages
      /\ Len(roll) \in Nat /\ live \subseteq [adm : 1..Len(roll), at : Nat]
  BY RollFacts DEF IsMixer, Extends
<1>2. ASSUME NEW c \in live
      PROVE  c.at >= Half(roll[c.adm]) + 2
  <2> DEFINE d == Latest(live)
             out == roll[d.adm]
  <2>1. d \in live /\ c.adm <= d.adm
    BY <1>1, LatestIsLast
  <2>2. ShouldAdmit(Length[out], d.at, Overlap(LeadOut[out], LeadIn[p], Length[out], Length[p]))
    BY DEF MayFollow
  <2> HIDE DEF d
  <2>3. /\ out \in Passages /\ Length[out] \in Nat /\ Half(out) \in Nat /\ d.at \in Nat
        /\ d.at >= Half(out) + 2
    <3> DEFINE o == Overlap(LeadOut[out], LeadIn[p], Length[out], Length[p])
    <3>1. out \in Passages /\ d.at \in Nat
      BY <1>1, <2>1
    <3>2. /\ Length[out] \in Nat /\ Half(out) \in Nat
          /\ o \in Nat /\ o + Half(out) + 2 <= Length[out]
      BY <3>1, RoomFor
    <3>3. ShouldAdmit(Length[out], d.at, o)
      BY <2>2
    <3> HIDE DEF o, out
    <3>4. QED
      BY <3>1, <3>2, <3>3 DEF ShouldAdmit
  <2>4. CASE c.adm = d.adm
    <3>1. c = d
      BY <2>1, <2>4 DEF Single
    <3>2. QED
      BY <2>3, <3>1
  <2>5. CASE c.adm # d.adm
    <3>1. c.adm < d.adm
      BY <1>1, <2>1, <2>5
    <3>2. Far(c, d, roll)
      BY <2>1, <3>1 DEF Apart
    <3>3. Half(roll[c.adm]) \in Nat /\ c.at \in Nat
      BY <1>1, RoomFor
    <3>4. QED
      BY <2>3, <3>2, <3>3 DEF Far
  <2>6. QED
    BY <2>4, <2>5
<1>3. n.adm = Len(roll) + 1 /\ n.at = 0
  OBVIOUS
<1> HIDE DEF n
<1>4. ASSUME NEW c \in live \cup {n}, NEW d \in live \cup {n}, c.adm < d.adm
      PROVE  Far(c, d, r)
  <2>1. c \in live
    BY <1>1, <1>3, <1>4
  <2>2. CASE d \in live
    BY <1>1, <1>4, <2>1, <2>2 DEF Apart, Far
  <2>3. CASE d = n
    <3>1. Half(roll[c.adm]) \in Nat /\ c.at \in Nat
      BY <1>1, <2>1, RoomFor
    <3>2. QED
      BY <1>1, <1>2, <1>3, <2>1, <2>3, <3>1 DEF Far
  <2>4. QED
    BY <2>2, <2>3
<1>5. QED
  BY <1>4 DEF Apart, n

\* The queue, the drops and the mixer of a pass.
LEMMA MixDoes ==
    ASSUME Roomy, TypeOK, OnceEach, Lying, Whole, Lined, Mix
    PROVE  LET m == Admission(queue, live).live
           IN  /\ MixesOn(m) /\ pendingResume' = Nowhere
               /\ \E drop : Takes(queue, drop) /\ reports' = AllDropped(drop)
<1> DEFINE a == Admission(queue, live)
           r == a.roll
           m == a.live
           giving == Giving(m, r)
           mixes == MixRoom /\ giving # {}
<1>1. /\ IsQueue(queue) /\ IsMixer(live, roll) /\ IsRing(ring, roll) /\ Len(ring) \in Nat
      /\ Once(queue) /\ Shutdown \notin Items(queue) /\ pendingResume = Nowhere
      /\ Len(roll) \in Nat /\ Extends(roll) /\ Single(live)
  BY RollFacts, RingTyped, UnitFacts DEF TypeOK, OnceEach, Whole, AtHome, Lying, Mixing
<1>2. Extends(r) /\ IsMixer(m, r)
  BY <1>1, AdmissionTyped
<1>3. /\ a.resume = Nowhere /\ IsQueue(a.queue) /\ Once(a.queue)
      /\ \/ a.queue = queue /\ m = live /\ r = roll /\ a.dropped = {}
         \/ \E p \in Items(queue) \cap Passages :
               /\ m = live /\ r = roll /\ a.dropped = {p} /\ Items(a.queue) = Items(queue) \ {p}
         \/ \E p \in Items(queue) \cap Passages :
               /\ MayFollow(p, live)
               /\ m = live \cup {[adm |-> Len(roll) + 1, at |-> 0]}
               /\ r = Append(roll, p) /\ a.dropped = {} /\ Items(a.queue) = Items(queue) \ {p}
  BY <1>1, Admits
<1>4. /\ queue' = IF BadHead(a) THEN Tail(a.queue) ELSE a.queue
      /\ reports' = AllDropped(a.dropped \cup (IF BadHead(a) THEN {Head(a.queue)} ELSE {}))
      /\ roll' = r /\ heardEnd' = NewAdmissions(r) /\ pendingResume' = a.resume
      /\ ring' = IF mixes THEN Append(ring, giving) ELSE ring
      /\ live' = Giving(IF mixes THEN On(giving, 1) ELSE giving, r)
      /\ lastHeard' = lastHeard
  BY DEF Mix
<1>5. BadHead(a) => /\ Head(a.queue) \in Items(a.queue) \cap Passages
                    /\ Items(Tail(a.queue)) = Items(a.queue) \ {Head(a.queue)}
  <2> SUFFICES ASSUME BadHead(a)
               PROVE  /\ Head(a.queue) \in Items(a.queue) \cap Passages
                      /\ Items(Tail(a.queue)) = Items(a.queue) \ {Head(a.queue)}
    OBVIOUS
  <2>1. a.queue # <<>> /\ Head(a.queue) \in Passages
    BY DeviceAssumption DEF BadHead
  <2>2. a.queue \in Seq(Passages \cup {Shutdown})
    BY <1>3 DEF IsQueue
  <2>3. QED
    BY <1>3, <2>1, <2>2, OnceTail, TailKeeps
<1>6. Mixing(ring, heardEnd', m, r)
  BY <1>4, AdmittedLies DEF Lying
<1> HIDE DEF a, m, r
<1>7. Len(r) = Len(roll) \/ (Len(r) = Len(roll) + 1 /\ [adm |-> Len(roll) + 1, at |-> 0] \in m)
  BY <1>3, RollGrows
<1>8. RollsOn
  <2>1. Len(r) <= Len(roll) + 1
    BY <1>1, <1>7
  <2>2. QED
    BY <1>2, <1>4, <2>1, RollsOnward
<1>9. live \subseteq m /\ \A c \in m : c \in live \/ c = [adm |-> Len(roll) + 1, at |-> 0]
  BY <1>3
<1>10. Apart(m, r)
  BY <1>1, <1>2, <1>3, ApartAdmitted DEF Lined
<1>11. \A c \in m : c.at < Length[r[c.adm]] /\ c.at \in Nat /\ r[c.adm] \in Passages
  <2> TAKE c \in m
  <2>1. c.adm \in 1..Len(r) /\ c.at \in Nat /\ r[c.adm] \in Passages
    BY <1>2, ElementOfSeq DEF IsMixer, Extends
  <2>2. CASE c \in live
    <3>1. c.adm \in 1..Len(roll)
      BY <1>1, <2>2 DEF IsMixer
    <3>2. r[c.adm] = roll[c.adm]
      BY <1>2, <3>1 DEF Extends
    <3>3. QED
      BY <2>1, <2>2, <3>2 DEF Lined, Inside
  <2>3. CASE c = [adm |-> Len(roll) + 1, at |-> 0]
    <3>1. c.at = 0
      BY <2>3
    <3>2. QED
      BY <2>1, <3>1, LengthOf
  <2>4. QED
    BY <1>9, <2>1, <2>2, <2>3
<1>12. giving = m
  BY <1>11 DEF Giving
<1>13. \A b \in 1..Len(roll') : b \in 1..Len(roll) \/ Within(b, m)
  <2> TAKE b \in 1..Len(roll')
  <2>1. b \in 1..Len(roll) \/ (b = Len(roll) + 1 /\ Len(r) = Len(roll) + 1)
    BY <1>1, <1>4, <1>7
  <2>2. b = Len(roll) + 1 /\ Len(r) = Len(roll) + 1 => Within(b, m)
    <3>1. [adm |-> Len(roll) + 1, at |-> 0].adm = Len(roll) + 1
      OBVIOUS
    <3>2. Len(r) # Len(roll) => [adm |-> Len(roll) + 1, at |-> 0] \in m
      BY <1>7
    <3>3. QED
      BY <1>1, <3>1, <3>2 DEF Within
  <2>3. QED
    BY <2>1, <2>2
<1>14. \/ ring' = ring /\ live' = m
       \/ /\ playing /\ Len(ring) < RingCap
          /\ Len(ring') = Len(ring) + 1 /\ ring'[Len(ring) + 1] = m
          /\ \A i \in 1..Len(ring) : ring'[i] = ring[i]
          /\ \A c \in live' : /\ c.at < Length[roll'[c.adm]]
                              /\ \E d \in m : c.adm = d.adm /\ c.at = d.at + 1
          /\ \A d \in m : d.at + 1 < Length[roll'[d.adm]] => Within(d.adm, live')
  <2>1. CASE ~mixes
    <3>1. Giving(giving, r) = m
      BY <1>11, <1>12 DEF Giving
    <3>2. QED
      BY <1>4, <2>1, <3>1
  <2>2. CASE mixes
    <3>1. playing /\ Len(ring) < RingCap /\ ring' = Append(ring, m) /\ live' = Giving(On(m, 1), r)
      BY <1>4, <1>12, <2>2 DEF MixRoom
    <3>2. /\ Len(ring') = Len(ring) + 1 /\ ring'[Len(ring) + 1] = m
          /\ \A i \in 1..Len(ring) : ring'[i] = ring[i]
      <4>1. ring \in Seq(Units(roll) \cup {m})
        BY <1>1, SeqMonotonic DEF IsRing
      <4>2. QED
        BY <3>1, <4>1, AppendProperties
    <3>3. \A d \in m : /\ [d EXCEPT !.at = @ + 1].adm = d.adm
                       /\ [d EXCEPT !.at = @ + 1].at = d.at + 1
      BY <1>2 DEF IsMixer
    <3>4. ASSUME NEW c \in live'
          PROVE  /\ c.at < Length[roll'[c.adm]]
                 /\ \E d \in m : c.adm = d.adm /\ c.at = d.at + 1
      <4>1. c \in On(m, 1) /\ c.at < Length[r[c.adm]]
        BY <3>1 DEF Giving
      <4>2. PICK d \in m : c = [d EXCEPT !.at = @ + 1]
        BY <4>1 DEF On
      <4>3. QED
        BY <1>4, <3>3, <4>1, <4>2
    <3>5. ASSUME NEW d \in m, d.at + 1 < Length[roll'[d.adm]]
          PROVE  Within(d.adm, live')
      <4> DEFINE c == [d EXCEPT !.at = @ + 1]
      <4>1. c \in On(m, 1) /\ c.adm = d.adm /\ c.at = d.at + 1
        BY <3>3 DEF On
      <4> HIDE DEF c
      <4>2. c \in live'
        BY <1>4, <3>1, <3>5, <4>1 DEF Giving
      <4>3. QED
        BY <4>1, <4>2 DEF Within
    <3>6. QED
      BY <3>1, <3>2, <3>4, <3>5
  <2>3. QED
    BY <2>1, <2>2
<1>15. MixesOn(m)
  BY <1>2, <1>4, <1>6, <1>8, <1>9, <1>10, <1>11, <1>13, <1>14 DEF MixesOn
<1> DEFINE bad == IF BadHead(a) THEN {Head(a.queue)} ELSE {}
           drop == a.dropped \cup bad
<1>16. /\ bad \subseteq Items(a.queue) \cap Passages
       /\ Items(queue') = Items(a.queue) \ bad
  BY <1>4, <1>5
<1>17. reports' = AllDropped(drop)
  BY <1>4
<1> HIDE DEF bad
<1>18. Takes(queue, drop)
  <2>1. CASE a.queue = queue /\ r = roll /\ a.dropped = {}
    BY <1>4, <1>16, <2>1 DEF Takes
  <2>2. ASSUME NEW p \in Items(queue) \cap Passages,
               r = roll, a.dropped = {p}, Items(a.queue) = Items(queue) \ {p}
        PROVE  drop \in SUBSET (Items(queue) \cap Passages) /\ Items(queue') = Items(queue) \ drop
    BY <1>16, <2>2
  <2>3. ASSUME NEW p \in Items(queue) \cap Passages,
               r = Append(roll, p), a.dropped = {}, Items(a.queue) = Items(queue) \ {p}
        PROVE  /\ drop \in SUBSET (Items(queue) \cap Passages) /\ p \notin drop
               /\ Items(queue') = Items(queue) \ (drop \cup {p})
    BY <1>16, <2>3
  <2>4. QED
    BY <1>3, <1>4, <2>1, <2>2, <2>3 DEF Takes
<1>19. QED
  BY <1>3, <1>4, <1>15, <1>17, <1>18 DEF a, m

LEMMA CutDoes ==
    ASSUME Roomy, TypeOK, Lying, pendingResume = Nowhere,
           NEW q, IsQueue(q), Once(q), Shutdown \notin Items(q), SkipToNext(q)
    PROVE  /\ CutsOn /\ pendingResume' = Nowhere
           /\ \E drop : /\ Takes(q, drop)
                        /\ reports' = AllDropped({roll[a] : a \in Unheard} \cup drop)
<1> DEFINE a == Admission(q, {})
           r == a.roll
           l == a.live
           left == Forgotten(ring, Unheard)
           new == [adm |-> Len(roll) + 1, at |-> 0]
<1>1. /\ IsRing(ring, roll) /\ Len(ring) \in Nat /\ Len(roll) \in Nat /\ Fade > 0
      /\ Lead \in Nat /\ Fade \in Nat /\ IsMixer({}, roll)
  BY RingTyped, UnitFacts, RollFacts, DeviceAssumption, FS_EmptySet DEF Roomy, IsMixer
<1>2. /\ a.resume = Nowhere
      /\ \/ a.queue = q /\ l = {} /\ r = roll /\ a.dropped = {}
         \/ \E p \in Items(q) \cap Passages :
               /\ l = {} /\ r = roll /\ a.dropped = {p} /\ Items(a.queue) = Items(q) \ {p}
         \/ \E p \in Items(q) \cap Passages :
               /\ l = {} \cup {new} /\ r = Append(roll, p) /\ a.dropped = {}
               /\ Items(a.queue) = Items(q) \ {p}
  BY Admits
<1>3. Extends(r) /\ IsMixer(l, r) /\ r \in Seq(Passages)
  BY <1>1, AdmissionTyped DEF Extends
<1>4. PICK n \in Decoded(left, l, r) :
           /\ queue' = a.queue /\ live' = On(l, n) /\ roll' = r /\ pendingResume' = a.resume
           /\ ring' = CutOver(left, l, n) /\ heardEnd' = NewAdmissions(r)
           /\ reports' = AllDropped({roll[adm] : adm \in Unheard} \cup a.dropped)
           /\ lastHeard' = lastHeard
  BY DEF SkipToNext
<1> HIDE DEF a, r, l
<1>5. IsRing(left, roll) /\ Len(left) = Len(ring)
  BY <1>1, ForgottenTyped
<1>6. \A i \in 1..Len(left) : left[i] = {c \in ring[i] : c.adm \notin Unheard}
  BY <1>1, <1>5 DEF Forgotten
<1>7. /\ Len(Kept(left)) \in Nat /\ Len(Kept(left)) <= Len(ring) /\ Len(Kept(left)) <= Fade
  BY <1>5, KeptTyped
<1>8. /\ new.adm = Len(roll) + 1 /\ new.at = 0
      /\ \A k \in Nat : [new EXCEPT !.at = @ + k] = [adm |-> Len(roll) + 1, at |-> k]
  <2>1. ASSUME NEW k \in Nat
        PROVE  [new EXCEPT !.at = @ + k] = [adm |-> Len(roll) + 1, at |-> k]
    <3>1. 0 + k = k
      OBVIOUS
    <3>2. QED
      BY <3>1
  <2>2. QED
    BY <2>1
<1>9. \/ l = {} /\ r = roll
      \/ /\ l = {new} /\ Len(r) = Len(roll) + 1 /\ r[Len(roll) + 1] \in Passages
  BY <1>2, RollGrows
<1> HIDE DEF new, left
<1>10. /\ n \in Nat
       /\ l # {} => /\ n < Length[r[Len(roll) + 1]]
                    /\ n > 0 => Lead + n <= Len(Kept(left))
  <2>1. CASE l = {}
    BY <2>1 DEF Decoded
  <2>2. CASE l # {}
    <3> DEFINE p == r[Len(roll) + 1]
    <3>1. l = {new} /\ p \in Passages
      BY <1>9, <2>2
    <3>2. Length[p] \in Nat /\ Length[p] > 0 /\ Fade + Half(p) + 2 <= Length[p] + Lead /\ Half(p) \in Nat
      BY <3>1, LengthOf, RoomFor
    <3>3. n = 0 \/ n = Least(Wanted(left), Length[p] - 0)
      BY <1>8, <3>1 DEF Decoded
    <3> HIDE DEF p
    <3>4. /\ Wanted(left) \in Nat
          /\ Wanted(left) > 0 => Lead + Wanted(left) = Len(Kept(left))
      BY <1>1, <1>7 DEF Wanted
    <3>5. n \in Nat /\ n <= Wanted(left)
      BY <3>2, <3>3, <3>4 DEF Least
    <3>6. n > 0 => Lead + n <= Len(Kept(left))
      BY <1>1, <1>7, <3>4, <3>5
    <3>7. n < Length[p]
      BY <1>1, <1>7, <3>2, <3>5, <3>6
    <3>8. QED
      BY <3>5, <3>6, <3>7 DEF p
  <2>3. QED
    BY <2>1, <2>2
<1>11. \A k, c : c \in On(l, k) => \E d \in l : c = [d EXCEPT !.at = @ + k]
  BY DEF On
<1>12. \A k \in Nat : On(l, k) \subseteq {[adm |-> Len(roll) + 1, at |-> k]}
  <2> SUFFICES ASSUME NEW k \in Nat, NEW c \in On(l, k) PROVE c = [adm |-> Len(roll) + 1, at |-> k]
    OBVIOUS
  <2>1. PICK d \in l : c = [d EXCEPT !.at = @ + k]
    BY <1>11
  <2>2. d = new
    BY <1>9, <2>1
  <2>3. c = [new EXCEPT !.at = @ + k]
    BY <2>1, <2>2
  <2>4. QED
    BY <1>8, <2>3
<1>13. \A k \in Nat : l # {} => [adm |-> Len(roll) + 1, at |-> k] \in On(l, k)
  BY <1>8, <1>9 DEF On
<1>14. Len(ring') = Len(Kept(left)) /\ IsRing(ring', roll')
  BY <1>3, <1>4, <1>5, <1>10, CutOverTyped
<1>15. \A i \in 1..Len(ring') :
          /\ i \in 1..Len(left) /\ i \in 1..Len(ring)
          /\ ring'[i] = left[i] \cup (IF i > Lead /\ i <= Lead + n THEN On(l, i - Lead - 1) ELSE {})
  <2> TAKE i \in 1..Len(ring')
  <2>1. i \in 1..Len(left) /\ i \in 1..Len(ring) /\ i \in 1..Len(Kept(left))
    BY <1>1, <1>5, <1>7, <1>14
  <2>2. QED
    BY <1>4, <1>5, <2>1, CutUnits
<1>16. Lead + 1 \in 1..Len(ring') /\ Lead + 1 <= Lead + n => On(l, 0) \subseteq ring'[Lead + 1]
  <2> SUFFICES ASSUME Lead + 1 \in 1..Len(ring'), Lead + 1 <= Lead + n
               PROVE  On(l, 0) \subseteq ring'[Lead + 1]
    OBVIOUS
  <2> DEFINE j == Lead + 1
  <2>1. j \in 1..Len(ring') /\ j > Lead /\ j <= Lead + n /\ j - Lead - 1 = 0
    BY <1>1
  <2> HIDE DEF j
  <2>2. ring'[j] = left[j] \cup On(l, j - Lead - 1)
    BY <1>15, <2>1
  <2>3. On(l, 0) \subseteq ring'[j]
    BY <2>1, <2>2
  <2>4. QED
    BY <2>3 DEF j
<1>17. RollsOn
  <2>1. Len(roll') <= Len(roll) + 1 /\ Extends(roll') /\ heardEnd' = NewAdmissions(roll')
    BY <1>1, <1>3, <1>4, <1>9
  <2>2. QED
    BY <1>4, <2>1, RollsOnward
<1>18. Covering' = Covering
  <2>1. CASE ring = <<>>
    <3>1. Len(ring) = 0
      BY <2>1
    <3>2. Len(ring') = 0
      BY <1>7, <1>14, <3>1
    <3>3. QED
      BY <1>14, <2>1, <3>2, FrontAfter, FrontOfRing
  <2>2. CASE ring # <<>>
    <3>1. Len(left) > 0 /\ left[1] = Covering
      BY <2>2, FrontIsHeardOf DEF left
    <3>2. QED
      BY <1>1, <1>3, <1>4, <1>5, <1>10, <3>1, CutFront
  <2>3. QED
    BY <2>1, <2>2
<1>19. ASSUME NEW i \in 1..Len(ring'), NEW c \in ring'[i]
       PROVE  \/ c.adm \in 1..Len(roll) /\ c \in ring[i] /\ c.adm \notin Unheard
              \/ /\ c.adm = Len(roll) + 1 /\ i > Lead /\ c.at = i - Lead - 1
                 /\ Within(c.adm, ring'[Lead + 1]) /\ c.at < Length[roll'[c.adm]]
  <2>1. CASE c \in left[i]
    <3>1. c \in ring[i] /\ c.adm \notin Unheard
      BY <1>6, <1>15, <2>1
    <3>2. c.adm \in 1..Len(roll)
      BY <1>1, <1>15, <3>1, UnitFacts
    <3>3. QED
      BY <3>1, <3>2
  <2>2. CASE i > Lead /\ i <= Lead + n /\ c \in On(l, i - Lead - 1)
    <3>1. i - Lead - 1 \in Nat /\ i - Lead - 1 < n
      BY <1>1, <1>10, <2>2
    <3>2. c = [adm |-> Len(roll) + 1, at |-> i - Lead - 1] /\ l # {}
      BY <1>11, <1>12, <2>2, <3>1
    <3>3. c.adm = Len(roll) + 1 /\ c.at = i - Lead - 1
      BY <3>2
    <3>4. Within(c.adm, ring'[Lead + 1])
      <4>1. Lead + 1 \in 1..Len(ring') /\ Lead + 1 > Lead /\ Lead + 1 <= Lead + n
        BY <1>1, <1>10, <1>14, <2>2, <3>1
      <4>2. [adm |-> Len(roll) + 1, at |-> 0] \in On(l, 0)
        BY <1>13, <3>2
      <4>3. [adm |-> Len(roll) + 1, at |-> 0] \in ring'[Lead + 1]
        BY <1>16, <4>1, <4>2
      <4>4. QED
        BY <3>3, <4>3 DEF Within
    <3>5. c.at < Length[roll'[c.adm]]
      <4>1. n < Length[roll'[c.adm]] /\ Length[roll'[c.adm]] \in Nat
        BY <1>4, <1>9, <1>10, <3>2, <3>3, LengthOf
      <4>2. QED
        BY <1>10, <3>1, <3>3, <4>1
    <3>6. QED
      BY <2>2, <3>3, <3>4, <3>5
  <2>3. QED
    BY <1>15, <2>1, <2>2
<1>20. ASSUME NEW i \in 1..Len(ring'), NEW c \in ring[i], c.adm \notin Unheard
       PROVE  c \in ring'[i]
  BY <1>6, <1>15, <1>20
<1>21. ASSUME NEW c \in live'
       PROVE  /\ c.adm = Len(roll) + 1 /\ c.at < Length[roll'[c.adm]]
              /\ c.at = 0 \/ \E i \in 1..Len(ring') : Within(c.adm, ring'[i])
  <2>1. c = [adm |-> Len(roll) + 1, at |-> n] /\ l # {}
    BY <1>4, <1>10, <1>11, <1>12
  <2>2. c.adm = Len(roll) + 1 /\ c.at = n
    BY <2>1
  <2>3. n > 0 => \E i \in 1..Len(ring') : Within(c.adm, ring'[i])
    <3> SUFFICES ASSUME n > 0 PROVE \E i \in 1..Len(ring') : Within(c.adm, ring'[i])
      OBVIOUS
    <3>1. Lead + 1 \in 1..Len(ring') /\ Lead + 1 > Lead /\ Lead + 1 <= Lead + n
      BY <1>1, <1>10, <1>14, <2>1
    <3>2. On(l, 0) \subseteq ring'[Lead + 1]
      BY <1>16, <3>1
    <3>3. [adm |-> Len(roll) + 1, at |-> 0] \in ring'[Lead + 1]
      BY <1>13, <2>1, <3>2
    <3>4. Within(c.adm, ring'[Lead + 1])
      BY <2>2, <3>3 DEF Within
    <3>5. QED
      BY <3>1, <3>4
  <2>4. QED
    BY <1>4, <1>10, <2>1, <2>2, <2>3
<1>22. ASSUME NEW b \in 1..Len(roll')
       PROVE  b \in 1..Len(roll) \/ Within(b, live')
  <2>1. CASE r = roll
    BY <1>4, <2>1
  <2>2. CASE l = {new} /\ Len(r) = Len(roll) + 1
    <3>1. b \in 1..Len(roll) \/ b = Len(roll) + 1
      BY <1>1, <1>4, <2>2
    <3>2. [adm |-> Len(roll) + 1, at |-> n] \in live'
      BY <1>4, <1>10, <1>13, <2>2
    <3>3. QED
      BY <3>1, <3>2 DEF Within
  <2>3. QED
    BY <1>9, <2>1, <2>2
<1>23. CutsOn
  BY <1>7, <1>14, <1>17, <1>18, <1>19, <1>20, <1>21, <1>22 DEF CutsOn
<1>24. Takes(q, a.dropped)
  BY <1>2, <1>4 DEF Takes
<1>25. QED
  BY <1>2, <1>4, <1>23, <1>24

-----------------------------------------------------------------------------
(* Whole, step by step.                                                     *)

LEMMA WholeTaken ==
    ASSUME TypeOK, Whole, RollsOn, listened' = listened, offered \subseteq offered',
           NEW q, NEW drop, Takes(q, drop), Shutdown \notin Items(q), Items(q) \subseteq offered',
           \A a \in 1..Len(roll) : roll[a] \notin Items(q)
    PROVE  /\ Distinct(roll, queue)' /\ Accounted(roll, heardEnd)'
           /\ Shutdown \notin Items(queue')
<1>1. /\ \A a, b \in 1..Len(roll) : roll[a] = roll[b] => a = b
      /\ \A a \in 1..Len(roll) : roll[a] \in offered /\ roll[a] \in Passages
      /\ \A p \in Passages : (\A a \in 1..Len(roll) : roll[a] # p) => listened[p] = 0
      /\ \A a \in 1..Len(roll) : listened[roll[a]] = heardEnd[a]
      /\ Len(roll) \in Nat
  BY RollFacts DEF Whole, Distinct, Accounted
<1>2. /\ \A a \in 1..Len(roll) : heardEnd'[a] = heardEnd[a] /\ a \in 1..Len(roll') /\ roll'[a] = roll[a]
      /\ \A a \in 1..Len(roll') : a \in 1..Len(roll) \/ (a = Len(roll) + 1 /\ heardEnd'[a] = 0)
  BY DEF RollsOn
<1>3. CASE roll' = roll /\ Items(queue') = Items(q) \ drop
  <2>1. Distinct(roll, queue)'
    BY <1>1, <1>3 DEF Distinct
  <2>2. Accounted(roll, heardEnd)'
    BY <1>1, <1>2, <1>3 DEF Accounted
  <2>3. QED
    BY <1>3, <2>1, <2>2
<1>4. ASSUME NEW p \in (Items(q) \cap Passages) \ drop, roll' = Append(roll, p),
             Items(queue') = Items(q) \ (drop \cup {p})
      PROVE  /\ Distinct(roll, queue)' /\ Accounted(roll, heardEnd)'
             /\ Shutdown \notin Items(queue')
  <2>1. /\ roll'[Len(roll) + 1] = p /\ Len(roll') = Len(roll) + 1
        /\ \A a \in 1..Len(roll) : roll[a] # p
    BY <1>4, RollGrows
  <2>2. /\ Len(roll) + 1 \in 1..Len(roll') /\ listened[p] = 0
        /\ \A a \in 1..Len(roll') : a \in 1..Len(roll) \/ (a = Len(roll) + 1 /\ roll'[a] = p)
    BY <1>1, <1>2, <2>1
  <2>3. Distinct(roll, queue)'
    <3>1. \A a, b \in 1..Len(roll') : roll'[a] = roll'[b] => a = b
      BY <1>1, <1>2, <2>1, <2>2
    <3>2. \A a \in 1..Len(roll') : roll'[a] \in offered' \ Items(queue')
      BY <1>1, <1>2, <1>4, <2>2
    <3>3. QED
      BY <3>1, <3>2 DEF Distinct
  <2>4. Accounted(roll, heardEnd)'
    <3>1. ASSUME NEW x \in Passages, \A a \in 1..Len(roll') : roll'[a] # x
          PROVE  listened'[x] = 0
      <4>1. \A a \in 1..Len(roll) : roll[a] # x
        BY <1>2, <3>1
      <4>2. QED
        BY <1>1, <4>1
    <3>2. \A a \in 1..Len(roll') : listened'[roll'[a]] = heardEnd'[a]
      BY <1>1, <1>2, <2>2
    <3>3. QED
      BY <3>1, <3>2 DEF Accounted
  <2>5. QED
    BY <1>4, <2>3, <2>4
<1>5. QED
  BY <1>3, <1>4 DEF Takes

LEMMA StartMixedOn ==
    ASSUME TypeOK, FromTheStart(ring, heardEnd, live, roll), NEW m, MixesOn(m)
    PROVE  FromTheStart(ring, heardEnd, live, roll)'
<1>1. /\ \A a \in 1..Len(roll) : heardEnd'[a] = heardEnd[a]
      /\ \A a \in 1..Len(roll') : a \in 1..Len(roll) \/ a = Len(roll) + 1
      /\ \A c \in m : c \in live \/ c = [adm |-> Len(roll) + 1, at |-> 0]
      /\ Len(roll) \in Nat /\ Len(ring) \in Nat
      /\ \A c \in live : c.adm \in 1..Len(roll)
      /\ \A i \in 1..Len(ring) : \A c \in ring[i] : c.adm \in 1..Len(roll)
  BY RollFacts, RingTyped, UnitFacts DEF MixesOn, RollsOn, IsMixer
<1>2. FromTheStart(ring, heardEnd', m, roll')
  <2> SUFFICES ASSUME NEW a \in 1..Len(roll'), heardEnd'[a] = 0
               PROVE  /\ (\A i \in 1..Len(ring) : ~Within(a, ring[i])) =>
                            \A c \in m : c.adm = a => c.at = 0
                      /\ \A i \in 1..Len(ring) : \A c \in ring[i] :
                            c.adm = a /\ (\A j \in 1..(i - 1) : ~Within(a, ring[j])) => c.at = 0
    BY DEF FromTheStart
  <2>1. CASE a \in 1..Len(roll)
    <3>1. heardEnd[a] = 0 /\ \A c \in m : c.adm = a => c \in live
      BY <1>1, <2>1
    <3>2. QED
      BY <2>1, <3>1 DEF FromTheStart
  <2>2. CASE a = Len(roll) + 1
    BY <1>1, <2>2
  <2>3. QED
    BY <1>1, <2>1, <2>2
<1>3. CASE ring' = ring /\ live' = m
  BY <1>2, <1>3
<1>4. CASE /\ Len(ring') = Len(ring) + 1 /\ ring'[Len(ring) + 1] = m
           /\ \A i \in 1..Len(ring) : ring'[i] = ring[i]
           /\ \A c \in live' : \E d \in m : c.adm = d.adm
  <2>1. FromTheStart(ring', heardEnd', live', roll')
    BY <1>1, <1>2, <1>4, StartMixed
  <2>2. QED
    BY <2>1
<1>5. QED
  BY <1>3, <1>4 DEF MixesOn

LEMMA StartCut ==
    ASSUME TypeOK, FromTheStart(ring, heardEnd, live, roll), CutsOn
    PROVE  FromTheStart(ring, heardEnd, live, roll)'
<1>1. /\ \A a \in 1..Len(roll) : heardEnd'[a] = heardEnd[a]
      /\ \A a \in 1..Len(roll') : a \in 1..Len(roll) \/ a = Len(roll) + 1
      /\ Len(roll) \in Nat /\ Len(ring) \in Nat /\ Len(ring') \in Nat /\ Len(ring') <= Len(ring)
      /\ Lead \in Nat
      /\ \A i \in 1..Len(ring') : \A c \in ring'[i] :
            \/ c.adm \in 1..Len(roll) /\ c \in ring[i] /\ c.adm \notin Unheard
            \/ c.adm = Len(roll) + 1 /\ i > Lead /\ c.at = i - Lead - 1 /\ Within(c.adm, ring'[Lead + 1])
      /\ \A i \in 1..Len(ring') : \A c \in ring[i] : c.adm \notin Unheard => c \in ring'[i]
      /\ \A c \in live' : /\ c.adm = Len(roll) + 1
                          /\ c.at = 0 \/ \E i \in 1..Len(ring') : Within(c.adm, ring'[i])
  BY RollFacts, RingTyped, UnitFacts, DeviceAssumption DEF CutsOn, RollsOn
<1> SUFFICES ASSUME NEW a \in 1..Len(roll'), heardEnd'[a] = 0
             PROVE  /\ (\A i \in 1..Len(ring') : ~Within(a, ring'[i])) =>
                          \A c \in live' : c.adm = a => c.at = 0
                    /\ \A i \in 1..Len(ring') : \A c \in ring'[i] :
                          c.adm = a /\ (\A j \in 1..(i - 1) : ~Within(a, ring'[j])) => c.at = 0
  BY DEF FromTheStart
<1>2. (\A i \in 1..Len(ring') : ~Within(a, ring'[i])) => \A c \in live' : c.adm = a => c.at = 0
  BY <1>1
<1>3. ASSUME NEW i \in 1..Len(ring'), NEW c \in ring'[i], c.adm = a,
             \A j \in 1..(i - 1) : ~Within(a, ring'[j])
      PROVE  c.at = 0
  <2>1. CASE c.adm \in 1..Len(roll) /\ c \in ring[i] /\ c.adm \notin Unheard
    <3>1. \A j \in 1..(i - 1) : ~Within(a, ring[j])
      <4> SUFFICES ASSUME NEW j \in 1..(i - 1), NEW d \in ring[j], d.adm = a PROVE FALSE
        BY DEF Within
      <4>1. j \in 1..Len(ring')
        BY <1>1
      <4>2. d \in ring'[j]
        BY <1>1, <1>3, <2>1, <4>1
      <4>3. QED
        BY <1>3, <4>2 DEF Within
    <3>2. i \in 1..Len(ring) /\ heardEnd[a] = 0
      BY <1>1, <1>3, <2>1
    <3>3. QED
      BY <1>3, <2>1, <3>1, <3>2 DEF FromTheStart
  <2>2. CASE i > Lead /\ c.at = i - Lead - 1 /\ Within(c.adm, ring'[Lead + 1])
    <3>1. ~(Lead + 1 \in 1..(i - 1))
      BY <1>3, <2>2
    <3>2. i = Lead + 1
      BY <1>1, <2>2, <3>1
    <3>3. QED
      BY <1>1, <2>2, <3>2
  <2>3. QED
    BY <1>1, <2>1, <2>2
<1>4. QED
  BY <1>2, <1>3

-----------------------------------------------------------------------------
(* Lined, step by step.                                                     *)

\* What is heard of an admission: of it something has been heard, or sounds.
HeardOf(a) == heardEnd[a] > 0 \/ Within(a, Covering)

LEMMA HeardOfIs ==
    ASSUME TypeOK, NEW a \in 1..Len(roll)
    PROVE  /\ HeardTo(a) # Nowhere <=> HeardOf(a)
           /\ a \in Unheard <=> Within(a, live) /\ ~HeardOf(a)
<1>1. HeardTo(a) = HeardIn(Covering, heardEnd, a)
  BY DEF HeardTo, HeardIn, Within
<1>2. heardEnd[a] \in Nat
  BY HeardEndOf
<1>3. CASE Within(a, Covering)
  <2> DEFINE d == CHOOSE b \in Covering : b.adm = a
  <2>1. d \in Covering /\ HeardTo(a) = d.at
    BY <1>1, <1>3 DEF HeardIn, Within
  <2> HIDE DEF d
  <2>2. HeardTo(a) \in Nat
    BY <2>1, CoveringTyped
  <2>3. HeardTo(a) # Nowhere
    BY <2>2 DEF Nowhere
  <2>4. QED
    BY <1>3, <2>3 DEF Unheard, HeardOf, Within
<1>4. CASE ~Within(a, Covering)
  <2>1. HeardTo(a) = IF heardEnd[a] > 0 THEN heardEnd[a] ELSE Nowhere
    BY <1>1, <1>4 DEF HeardIn
  <2>2. HeardTo(a) # Nowhere <=> heardEnd[a] > 0
    BY <1>2, <2>1 DEF Nowhere
  <2>3. QED
    BY <1>4, <2>2 DEF Unheard, HeardOf, Within
<1>5. QED
  BY <1>3, <1>4

\* What is known of what a pass adds to.
LEMMA MixedOver ==
    ASSUME TypeOK, NEW m, MixesOn(m)
    PROVE  /\ Len(roll) \in Nat /\ Len(ring) \in Nat /\ Len(ring') \in Nat
           /\ \A c \in m : c.adm \in 1..Len(roll') /\ c.at \in Nat /\ roll'[c.adm] \in Passages
           /\ \A c \in live : c.adm \in 1..Len(roll)
           /\ \A i \in 1..Len(ring) : \A c \in ring[i] : c.adm \in 1..Len(roll)
           /\ \A a \in 1..Len(roll) : Within(a, m) => Within(a, live)
           /\ \A a \in 1..Len(roll) : Within(a, live') => Within(a, live)
           /\ \A i \in 1..Len(ring') : \/ i \in 1..Len(ring) /\ ring'[i] = ring[i]
                                       \/ i = Len(ring) + 1 /\ ring'[i] = m
<1>1. /\ Len(roll) \in Nat /\ Len(ring) \in Nat
      /\ \A c \in live : c.adm \in 1..Len(roll)
      /\ \A i \in 1..Len(ring) : \A c \in ring[i] : c.adm \in 1..Len(roll)
  BY RollFacts, RingTyped, UnitFacts DEF IsMixer
<1>2. \A c \in m : c.adm \in 1..Len(roll') /\ c.at \in Nat /\ roll'[c.adm] \in Passages
  BY ElementOfSeq DEF MixesOn, IsMixer, RollsOn, Extends
<1>3. \A a \in 1..Len(roll) : Within(a, m) => Within(a, live)
  <2>1. \A c \in m : c \in live \/ c.adm = Len(roll) + 1
    BY DEF MixesOn
  <2>2. QED
    BY <1>1, <2>1 DEF Within
<1>4. \A a : Within(a, live') => Within(a, m)
  <2>1. live' = m \/ \A c \in live' : \E d \in m : c.adm = d.adm
    BY DEF MixesOn
  <2>2. QED
    BY <2>1 DEF Within
<1>5. \/ Len(ring') = Len(ring) /\ \A i \in 1..Len(ring) : ring'[i] = ring[i]
      \/ /\ Len(ring') = Len(ring) + 1 /\ ring'[Len(ring) + 1] = m
         /\ \A i \in 1..Len(ring) : ring'[i] = ring[i]
  BY DEF MixesOn
<1>6. Len(ring') \in Nat
  BY <1>1, <1>5
<1>7. ASSUME NEW i \in 1..Len(ring')
      PROVE  \/ i \in 1..Len(ring) /\ ring'[i] = ring[i]
             \/ i = Len(ring) + 1 /\ ring'[i] = m
  BY <1>1, <1>5
<1>8. QED
  BY <1>1, <1>2, <1>3, <1>4, <1>6, <1>7

LEMMA StoppedMixed ==
    ASSUME TypeOK, NEW m, MixesOn(m), NEW a \in 1..Len(roll), Stopped(a, ring, heardEnd, live, roll)
    PROVE  Stopped(a, ring', heardEnd', live', roll')
<1>1. heardEnd'[a] = heardEnd[a] /\ roll'[a] = roll[a]
  BY DEF MixesOn, RollsOn
<1>2. ~Within(a, live) /\ ~Ended(a, ring, heardEnd, roll)
  BY DEF Stopped
<1>3. ~Within(a, live') /\ ~Within(a, m)
  BY <1>2, MixedOver
<1>4. \A i \in 1..Len(ring') : ~LastOf(a, ring'[i], roll')
  <2> SUFFICES ASSUME NEW i \in 1..Len(ring'), LastOf(a, ring'[i], roll') PROVE FALSE
    OBVIOUS
  <2>1. CASE i \in 1..Len(ring) /\ ring'[i] = ring[i]
    BY <1>1, <1>2, <2>1 DEF Ended, LastOf
  <2>2. CASE ring'[i] = m
    BY <1>3, <2>2 DEF LastOf, Within
  <2>3. QED
    BY <2>1, <2>2, MixedOver
<1>5. QED
  BY <1>1, <1>2, <1>3, <1>4 DEF Stopped, Ended

LEMMA LinedMixed ==
    ASSUME Roomy, TypeOK, Lined, NEW m, MixesOn(m), Laid(ring', heardEnd'),
           FromTheStart(ring', heardEnd', live', roll'), IsRing(ring', roll')
    PROVE  Lined'
<1>1. /\ Inside(ring, heardEnd, live, roll) /\ Apart(live, roll)
      /\ Passed(ring, heardEnd, live, roll) /\ ToBeHeard(ring, heardEnd, live, roll)
      /\ \A a \in 1..Len(roll) : heardEnd[a] > 0 => a <= lastHeard
  BY DEF Lined
<1>2. /\ \A a \in 1..Len(roll) : heardEnd'[a] = heardEnd[a] /\ a \in 1..Len(roll') /\ roll'[a] = roll[a]
      /\ \A a \in 1..Len(roll') : a \in 1..Len(roll) \/ (a = Len(roll) + 1 /\ heardEnd'[a] = 0)
      /\ lastHeard' = lastHeard /\ roll' \in Seq(Passages)
  BY DEF MixesOn, RollsOn, Extends
<1>3. /\ \A c \in m : c.at < Length[roll'[c.adm]]
      /\ Apart(m, roll') /\ live \subseteq m
      /\ \/ ring' = ring /\ live' = m
         \/ /\ Len(ring) < RingCap
            /\ Len(ring') = Len(ring) + 1 /\ ring'[Len(ring) + 1] = m
            /\ \A i \in 1..Len(ring) : ring'[i] = ring[i]
            /\ \A c \in live' : /\ c.at < Length[roll'[c.adm]]
                                /\ \E d \in m : c.adm = d.adm /\ c.at = d.at + 1
            /\ \A d \in m : d.at + 1 < Length[roll'[d.adm]] => Within(d.adm, live')
  BY DEF MixesOn
<1>4. /\ Len(roll) \in Nat /\ Len(ring) \in Nat /\ Len(ring') \in Nat
      /\ \A c \in m : c.adm \in 1..Len(roll') /\ c.at \in Nat /\ roll'[c.adm] \in Passages
      /\ \A c \in live : c.adm \in 1..Len(roll)
      /\ \A i \in 1..Len(ring) : \A c \in ring[i] : c.adm \in 1..Len(roll)
      /\ \A i \in 1..Len(ring') : \/ i \in 1..Len(ring) /\ ring'[i] = ring[i]
                                  \/ i = Len(ring) + 1 /\ ring'[i] = m
  BY MixedOver
<1>5. Inside(ring', heardEnd', live', roll')
  <2>1. \A c \in live' : c.at < Length[roll'[c.adm]]
    BY <1>3
  <2>2. \A i \in 1..Len(ring') : \A c \in ring'[i] : c.at < Length[roll'[c.adm]]
    BY <1>1, <1>2, <1>3, <1>4 DEF Inside
  <2>3. \A a \in 1..Len(roll') : heardEnd'[a] <= Length[roll'[a]]
    <3> TAKE a \in 1..Len(roll')
    <3>1. Length[roll'[a]] \in Nat
      BY <1>2, ElementOfSeq, LengthOf
    <3>2. QED
      BY <1>1, <1>2, <3>1 DEF Inside
  <2>4. QED
    BY <2>1, <2>2, <2>3 DEF Inside
<1>6. Apart(live', roll')
  <2>1. CASE live' = m
    BY <1>3, <2>1
  <2>2. CASE \A c \in live' : \E d \in m : c.adm = d.adm /\ c.at = d.at + 1
    <3> SUFFICES ASSUME NEW c \in live', NEW d \in live', c.adm < d.adm PROVE Far(c, d, roll')
      BY DEF Apart
    <3>1. PICK b \in m : c.adm = b.adm /\ c.at = b.at + 1
      BY <2>2
    <3>2. PICK e \in m : d.adm = e.adm /\ d.at = e.at + 1
      BY <2>2
    <3>3. Far(b, e, roll')
      BY <1>3, <3>1, <3>2 DEF Apart
    <3>4. b.at \in Nat /\ e.at \in Nat /\ Half(roll'[b.adm]) \in Nat
      BY <1>4, RoomFor
    <3>5. QED
      BY <3>1, <3>2, <3>3, <3>4 DEF Far
  <2>3. QED
    BY <1>3, <2>1, <2>2
<1>7. Passed(ring', heardEnd', live', roll')
  <2> SUFFICES ASSUME NEW i \in 1..Len(ring'), NEW c \in ring'[i], NEW d \in ring'[i], c.adm < d.adm
               PROVE  /\ c.at >= 1
                      /\ Far(c, d, roll') \/ Stopped(c.adm, ring', heardEnd', live', roll')
    BY DEF Passed
  <2>1. CASE i \in 1..Len(ring) /\ ring'[i] = ring[i]
    <3>1. /\ c.at >= 1 /\ c.adm \in 1..Len(roll)
          /\ Far(c, d, roll) \/ Stopped(c.adm, ring, heardEnd, live, roll)
      BY <1>1, <1>4, <2>1 DEF Passed
    <3>2. Far(c, d, roll) => Far(c, d, roll')
      BY <1>2, <3>1 DEF Far
    <3>3. QED
      BY <3>1, <3>2, StoppedMixed
  <2>2. CASE ring'[i] = m
    <3>1. Far(c, d, roll')
      BY <1>3, <2>2 DEF Apart
    <3>2. c.at \in Nat /\ d.at \in Nat /\ Half(roll'[c.adm]) \in Nat
      BY <1>4, <2>2, RoomFor
    <3>3. QED
      BY <3>1, <3>2 DEF Far
  <2>3. QED
    BY <1>4, <2>1, <2>2
<1>8. ToBeHeard(ring', heardEnd', live', roll')
  <2> SUFFICES ASSUME NEW a \in 1..Len(roll'), NEW i \in 1..Len(ring'),
                      heardEnd'[a] = 0, Within(a, ring'[i]), ~Within(a, ring'[1])
               PROVE  Within(a, live')
    BY DEF ToBeHeard
  <2>1. Within(a, m)
    <3>1. CASE i \in 1..Len(ring) /\ ring'[i] = ring[i]
      <4>1. a \in 1..Len(roll) /\ heardEnd[a] = 0
        BY <1>2, <1>4, <3>1 DEF Within
      <4>2. 1 \in 1..Len(ring)
        BY <1>4, <3>1
      <4>3. ring'[1] = ring[1]
        BY <1>3, <4>2
      <4>4. Within(a, live)
        BY <1>1, <3>1, <4>1, <4>3 DEF ToBeHeard
      <4>5. QED
        BY <1>3, <4>4 DEF Within
    <3>2. CASE ring'[i] = m
      BY <3>2
    <3>3. QED
      BY <1>4, <3>1, <3>2
  <2>2. CASE live' = m
    BY <2>1, <2>2
  <2>3. ASSUME /\ Len(ring) < RingCap
               /\ Len(ring') = Len(ring) + 1 /\ ring'[Len(ring) + 1] = m
               /\ \A d \in m : d.at + 1 < Length[roll'[d.adm]] => Within(d.adm, live')
        PROVE  Within(a, live')
    <3> DEFINE n == Len(ring) + 1
    <3>1. n \in 1..Len(ring') /\ Within(a, ring'[n]) /\ Len(ring') = n /\ n \in Nat
      BY <1>4, <2>1, <2>3
    <3> HIDE DEF n
    <3>2. PICK j \in 1..n : Within(a, ring'[j]) /\ \A k \in 1..(j - 1) : ~Within(a, ring'[k])
      BY <3>1, FirstUnit
    <3>3. j # 1 /\ j \in 1..Len(ring')
      BY <3>1, <3>2
    <3>4. PICK b \in ring'[j] : b.adm = a
      BY <3>2 DEF Within
    <3>5. PICK c \in ring'[n] : c.adm = a
      BY <3>1 DEF Within
    <3>6. b.at = 0
      BY <3>2, <3>3, <3>4 DEF FromTheStart
    <3>7. \A k \in 1..Len(ring') : \A d \in ring'[k] : d.at \in Nat
      BY UnitFacts
    <3>8. c.at = b.at + (n - j)
      BY <3>1, <3>3, <3>4, <3>5, <3>7, InLine
    <3>9. c.at + 1 < RingCap
      <4>1. n <= RingCap /\ RingCap \in Nat
        BY <1>4, <2>3, DeviceAssumption DEF n
      <4>2. QED
        BY <3>1, <3>3, <3>6, <3>8, <4>1
    <3>10. c \in m /\ c.at \in Nat /\ roll'[c.adm] \in Passages
      BY <1>4, <2>3, <3>5 DEF n
    <3>11. RingCap <= Length[roll'[c.adm]] /\ Length[roll'[c.adm]] \in Nat /\ RingCap \in Nat
      BY <3>10, RoomFor, DeviceAssumption
    <3>12. c.at + 1 < Length[roll'[c.adm]]
      BY <3>9, <3>10, <3>11
    <3>13. QED
      BY <2>3, <3>5, <3>10, <3>12
  <2>4. QED
    BY <1>3, <2>2, <2>3
<1>9. \A a \in 1..Len(roll') : heardEnd'[a] > 0 => a <= lastHeard'
  BY <1>1, <1>2
<1>10. QED
  BY <1>5, <1>6, <1>7, <1>8, <1>9 DEF Lined

\* What is left of the ring by a cut has been heard of, or is the newcomer.
LEMMA CutLeaves ==
    ASSUME TypeOK, Lying, Lined, CutsOn
    PROVE  /\ Len(roll) \in Nat /\ Len(ring) \in Nat /\ Len(ring') \in Nat /\ Len(ring') <= Len(ring)
           /\ \A i \in 1..Len(ring') : i \in 1..Len(ring) /\ 1 \in 1..Len(ring) /\ Covering = ring[1]
           /\ \A i \in 1..Len(ring') : \A c \in ring'[i] : c.adm \in 1..Len(roll) =>
                 c \in ring[i] /\ HeardOf(c.adm)
           /\ \A a \in 1..Len(roll) : ~Within(a, live')
<1>1. /\ Len(roll) \in Nat /\ Len(ring) \in Nat /\ Len(ring') \in Nat /\ Len(ring') <= Len(ring)
      /\ \A i \in 1..Len(ring') : \A c \in ring'[i] :
            c.adm \in 1..Len(roll) => c \in ring[i] /\ c.adm \notin Unheard
  BY RollFacts, RingTyped, UnitFacts DEF CutsOn
<1>2. \A i \in 1..Len(ring') : i \in 1..Len(ring) /\ 1 \in 1..Len(ring) /\ Covering = ring[1]
  <2> TAKE i \in 1..Len(ring')
  <2>1. i \in 1..Len(ring) /\ 1 \in 1..Len(ring) /\ Len(ring) > 0
    BY <1>1
  <2>2. ring # <<>>
    BY <2>1
  <2>3. QED
    BY <2>1, <2>2, FrontOfRing
<1>3. ASSUME NEW i \in 1..Len(ring'), NEW c \in ring'[i], c.adm \in 1..Len(roll)
      PROVE  c \in ring[i] /\ HeardOf(c.adm)
  <2>1. c \in ring[i] /\ c.adm \notin Unheard
    BY <1>1, <1>3
  <2>2. i \in 1..Len(ring) /\ Covering = ring[1]
    BY <1>2
  <2>3. ~HeardOf(c.adm) => Within(c.adm, live)
    <3> SUFFICES ASSUME ~HeardOf(c.adm) PROVE Within(c.adm, live)
      OBVIOUS
    <3>1. heardEnd[c.adm] = 0 /\ ~Within(c.adm, ring[1])
      BY <1>3, <2>2, HeardEndOf DEF HeardOf
    <3>2. Within(c.adm, ring[i])
      BY <2>1 DEF Within
    <3>3. QED
      BY <1>3, <2>2, <3>1, <3>2 DEF Lined, ToBeHeard
  <2>4. QED
    BY <1>3, <2>1, <2>3, HeardOfIs
<1>4. \A a \in 1..Len(roll) : ~Within(a, live')
  <2>1. \A c \in live' : c.adm = Len(roll) + 1
    BY DEF CutsOn
  <2>2. QED
    BY <1>1, <2>1 DEF Within
<1>5. QED
  BY <1>1, <1>2, <1>3, <1>4

\* What was stopped stays so, and what was cut well before its end is.
LEMMA StoppedCut ==
    ASSUME TypeOK, Lying, Lined, CutsOn, NEW a \in 1..Len(roll)
    PROVE  /\ \A i \in 1..Len(ring') : LastOf(a, ring'[i], roll') => LastOf(a, ring[i], roll)
           /\ Stopped(a, ring, heardEnd, live, roll) => Stopped(a, ring', heardEnd', live', roll')
<1>1. heardEnd'[a] = heardEnd[a] /\ roll'[a] = roll[a]
  BY DEF CutsOn, RollsOn
<1>2. \A i \in 1..Len(ring') : LastOf(a, ring'[i], roll') => LastOf(a, ring[i], roll)
  BY <1>1, CutLeaves DEF LastOf
<1>3. ~Within(a, live') /\ \A i \in 1..Len(ring') : i \in 1..Len(ring)
  BY CutLeaves
<1>4. QED
  BY <1>1, <1>2, <1>3 DEF Stopped, Ended

LEMMA LinedCut ==
    ASSUME Roomy, TypeOK, Lying, Lined, FromTheStart(ring, heardEnd, live, roll), CutsOn
    PROVE  Lined'
<1>1. /\ Inside(ring, heardEnd, live, roll) /\ Passed(ring, heardEnd, live, roll)
      /\ \A a \in 1..Len(roll) : heardEnd[a] > 0 => a <= lastHeard
      /\ Laid(ring, heardEnd)
  BY DEF Lined, Lying
<1>2. /\ \A a \in 1..Len(roll) : heardEnd'[a] = heardEnd[a] /\ a \in 1..Len(roll') /\ roll'[a] = roll[a]
      /\ \A a \in 1..Len(roll') : a \in 1..Len(roll) \/ (a = Len(roll) + 1 /\ heardEnd'[a] = 0)
      /\ lastHeard' = lastHeard /\ roll' \in Seq(Passages)
      /\ \A a \in 1..Len(roll) : roll[a] \in Passages
  BY RollFacts DEF CutsOn, RollsOn, Extends
<1>3. /\ Len(ring') <= Fade
      /\ \A i \in 1..Len(ring') : \A c \in ring'[i] :
            \/ c.adm \in 1..Len(roll)
            \/ c.adm = Len(roll) + 1 /\ i > Lead /\ c.at = i - Lead - 1 /\ c.at < Length[roll'[c.adm]]
      /\ \A c \in live' : c.adm = Len(roll) + 1 /\ c.at < Length[roll'[c.adm]]
      /\ \A a \in 1..Len(roll') : a \in 1..Len(roll) \/ Within(a, live')
      /\ \A i \in 1..Len(ring') : \A c \in ring[i] : c.adm \notin Unheard => c \in ring'[i]
  BY DEF CutsOn
<1>4. /\ Len(roll) \in Nat /\ Len(ring) \in Nat /\ Len(ring') \in Nat /\ Len(ring') <= Len(ring)
      /\ \A i \in 1..Len(ring') : i \in 1..Len(ring) /\ 1 \in 1..Len(ring) /\ Covering = ring[1]
      /\ \A i \in 1..Len(ring') : \A c \in ring'[i] : c.adm \in 1..Len(roll) =>
            c \in ring[i] /\ HeardOf(c.adm)
      /\ \A a \in 1..Len(roll) : ~Within(a, live')
  BY CutLeaves
<1>5. Inside(ring', heardEnd', live', roll')
  <2>1. \A i \in 1..Len(ring') : \A c \in ring'[i] : c.at < Length[roll'[c.adm]]
    BY <1>1, <1>2, <1>3, <1>4 DEF Inside
  <2>2. \A a \in 1..Len(roll') : heardEnd'[a] <= Length[roll'[a]]
    <3> TAKE a \in 1..Len(roll')
    <3>1. Length[roll'[a]] \in Nat
      BY <1>2, ElementOfSeq, LengthOf
    <3>2. QED
      BY <1>1, <1>2, <3>1 DEF Inside
  <2>3. QED
    BY <1>3, <2>1, <2>2 DEF Inside
<1>6. Apart(live', roll')
  BY <1>3, <1>4 DEF Apart
<1>7. Passed(ring', heardEnd', live', roll')
  <2> SUFFICES ASSUME NEW i \in 1..Len(ring'), NEW c \in ring'[i], NEW d \in ring'[i], c.adm < d.adm
               PROVE  /\ c.at >= 1
                      /\ Far(c, d, roll') \/ Stopped(c.adm, ring', heardEnd', live', roll')
    BY DEF Passed
  <2> DEFINE a == c.adm
  <2>1. a \in 1..Len(roll) /\ c \in ring[i] /\ HeardOf(a) /\ i \in 1..Len(ring)
    BY <1>3, <1>4
  <2>2. CASE d.adm \in 1..Len(roll)
    <3>1. d \in ring[i]
      BY <1>4, <2>2
    <3>2. c.at >= 1 /\ (Far(c, d, roll) \/ Stopped(a, ring, heardEnd, live, roll))
      BY <1>1, <2>1, <3>1 DEF Passed
    <3>3. Far(c, d, roll) => Far(c, d, roll')
      BY <1>2, <2>1 DEF Far
    <3>4. QED
      BY <2>1, <3>2, <3>3, StoppedCut
  <2>3. CASE i > Lead /\ d.at = i - Lead - 1
    <3> DEFINE p == roll[a]
    <3>1. Begun(ring, heardEnd, 1, a)
      <4>1. 1 \in 1..1 /\ Covering = ring[1]
        BY <1>4
      <4>2. QED
        BY <2>1, <4>1 DEF HeardOf, Begun
    <3>2. Within(a, ring[1])
      <4>1. 1 \in 1..i /\ 1 \in 1..i
        BY <2>1
      <4>2. \A j \in 1..i : Within(c.adm, ring[j])
        BY <1>1, <1>4, <2>1, <3>1, <4>1, InEvery
      <4>3. QED
        BY <4>1, <4>2
    <3>3. PICK b \in ring[1] : b.adm = a
      BY <3>2 DEF Within
    <3>4. \A j \in 1..Len(ring) : \A e \in ring[j] : e.at \in Nat
      BY RingTyped, UnitFacts
    <3>5. 1 \in 1..Len(ring) /\ Len(ring) > 0
      BY <1>4
    <3> HIDE DEF a
    <3>6. c.at = b.at + (i - 1)
      BY <1>1, <1>4, <2>1, <3>3, <3>4, <3>5, InLine DEF a
    <3>7. heardEnd[a] = b.at /\ b.at < Length[p] /\ b.at \in Nat
      <4>1. heardEnd[b.adm] = b.at
        BY <1>1, <1>4, <2>1, <3>3, <3>5, FrontReached
      <4>2. QED
        BY <1>1, <3>3, <3>4, <3>5, <4>1 DEF Inside
    <3>8. Lead \in Nat \ {0} /\ Fade \in Nat
      BY DeviceAssumption
    <3>9. /\ p \in Passages /\ Length[p] \in Nat /\ Half(p) \in Nat
          /\ Fade + Half(p) + 2 <= Length[p] + Lead
      BY <1>2, <2>1, RoomFor
    <3>10. c.at >= 1
      BY <1>4, <2>1, <2>3, <3>6, <3>7, <3>8
    <3>11. roll'[a] = p /\ heardEnd'[a] = heardEnd[a] /\ ~Within(a, live')
      BY <1>2, <1>4, <2>1
    <3> HIDE DEF p
    <3>12. ASSUME ~(c.at >= d.at + Half(p) + 2)
           PROVE  Stopped(a, ring', heardEnd', live', roll')
      <4>1. heardEnd'[a] # Length[roll'[a]]
        BY <3>7, <3>9, <3>11
      <4>2. ASSUME NEW k \in 1..Len(ring'), LastOf(a, ring'[k], roll')
            PROVE  FALSE
        <5>1. LastOf(a, ring[k], roll) /\ k \in 1..Len(ring)
          BY <1>4, <2>1, <4>2, StoppedCut
        <5>2. PICK e \in ring[k] : e.adm = a /\ e.at + 1 = Length[p]
          BY <5>1 DEF LastOf, p
        <5>3. 1 <= k /\ k \in 1..Len(ring) /\ b.adm = e.adm
          BY <3>3, <5>1, <5>2
        <5>4. e.at = b.at + (k - 1)
          BY <1>1, <1>4, <3>4, <3>5, <5>3, InLine
        <5>5. k \in Nat /\ k <= Fade /\ i \in Nat
          BY <1>3, <1>4, <3>8
        <5> DEFINE x == b.at
                   h == Half(p)
                   n == Length[p]
        <5>6. /\ x \in Nat /\ h \in Nat /\ n \in Nat /\ Lead \in Nat /\ Fade \in Nat
              /\ x + (i - 1) < (i - Lead - 1) + h + 2
              /\ x + (k - 1) + 1 = n /\ Fade + h + 2 <= n + Lead
          <6>1. x \in Nat /\ h \in Nat /\ n \in Nat /\ Lead \in Nat /\ Fade \in Nat /\ Fade + h + 2 <= n + Lead
            BY <3>7, <3>8, <3>9
          <6>2. c.at = x + (i - 1) /\ d.at = i - Lead - 1 /\ ~(c.at >= d.at + h + 2)
            BY <2>3, <3>6, <3>12
          <6>3. x + (i - 1) < (i - Lead - 1) + h + 2
            <7>1. ~(x + (i - 1) >= (i - Lead - 1) + h + 2)
              BY <6>2
            <7> HIDE DEF x, h, n
            <7>2. QED
              BY <5>5, <6>1, <7>1
          <6>4. x + (k - 1) + 1 = n
            BY <5>2, <5>4
          <6>5. QED
            BY <6>1, <6>3, <6>4
        <5> HIDE DEF x, h, n
        <5>7. QED
          BY <5>5, <5>6
      <4>3. QED
        BY <3>11, <4>1, <4>2 DEF Stopped, Ended
    <3>13. QED
      BY <3>10, <3>11, <3>12 DEF Far, a
  <2>4. QED
    BY <1>3, <2>2, <2>3
<1>8. ToBeHeard(ring', heardEnd', live', roll')
  <2> SUFFICES ASSUME NEW a \in 1..Len(roll'), NEW i \in 1..Len(ring'),
                      heardEnd'[a] = 0, Within(a, ring'[i]), ~Within(a, ring'[1])
               PROVE  Within(a, live')
    BY DEF ToBeHeard
  <2>1. CASE a \in 1..Len(roll)
    <3>1. PICK c \in ring'[i] : c.adm = a
      BY DEF Within
    <3>2. HeardOf(a) /\ heardEnd[a] = 0 /\ Covering = ring[1]
      BY <1>2, <1>4, <2>1, <3>1
    <3>3. PICK b \in ring[1] : b.adm = a
      BY <3>2 DEF HeardOf, Within
    <3>4. a \notin Unheard
      BY <2>1, <3>2, HeardOfIs
    <3>5. 1 \in 1..Len(ring')
      BY <1>4
    <3>6. b \in ring'[1]
      BY <1>3, <3>3, <3>4, <3>5
    <3>7. QED
      BY <3>3, <3>6 DEF Within
  <2>2. QED
    BY <1>3, <2>1
<1>9. \A a \in 1..Len(roll') : heardEnd'[a] > 0 => a <= lastHeard'
  BY <1>1, <1>2
<1>10. QED
  BY <1>5, <1>6, <1>7, <1>8, <1>9 DEF Lined

\* The device comes to a stopped admission's end no more than anyone.
LEMMA StoppedTaken ==
    ASSUME TypeOK, DeviceOn, NEW a \in 1..Len(roll), Stopped(a, ring, heardEnd, live, roll)
    PROVE  Stopped(a, ring', heardEnd', live', roll')
<1>1. /\ ~Within(a, live) /\ heardEnd[a] # Length[roll[a]]
      /\ \A i \in 1..Len(ring) : ~LastOf(a, ring[i], roll)
  BY DEF Stopped, Ended
<1>2. live' = live /\ roll' = roll /\ 1 \in 1..Len(ring)
  BY DEF DeviceOn
<1>3. heardEnd'[a] # Length[roll[a]]
  <2>1. CASE Within(a, ring[1])
    <3>1. PICK c \in ring[1] : c.adm = a
      BY <2>1 DEF Within
    <3>2. heardEnd'[a] = c.at + 1
      BY <3>1 DEF DeviceOn
    <3>3. QED
      BY <1>1, <1>2, <3>1, <3>2 DEF LastOf
  <2>2. CASE ~Within(a, ring[1])
    BY <1>1, <2>2 DEF DeviceOn
  <2>3. QED
    BY <2>1, <2>2
<1>4. \A i \in 1..Len(ring') : ~LastOf(a, ring'[i], roll)
  BY <1>1 DEF DeviceOn
<1>5. QED
  BY <1>1, <1>2, <1>3, <1>4 DEF Stopped, Ended

LEMMA LinedTaken ==
    ASSUME TypeOK, Lined, Rising(ring, lastHeard), DeviceOn, DeviceTakes
    PROVE  Lined'
<1>1. /\ Inside(ring, heardEnd, live, roll) /\ Apart(live, roll)
      /\ Passed(ring, heardEnd, live, roll) /\ ToBeHeard(ring, heardEnd, live, roll)
      /\ \A a \in 1..Len(roll) : heardEnd[a] > 0 => a <= lastHeard
  BY DEF Lined
<1>2. /\ Len(ring) \in Nat /\ Len(ring) > 0 /\ 1 \in 1..Len(ring) /\ live' = live /\ roll' = roll
      /\ \A c \in ring[1] : c.adm \in 1..Len(roll) /\ c.at \in Nat
      /\ \A a \in 1..Len(roll) : heardEnd[a] \in Nat /\ roll[a] \in Passages
      /\ \A c \in ring[1] : heardEnd'[c.adm] = c.at + 1
      /\ \A a \in 1..Len(roll) : ~Within(a, ring[1]) => heardEnd'[a] = heardEnd[a]
      /\ \A i \in 1..Len(ring') : i + 1 \in 1..Len(ring) /\ ring'[i] = ring[i + 1]
      /\ \A i \in 1..Len(ring) : \A c \in ring[i] : c.adm \in 1..Len(roll)
  BY DEF DeviceOn
<1>3. \A a \in 1..Len(roll) : Within(a, ring[1]) => heardEnd'[a] > 0
  <2> SUFFICES ASSUME NEW a \in 1..Len(roll), NEW c \in ring[1], c.adm = a PROVE heardEnd'[a] > 0
    BY DEF Within
  <2>1. QED
    BY <1>2
<1>4. Inside(ring', heardEnd', live', roll')
  <2>1. ASSUME NEW a \in 1..Len(roll)
        PROVE  heardEnd'[a] <= Length[roll[a]]
    <3>1. CASE Within(a, ring[1])
      <4>1. PICK c \in ring[1] : c.adm = a
        BY <3>1 DEF Within
      <4>2. c.at < Length[roll[a]] /\ c.at \in Nat /\ Length[roll[a]] \in Nat
        BY <1>1, <1>2, <4>1, LengthOf DEF Inside
      <4>3. QED
        BY <1>2, <4>1, <4>2
    <3>2. CASE ~Within(a, ring[1])
      BY <1>1, <1>2, <3>2 DEF Inside
    <3>3. QED
      BY <3>1, <3>2
  <2>2. QED
    BY <1>1, <1>2, <2>1 DEF Inside
<1>5. Passed(ring', heardEnd', live', roll')
  BY <1>1, <1>2, StoppedTaken DEF Passed
<1>6. ToBeHeard(ring', heardEnd', live', roll')
  <2> SUFFICES ASSUME NEW a \in 1..Len(roll), NEW i \in 1..Len(ring'),
                      heardEnd'[a] = 0, Within(a, ring'[i])
               PROVE  Within(a, live)
    BY <1>2 DEF ToBeHeard
  <2>1. ~Within(a, ring[1]) /\ heardEnd[a] = 0
    BY <1>2, <1>3
  <2>2. QED
    BY <1>1, <1>2, <2>1 DEF ToBeHeard
<1>7. \A a \in 1..Len(roll') : heardEnd'[a] > 0 => a <= lastHeard'
  <2> SUFFICES ASSUME NEW a \in 1..Len(roll), heardEnd'[a] > 0 PROVE a <= lastHeard'
    BY <1>2
  <2>1. IsRing(ring, roll) /\ roll \in Seq(Passages) /\ lastHeard \in 0..Len(roll) /\ Len(roll) \in Nat
    BY RingTyped, RollFacts DEF TypeOK
  <2>2. Head(ring) = ring[1] /\ lastHeard' = Sounded(ring, lastHeard)
    <3>1. lastHeard' = IF Head(ring) = {} THEN lastHeard ELSE Latest(Head(ring)).adm
      BY DEF DeviceTakes
    <3>2. Head(ring) = ring[1]
      BY <1>2
    <3>3. QED
      BY <1>2, <3>1, <3>2 DEF Sounded
  <2>3. CASE Within(a, ring[1])
    <3>1. PICK c \in ring[1] : c.adm = a
      BY <2>3 DEF Within
    <3>2. ring[1] \subseteq [adm : 1..Len(roll), at : Nat]
      BY <1>2, <2>1, ElementOfSeq DEF IsRing, Units
    <3>3. c.adm <= Latest(ring[1]).adm
      BY <2>1, <3>1, <3>2, LatestIsLast
    <3>4. QED
      BY <1>2, <2>2, <3>1, <3>3 DEF Sounded
  <2>4. CASE ~Within(a, ring[1])
    <3>1. a <= lastHeard
      BY <1>1, <1>2, <2>4
    <3>2. lastHeard <= lastHeard' /\ lastHeard' \in 0..Len(roll)
      BY <2>1, <2>2, SoundedTops, SoundedTyped
    <3>3. QED
      BY <2>1, <3>1, <3>2
  <2>5. QED
    BY <2>3, <2>4
<1>8. Apart(live', roll')
  BY <1>1, <1>2
<1>9. QED
  BY <1>4, <1>5, <1>6, <1>7, <1>8 DEF Lined

LEMMA LinedStays ==
    ASSUME Lined, UNCHANGED <<live, roll, output>>
    PROVE  Lined'
BY DEF Lined, output

-----------------------------------------------------------------------------
(* What is heard, and what comes before it.                                 *)

\* The admission at the front of what sounds.
Sounds(a) == Covering # {} /\ Latest(Covering).adm = a

\* It is as far as the device came.
LEMMA HeardReached ==
    ASSUME TypeOK, Lying, FromTheStart(ring, heardEnd, live, roll)
    PROVE  /\ \A c \in Covering : heardEnd[c.adm] = c.at
           /\ HeardNow.adm # 0 => /\ HeardNow.adm = Audible.adm /\ HeardNow.adm \in 1..Len(roll)
                                  /\ HeardNow.at = heardEnd[HeardNow.adm]
                                  /\ Sounds(HeardNow.adm) \/ (/\ Covering = {}
                                                              /\ HeardNow.adm = lastHeard)
<1>1. \A c \in Covering : heardEnd[c.adm] = c.at
  <2> TAKE c \in Covering
  <2>1. ring # <<>>
    BY FrontOfRing
  <2>2. Covering = ring[1] /\ Len(ring) \in Nat /\ Len(ring) > 0 /\ c.adm \in 1..Len(roll)
    BY <2>1, FrontOfRing, CoveringTyped
  <2>3. QED
    BY <2>2, FrontReached DEF Lying
<1>2. HeardNow.adm \in 0..Len(roll) /\ Len(roll) \in Nat
  BY AudibleTyped, RollFacts
<1>3. ASSUME HeardNow.adm # 0
      PROVE  /\ HeardNow.adm = Audible.adm /\ HeardNow.at = heardEnd[HeardNow.adm]
             /\ Sounds(HeardNow.adm) \/ (Covering = {} /\ HeardNow.adm = lastHeard)
  <2>1. HeardNow = Audible
    BY <1>3 DEF HeardNow
  <2>2. CASE Covering # {}
    <3>1. Audible.adm = Latest(Covering).adm /\ Audible.at = Latest(Covering).at
      BY <2>2 DEF Audible
    <3>2. Latest(Covering) \in Covering
      BY <2>2, LatestOfCovering
    <3>3. QED
      BY <1>1, <2>1, <2>2, <3>1, <3>2 DEF Sounds
  <2>3. CASE Covering = {}
    BY <1>3, <2>1, <2>3 DEF Audible
  <2>4. QED
    BY <2>2, <2>3
<1>4. QED
  BY <1>1, <1>2, <1>3

\* Nothing later has been heard of.
LEMMA HeardAhead ==
    ASSUME TypeOK, Lined, Rising(ring, lastHeard), NEW a \in 1..Len(roll), HeardOf(a)
    PROVE  a <= Audible.adm
<1>1. /\ IsRing(ring, roll) /\ roll \in Seq(Passages) /\ lastHeard \in 0..Len(roll)
      /\ Len(roll) \in Nat /\ Audible.adm \in 0..Len(roll) /\ heardEnd[a] \in Nat
  BY RingTyped, RollFacts, AudibleTyped, HeardEndOf DEF TypeOK
<1>2. CASE heardEnd[a] > 0
  <2>1. a <= lastHeard
    BY <1>2 DEF Lined
  <2>2. lastHeard <= Audible.adm
    BY <1>1, SoundedIs, SoundedTops
  <2>3. QED
    BY <1>1, <2>1, <2>2
<1>3. CASE Within(a, Covering)
  <2>1. PICK c \in Covering : c.adm = a
    BY <1>3 DEF Within
  <2>2. Audible.adm = Latest(Covering).adm
    BY <2>1 DEF Audible
  <2>3. c.adm <= Latest(Covering).adm
    BY <1>1, <2>1, CoveringTyped, LatestIsLast
  <2>4. QED
    BY <2>1, <2>2, <2>3
<1>4. QED
  BY <1>2, <1>3 DEF HeardOf

\* What lies at the front before another has been heard already.
LEMMA HeardBefore ==
    ASSUME TypeOK, Lying, Lined, FromTheStart(ring, heardEnd, live, roll),
           NEW a \in 1..Len(roll), Within(a, Covering), heardEnd[a] = 0
    PROVE  Sounds(a)
<1>1. PICK c \in Covering : c.adm = a
  BY DEF Within
<1>2. Latest(Covering) \in Covering /\ c.adm <= Latest(Covering).adm
  BY <1>1, RollFacts, CoveringTyped, LatestIsLast
<1>3. ASSUME c.adm # Latest(Covering).adm
      PROVE  FALSE
  <2>1. c.adm < Latest(Covering).adm
    BY <1>1, <1>2, <1>3, CoveringTyped
  <2>2. Covering = ring[1] /\ Len(ring) \in Nat /\ Len(ring) > 0
    BY <1>1, FrontOfRing
  <2>3. 1 \in 1..Len(ring)
    BY <2>2
  <2>4. c.at >= 1
    BY <1>1, <1>2, <2>1, <2>2, <2>3 DEF Lined, Passed
  <2>5. c.at = 0
    BY <1>1, HeardReached
  <2>6. QED
    BY <2>4, <2>5
<1>4. QED
  BY <1>1, <1>3 DEF Sounds

\* What has been heard of and is over was stopped, or was half heard and more.
LEMMA BehindHeard ==
    ASSUME Roomy, TypeOK, Lying, Lined, FromTheStart(ring, heardEnd, live, roll),
           Topmost(live, roll), NEW a \in 1..Len(roll), HeardOf(a), a < Audible.adm
    PROVE  Stopped(a, ring, heardEnd, live, roll) \/ heardEnd[a] >= Half(roll[a]) + 2
<1>1. /\ Len(roll) \in Nat /\ Len(ring) \in Nat /\ heardEnd[a] \in Nat
      /\ roll[a] \in Passages /\ Audible.adm \in 0..Len(roll) /\ IsMixer(live, roll)
  BY RollFacts, RingTyped, UnitFacts, HeardEndOf, AudibleTyped
<1>2. /\ Half(roll[a]) \in Nat /\ Length[roll[a]] \in Nat /\ Half(roll[a]) + 2 <= Length[roll[a]]
  BY <1>1, RoomFor
<1>3. CASE Within(a, Covering)
  <2>1. PICK c \in Covering : c.adm = a
    BY <1>3 DEF Within
  <2>2. Covering = ring[1] /\ Len(ring) > 0
    BY <2>1, FrontOfRing
  <2> DEFINE d == Latest(Covering)
  <2>3. d \in Covering /\ c.adm < d.adm /\ 1 \in 1..Len(ring)
    BY <1>1, <2>1, <2>2, LatestOfCovering DEF Audible
  <2>4. d.at \in Nat /\ heardEnd[a] = c.at
    BY <2>1, <2>3, CoveringTyped, HeardReached
  <2> HIDE DEF d
  <2>5. Far(c, d, roll) \/ Stopped(a, ring, heardEnd, live, roll)
    BY <2>1, <2>2, <2>3 DEF Lined, Passed
  <2>6. QED
    BY <1>1, <1>2, <2>1, <2>4, <2>5 DEF Far
<1>4. CASE ~Within(a, Covering)
  <2>1. heardEnd[a] > 0
    BY <1>4 DEF HeardOf
  <2>2. \A i \in 1..Len(ring) : ~Within(a, ring[i])
    <3> SUFFICES ASSUME NEW i \in 1..Len(ring), NEW e \in ring[i], e.adm = a PROVE FALSE
      BY DEF Within
    <3>1. Len(ring) > 0 /\ Within(a, ring[1])
      BY <1>1, <2>1, InFront DEF Lying
    <3>2. ring # <<>>
      BY <3>1
    <3>3. QED
      BY <1>4, <3>1, <3>2, FrontOfRing
  <2>3. CASE Within(a, live)
    <3>1. PICK c \in live : c.adm = a
      BY <2>3 DEF Within
    <3>2. c.at < Length[roll[a]] /\ c.at \in Nat
      BY <1>1, <3>1 DEF Lined, Inside, IsMixer
    <3>3. GoesOnFrom(c, ring, heardEnd, roll)
      BY <3>1 DEF Lying, Mixing
    <3>4. Len(ring) = 0 /\ heardEnd[a] = c.at
      <4>1. Len(ring) > 0 => Len(ring) \in 1..Len(ring)
        BY <1>1
      <4>2. ~(Len(ring) > 0 /\ \E d \in ring[Len(ring)] : d.adm = c.adm)
        BY <2>2, <3>1, <4>1 DEF Within
      <4>3. QED
        BY <2>1, <3>1, <3>2, <3>3, <4>2 DEF GoesOnFrom
    <3>5. Audible.adm \in a..Len(roll)
      BY <1>1
    <3>6. PICK d \in live : d.adm = Audible.adm
      BY <3>1, <3>5 DEF Topmost, Within
    <3>7. Far(c, d, roll)
      BY <3>1, <3>6 DEF Lined, Apart
    <3>8. d.at \in Nat
      BY <1>1, <3>6 DEF IsMixer
    <3>9. QED
      BY <1>2, <3>1, <3>2, <3>4, <3>7, <3>8 DEF Far
  <2>4. CASE ~Within(a, live)
    <3>1. \A i \in 1..Len(ring) : ~LastOf(a, ring[i], roll)
      BY <2>2 DEF LastOf, Within
    <3>2. heardEnd[a] = Length[roll[a]] => heardEnd[a] >= Half(roll[a]) + 2
      BY <1>2
    <3>3. QED
      BY <2>4, <3>1, <3>2 DEF Stopped, Ended
  <2>5. QED
    BY <2>3, <2>4
<1>5. QED
  BY <1>3, <1>4

-----------------------------------------------------------------------------
(* The judgement, and what is still to come to it.                          *)

\* The passage of the admission has its verdict, or is being judged.
Met(a) == reports[roll[a]] # <<>> \/ head = roll[a]

\* The look that comes next will find it heard.
AboutToBe(a) == pc = "look" /\ playing /\ Within(a, live)

\* Nothing of it is to come, or it was heard and a later one is.
Gone(a) == Over(a) \/ (HeardOf(a) /\ a < Audible.adm)

\* The head was heard, and is credited with all but what moved since the look,
\* and with the unit it may have been at when it was first looked at.
Current ==
    head # Nobody =>
        /\ headAdm \in 1..Len(roll) /\ roll[headAdm] = head /\ HeardOf(headAdm)
        /\ heardFrom \in Nat /\ heardFrom <= heardEnd[headAdm]
        /\ heardEnd[headAdm] <= heardFrom + unlooked /\ heardFrom <= heard + 1
        /\ recorded \/ heard < Half(head)

\* Every admission is met, or is being mixed, or sounds; one that sounds is met
\* by the next look, and so is what was heard.
Noticed ==
    /\ unlooked \in {0, 1}
    /\ \A a \in 1..Len(roll) :
          /\ Met(a) \/ Within(a, live) \/ Sounds(a)
          /\ Sounds(a) /\ ~Met(a) => unlooked = 1 \/ (AboutToBe(a) /\ Len(ring) = 1)
          /\ heardEnd[a] > 0 =>
                \/ Met(a)
                \/ AboutToBe(a) /\ ring = <<>> /\ lastHeard = a /\ heardEnd[a] = 1

OnceJudged == \A p \in Passages : Len(reports[p]) <= 1

JudgedWaitNoMore == \A p \in Passages : reports[p] # <<>> => p \in offered \ Items(queue)

DeclinedWereStopped ==
    \A p \in Passages : Told1(p, "skipped") =>
        \E a \in 1..Len(roll) : roll[a] = p /\ Stopped(a, ring, heardEnd, live, roll)

JudgedAreGone ==
    \A a \in 1..Len(roll) : reports[roll[a]] # <<>> =>
        /\ Within(a, live) => Told1(roll[a], "played")
        /\ IF head = roll[a] THEN recorded ELSE Gone(a)

RecordedIsTold == head # Nobody /\ recorded => reports[head] # <<>>

\* What was offered waits, or was admitted, or has its verdict.
NoneLost ==
    \A p \in offered : \/ p \in Items(queue) \/ reports[p] # <<>>
                       \/ \E a \in 1..Len(roll) : roll[a] = p

Settled == OnceJudged /\ JudgedWaitNoMore /\ DeclinedWereStopped /\ JudgedAreGone
           /\ RecordedIsTold /\ NoneLost

\* The step says nothing of p, or gives it its one verdict v.
SaidNow(p, v) == \E i \in 1..Len(reports'[p]) : reports'[p][i].verdict = v

NothingSaid(p) == reports'[p] = reports[p] /\ \A v : SaidNow(p, v) <=> Told1(p, v)

Answered(p, v) ==
    /\ reports[p] = <<>> /\ reports'[p] # <<>> /\ Len(reports'[p]) = 1
    /\ \A w : SaidNow(p, w) <=> w = v

LEMMA SaidNothing ==
    ASSUME NEW p, reports'[p] = reports[p]
    PROVE  NothingSaid(p)
BY DEF NothingSaid, SaidNow, Told1

LEMMA SaidFirst ==
    ASSUME NEW p, NEW e \in Reported, reports[p] = <<>>, reports'[p] = Append(reports[p], e)
    PROVE  Answered(p, e.verdict)
<1>1. <<>> \in Seq(Reported)
  OBVIOUS
<1>2. /\ Len(reports'[p]) = 1 /\ reports'[p][1] = e
  BY <1>1, AppendProperties
<1>3. reports'[p] # <<>> /\ 1..Len(reports'[p]) = {1}
  BY <1>2
<1>4. \A w : SaidNow(p, w) <=> w = e.verdict
  BY <1>2, <1>3 DEF SaidNow
<1>5. QED
  BY <1>2, <1>3, <1>4 DEF Answered

LEMMA DropsSay ==
    ASSUME TypeOK, NEW ps, ps \subseteq Passages, \A p \in ps : reports[p] = <<>>,
           reports' = AllDropped(ps)
    PROVE  \A p \in Passages : IF p \in ps THEN Answered(p, "dropped") ELSE NothingSaid(p)
<1> TAKE p \in Passages
<1> DEFINE e == [verdict |-> "dropped", heard |-> 0]
<1>1. e \in Reported /\ e.verdict = "dropped"
  BY DEF Reported, Verdicts
<1>2. reports'[p] = IF p \in ps THEN Append(reports[p], e) ELSE reports[p]
  BY DEF AllDropped
<1> HIDE DEF e
<1>3. CASE p \in ps
  BY <1>1, <1>2, <1>3, SaidFirst
<1>4. CASE p \notin ps
  BY <1>2, <1>4, SaidNothing
<1>5. QED
  BY <1>3, <1>4

\* Steps that leave what sounds, what is mixed and what is judged alone.
LEMMA CurrentStays ==
    ASSUME Current, UNCHANGED <<roll, output, judgement, unlooked>>
    PROVE  Current'
<1>1. Covering' = Covering
  BY DEF Covering, output
<1>2. QED
  BY <1>1 DEF Current, HeardOf, output, judgement

LEMMA NoticedStays ==
    ASSUME TypeOK, Noticed, UNCHANGED <<roll, live, output, head, unlooked>>,
           \A p \in Passages : reports[p] # <<>> => reports'[p] # <<>>,
           ~(pc = "look" /\ playing)
    PROVE  Noticed'
<1>1. Covering' = Covering
  BY DEF Covering, output
<1>2. \A a \in 1..Len(roll) : /\ roll[a] \in Passages /\ ~AboutToBe(a)
                              /\ Met(a) => Met(a)'
                              /\ Sounds(a)' <=> Sounds(a)
  BY <1>1, RollFacts DEF Met, Sounds, AboutToBe
<1>3. unlooked' = unlooked /\ live' = live /\ roll' = roll /\ heardEnd' = heardEnd
  BY DEF output
<1>4. QED
  BY <1>2, <1>3 DEF Noticed

LEMMA GoneStays ==
    ASSUME UNCHANGED <<roll, live, output>>, NEW a
    PROVE  Gone(a)' <=> Gone(a)
<1>1. Covering' = Covering
  BY DEF Covering, output
<1>2. Audible' = Audible
  BY <1>1 DEF Audible, output
<1>3. QED
  BY <1>1, <1>2 DEF Gone, Over, HeardOf, output

LEMMA SettledStays ==
    ASSUME TypeOK, Settled, Shutdown \notin Items(queue),
           UNCHANGED <<roll, live, output, head, recorded, reports>>,
           \/ Items(queue') = Items(queue) /\ offered' = offered
           \/ \E p \in Passages \ offered : /\ Items(queue') = Items(queue) \cup {p}
                                            /\ offered' = offered \cup {p}
    PROVE  Settled'
<1>1. ring' = ring /\ heardEnd' = heardEnd
  BY DEF output
<1>2. OnceJudged' /\ RecordedIsTold'
  BY DEF Settled, OnceJudged, RecordedIsTold
<1>3. JudgedWaitNoMore'
  BY DEF Settled, JudgedWaitNoMore
<1>4. DeclinedWereStopped'
  BY <1>1 DEF Settled, DeclinedWereStopped, Told1
<1>5. JudgedAreGone'
  BY GoneStays DEF Settled, JudgedAreGone, Told1
<1>6. NoneLost'
  BY DEF Settled, NoneLost
<1>7. QED
  BY <1>2, <1>3, <1>4, <1>5, <1>6 DEF Settled

-----------------------------------------------------------------------------
(* A pass leaves the judgement as it is.                                    *)

\* What is at the front when a unit has been mixed.
LEMMA FrontMixed ==
    ASSUME TypeOK, TypeOK', NEW m, MixesOn(m), Rising(ring', lastHeard')
    PROVE  /\ Len(ring) > 0 => Covering' = Covering
           /\ ~(Len(ring) > 0) =>
                 \/ Covering = {} /\ Covering' = {} /\ ring' = ring /\ live' = m
                 \/ Covering = {} /\ Covering' = m /\ Len(ring') = 1 /\ playing
           /\ (Audible.adm)' \in 0..Len(roll') /\ Audible.adm <= (Audible.adm)'
           /\ \A a \in 1..Len(roll) : /\ HeardOf(a) => HeardOf(a)'
                                      /\ Over(a) => Over(a)'
                                      /\ Gone(a) => Gone(a)'
<1>1. /\ Len(roll) \in Nat /\ Len(ring) \in Nat /\ Len(ring') \in Nat
      /\ IsRing(ring', roll') /\ lastHeard' = lastHeard /\ lastHeard \in 0..Len(roll)
      /\ lastHeard' \in 0..Len(roll') /\ roll' \in Seq(Passages)
      /\ Audible.adm \in 0..Len(roll)
  BY RollFacts, RingTyped, UnitFacts, AudibleTyped
     DEF MixesOn, RollsOn, TypeOK, IsRing, Units, Contributions
<1>2. /\ \A a \in 1..Len(roll) : heardEnd'[a] = heardEnd[a]
      /\ \/ ring' = ring /\ live' = m
         \/ /\ playing /\ Len(ring') = Len(ring) + 1 /\ ring'[Len(ring) + 1] = m
            /\ \A i \in 1..Len(ring) : ring'[i] = ring[i]
  BY DEF MixesOn, RollsOn
<1>3. ASSUME Len(ring) > 0
      PROVE  Covering' = Covering
  <2>1. ring # <<>>
    BY <1>3
  <2>2. Len(ring') > 0 /\ ring'[1] = ring[1]
    BY <1>1, <1>2, <1>3
  <2>3. Covering' = ring'[1] /\ Covering = ring[1]
    BY <1>1, <2>1, <2>2, FrontOfNext, FrontOfRing
  <2>4. QED
    BY <2>2, <2>3
<1>4. ASSUME ~(Len(ring) > 0)
      PROVE  \/ Covering = {} /\ Covering' = {} /\ ring' = ring /\ live' = m
             \/ Covering = {} /\ Covering' = m /\ Len(ring') = 1 /\ playing
  <2>1. ring = <<>>
    BY <1>4, FrontOfRing
  <2>2. Covering = {} /\ Len(ring) = 0
    BY <2>1, FrontOfRing
  <2>3. CASE ring' = ring /\ live' = m
    <3>1. Covering' = {}
      BY <2>1, <2>3 DEF Covering
    <3>2. QED
      BY <2>2, <2>3, <3>1
  <2>4. CASE playing /\ Len(ring') = Len(ring) + 1 /\ ring'[Len(ring) + 1] = m
    <3>1. Len(ring') = 1 /\ ring'[1] = m /\ Len(ring') > 0
      BY <2>2, <2>4
    <3>2. Covering' = ring'[1]
      BY <1>1, <3>1, FrontOfNext
    <3>3. QED
      BY <2>2, <2>4, <3>1, <3>2
  <2>5. QED
    BY <1>2, <2>3, <2>4
<1>5. (Audible.adm)' \in 0..Len(roll') /\ Audible.adm <= (Audible.adm)'
  <2>1. (Audible.adm)' = Sounded(ring', lastHeard')
    BY SoundedNext
  <2>2. Sounded(ring', lastHeard') \in 0..Len(roll')
    BY <1>1, SoundedTyped
  <2>3. CASE Covering' = Covering /\ Covering # {}
    <3>1. (Audible.adm)' = Audible.adm
      BY <2>3 DEF Audible
    <3>2. QED
      BY <1>1, <2>1, <2>2, <3>1
  <2>4. CASE Covering = {}
    <3>1. Audible.adm = lastHeard
      BY <2>4 DEF Audible
    <3>2. lastHeard' <= Sounded(ring', lastHeard')
      BY <1>1, SoundedTops
    <3>3. QED
      BY <1>1, <2>1, <2>2, <3>1, <3>2
  <2>5. QED
    BY <1>3, <1>4, <2>3, <2>4
<1>6. ASSUME NEW a \in 1..Len(roll)
      PROVE  /\ HeardOf(a) => HeardOf(a)'
             /\ Over(a) => Over(a)'
             /\ Gone(a) => Gone(a)'
  <2>1. HeardOf(a) => HeardOf(a)'
    <3>1. Covering = Covering' \/ Covering = {}
      BY <1>3, <1>4
    <3>2. QED
      BY <1>2, <3>1 DEF HeardOf, Within
  <2>2. Over(a) => Over(a)'
    <3> SUFFICES ASSUME Over(a) PROVE Over(a)'
      OBVIOUS
    <3>1. ~Within(a, live) /\ \A i \in 1..Len(ring) : ~Within(a, ring[i])
      BY DEF Over, Within
    <3>2. ~Within(a, m) /\ ~Within(a, live')
      BY <3>1, MixedOver
    <3>3. \A i \in 1..Len(ring') : ~Within(a, ring'[i])
      BY <3>1, <3>2, MixedOver
    <3>4. QED
      BY <3>2, <3>3 DEF Over, Within
  <2>3. ASSUME HeardOf(a), a < Audible.adm
        PROVE  a < (Audible.adm)'
    BY <1>1, <1>5, <2>3
  <2>4. QED
    BY <2>1, <2>2, <2>3 DEF Gone
<1>7. QED
  BY <1>3, <1>4, <1>5, <1>6

\* What has just been mixed and never heard is mixed on, or sounds.
LEMMA UnheardMixed ==
    ASSUME TypeOK, TypeOK', NEW m, MixesOn(m), Lying', Lined', FromTheStart(ring, heardEnd, live, roll)',
           NEW a \in 1..Len(roll'), Within(a, m), heardEnd'[a] = 0
    PROVE  Within(a, live') \/ Sounds(a)'
<1> SUFFICES ASSUME ~Within(a, live') PROVE Sounds(a)'
  OBVIOUS
<1>1. /\ Len(ring) \in Nat /\ Len(ring') = Len(ring) + 1 /\ ring'[Len(ring) + 1] = m
  BY MixedOver DEF MixesOn
<1>2. Len(ring) + 1 \in 1..Len(ring') /\ 1 \in 1..Len(ring') /\ Len(ring') > 0 /\ Len(ring') \in Nat
  BY <1>1
<1>3. Within(a, ring'[1])
  <2> DEFINE n == Len(ring) + 1
  <2>1. n \in 1..Len(ring') /\ Within(a, ring'[n])
    BY <1>1, <1>2
  <2> HIDE DEF n
  <2>2. QED
    BY <2>1 DEF Lined, ToBeHeard
<1>4. PICK c \in ring'[1] : c.adm = a
  BY <1>3 DEF Within
<1>5. IsRing(ring', roll') /\ Len(roll') \in Nat
  BY LenProperties DEF TypeOK, IsRing, Units, Contributions
<1>6. /\ Covering' = ring'[1] /\ ring'[1] \subseteq [adm : 1..Len(roll'), at : Nat]
  BY <1>2, <1>5, FrontOfNext, ElementOfSeq DEF IsRing, Units
<1> DEFINE d == Latest(ring'[1])
<1>7. d \in ring'[1] /\ c.adm <= d.adm
  BY <1>4, <1>5, <1>6, LatestIsLast
<1>8. heardEnd'[c.adm] = c.at
  BY <1>2, <1>4, FrontReached DEF Lying
<1> HIDE DEF d
<1>9. ~(c.adm < d.adm)
  <2> SUFFICES ASSUME c.adm < d.adm PROVE FALSE
    OBVIOUS
  <2>1. c.at >= 1
    BY <1>2, <1>4, <1>7 DEF Lined, Passed
  <2>2. QED
    BY <1>4, <1>8, <2>1
<1>10. d.adm = a
  BY <1>4, <1>6, <1>7, <1>9
<1>11. QED
  BY <1>4, <1>6, <1>10 DEF Sounds, d

LEMMA CurrentOn ==
    ASSUME TypeOK, Current, RollsOn, \A a \in 1..Len(roll) : HeardOf(a) => HeardOf(a)',
           UNCHANGED <<judgement, unlooked>>
    PROVE  Current'
<1>1. UNCHANGED <<head, headAdm, heard, heardFrom, recorded>>
  BY DEF judgement
<1> SUFFICES ASSUME head # Nobody
             PROVE  /\ headAdm \in 1..Len(roll') /\ roll'[headAdm] = head /\ HeardOf(headAdm)'
                    /\ heardFrom \in Nat /\ heardFrom <= heardEnd'[headAdm]
                    /\ heardEnd'[headAdm] <= heardFrom + unlooked /\ heardFrom <= heard + 1
                    /\ recorded \/ heard < Half(head)
  BY <1>1 DEF Current
<1>2. headAdm \in 1..Len(roll)
  BY DEF Current
<1>3. /\ headAdm \in 1..Len(roll') /\ roll'[headAdm] = roll[headAdm]
      /\ heardEnd'[headAdm] = heardEnd[headAdm]
  BY <1>2 DEF RollsOn
<1>4. HeardOf(headAdm)'
  <2>1. HeardOf(headAdm)
    BY DEF Current
  <2> DEFINE h == headAdm
  <2>2. HeardOf(h) /\ h \in 1..Len(roll)
    BY <1>2, <2>1
  <2>3. headAdm' = headAdm
    BY <1>1
  <2>4. \A a \in 1..Len(roll) : HeardOf(a) => heardEnd'[a] > 0 \/ Within(a, Covering')
    BY DEF HeardOf
  <2>5. QED
    BY <2>2, <2>3, <2>4 DEF HeardOf
<1>5. QED
  BY <1>3, <1>4 DEF Current

LEMMA NoticedMixed ==
    ASSUME Roomy, TypeOK, TypeOK', NEW m, MixesOn(m), Lying', Lined',
           FromTheStart(ring, heardEnd, live, roll)', Rising(ring', lastHeard'), Noticed,
           pc = "commands", pc' = "look", UNCHANGED <<playing, head, unlooked>>,
           \A a \in 1..Len(roll) : reports[roll[a]] # <<>> => reports'[roll[a]] # <<>>
    PROVE  Noticed'
<1>1. /\ \A a \in 1..Len(roll) : heardEnd'[a] = heardEnd[a] /\ roll'[a] = roll[a]
      /\ \A a \in 1..Len(roll') : a \in 1..Len(roll) \/ (a = Len(roll) + 1 /\ heardEnd'[a] = 0)
      /\ lastHeard' = lastHeard /\ live \subseteq m
      /\ \A a \in 1..Len(roll') : a \in 1..Len(roll) \/ Within(a, m)
  BY DEF MixesOn, RollsOn
<1>2. \A a \in 1..Len(roll) : Met(a) => Met(a)'
  BY <1>1 DEF Met
<1>3. \A a \in 1..Len(roll) : heardEnd[a] > 0 => Met(a)
  BY DEF Noticed, AboutToBe
<1>4. \A a \in 1..Len(roll) : Sounds(a) /\ ~Met(a) => unlooked = 1
  BY DEF Noticed, AboutToBe
<1>5. \A a \in 1..Len(roll') : heardEnd'[a] \in Nat
  BY ElementOfSeq DEF TypeOK
<1>6. \A a \in 1..Len(roll') : Within(a, m) /\ heardEnd'[a] = 0 => Within(a, live') \/ Sounds(a)'
  BY UnheardMixed
<1>7. /\ Len(ring) > 0 => Covering' = Covering
      /\ ~(Len(ring) > 0) =>
            \/ Covering = {} /\ Covering' = {}
            \/ Covering = {} /\ Covering' = m /\ Len(ring') = 1 /\ playing
  BY FrontMixed
<1>8. ASSUME NEW a \in 1..Len(roll')
      PROVE  Met(a)' \/ Within(a, live') \/ Sounds(a)'
  <2>1. CASE Within(a, m)
    <3>1. CASE heardEnd'[a] = 0
      BY <1>6, <2>1, <3>1
    <3>2. CASE heardEnd'[a] # 0
      <4>1. a \in 1..Len(roll)
        BY <1>1, <3>2
      <4>2. heardEnd[a] > 0
        BY <1>1, <1>5, <3>2, <4>1
      <4>3. QED
        BY <1>2, <1>3, <4>1, <4>2
    <3>3. QED
      BY <3>1, <3>2
  <2>2. CASE ~Within(a, m)
    <3>1. a \in 1..Len(roll) /\ ~Within(a, live)
      BY <1>1, <2>2 DEF Within
    <3>2. Met(a) \/ Sounds(a)
      BY <3>1 DEF Noticed
    <3>3. Sounds(a) => Sounds(a)'
      BY <1>7 DEF Sounds
    <3>4. QED
      BY <1>2, <3>1, <3>2, <3>3
  <2>3. QED
    BY <2>1, <2>2
<1>9. ASSUME NEW a \in 1..Len(roll'), Sounds(a)', ~Met(a)'
      PROVE  unlooked' = 1 \/ (AboutToBe(a)' /\ Len(ring') = 1)
  <2>1. CASE Covering' = Covering /\ Covering # {}
    <3>1. Sounds(a) /\ a \in 1..Len(roll)
      <4>1. Sounds(a)
        BY <1>9, <2>1 DEF Sounds
      <4>2. Latest(Covering).adm \in 1..Len(roll)
        BY <2>1, LatestOfCovering
      <4>3. QED
        BY <4>1, <4>2 DEF Sounds
    <3>2. ~Met(a)
      BY <1>2, <1>9, <3>1
    <3>3. QED
      BY <1>4, <3>1, <3>2
  <2>2. CASE Covering' = m /\ Len(ring') = 1 /\ playing
    <3>1. heardEnd'[a] = 0
      <4>1. a \in 1..Len(roll) => ~(heardEnd[a] > 0)
        BY <1>2, <1>3, <1>9
      <4>2. QED
        BY <1>1, <1>5, <4>1
    <3>2. Len(ring') \in Nat /\ Len(ring') > 0 /\ 1 \in 1..Len(ring') /\ ring'[1] = m
      <4>1. IsRing(ring', roll')
        BY DEF TypeOK, IsRing, Units, Contributions
      <4>2. QED
        BY <2>2, <4>1, FrontOfNext
    <3>3. PICK c \in m : c.adm = a
      <4>1. m # {} /\ Latest(m).adm = a
        BY <1>9, <2>2 DEF Sounds
      <4>2. Len(roll') \in Nat /\ m \subseteq [adm : 1..Len(roll'), at : Nat]
        BY LenProperties DEF TypeOK, MixesOn, IsMixer
      <4>3. Latest(m) \in m
        BY <4>1, <4>2, LatestIsLast
      <4>4. QED
        BY <4>1, <4>3
    <3>4. c.at = 0
      <4>1. heardEnd'[c.adm] = c.at
        BY <3>2, <3>3, FrontReached DEF Lying
      <4>2. QED
        BY <3>1, <3>3, <4>1
    <3>5. c.at + 1 < Length[roll'[c.adm]]
      <4>1. roll'[c.adm] \in Passages
        BY <3>3, MixedOver
      <4>2. Length[roll'[c.adm]] \in Nat /\ Half(roll'[c.adm]) \in Nat
            /\ Half(roll'[c.adm]) + 2 <= Length[roll'[c.adm]]
        BY <4>1, RoomFor
      <4>3. QED
        BY <3>4, <4>2
    <3>6. Within(c.adm, live')
      <4>1. CASE live' = m
        BY <3>3, <4>1 DEF Within
      <4>2. CASE \A d \in m : d.at + 1 < Length[roll'[d.adm]] => Within(d.adm, live')
        BY <3>3, <3>5, <4>2
      <4>3. QED
        BY <4>1, <4>2 DEF MixesOn
    <3>7. QED
      BY <2>2, <3>3, <3>6 DEF AboutToBe
  <2>3. QED
    BY <1>7, <1>9, <2>1, <2>2 DEF Sounds
<1>10. ASSUME NEW a \in 1..Len(roll'), heardEnd'[a] > 0
       PROVE  Met(a)'
  <2>1. a \in 1..Len(roll) /\ heardEnd[a] > 0
    BY <1>1, <1>10
  <2>2. QED
    BY <1>2, <1>3, <2>1
<1>11. unlooked' \in {0, 1}
  BY DEF Noticed
<1>12. QED
  BY <1>8, <1>9, <1>10, <1>11 DEF Noticed

\* A step that admits from q, and drops drop, leaves what is lost to none.
LEMMA AllTaken ==
    ASSUME TypeOK, Settled, RollsOn, NEW q, NEW drop, Takes(q, drop),
           Items(queue) \subseteq Items(q), offered' \subseteq offered \cup Items(q),
           \A p \in Passages : reports[p] # <<>> \/ p \in drop => reports'[p] # <<>>,
           offered' \subseteq Passages
    PROVE  NoneLost'
<1>1. /\ \A a \in 1..Len(roll) : a \in 1..Len(roll') /\ roll'[a] = roll[a]
      /\ \A p \in offered : \/ p \in Items(queue) \/ reports[p] # <<>>
                            \/ \E a \in 1..Len(roll) : roll[a] = p
  BY DEF RollsOn, Settled, NoneLost
<1>2. \A p \in Items(q) \cap Passages :
         p \in Items(queue') \/ p \in drop \/ \E a \in 1..Len(roll') : roll'[a] = p
  <2>1. CASE Items(queue') = Items(q) \ drop
    BY <2>1
  <2>2. ASSUME NEW x \in Items(q) \cap Passages, roll' = Append(roll, x),
               Items(queue') = Items(q) \ (drop \cup {x})
        PROVE  \A p \in Items(q) \cap Passages :
                  p \in Items(queue') \/ p \in drop \/ \E a \in 1..Len(roll') : roll'[a] = p
    <3>1. roll'[Len(roll) + 1] = x /\ Len(roll) + 1 \in 1..Len(roll')
      BY <2>2, RollGrows, RollFacts
    <3>2. QED
      BY <2>2, <3>1
  <2>3. QED
    BY <2>1, <2>2 DEF Takes
<1>3. QED
  BY <1>1, <1>2 DEF NoneLost

LEMMA SettledMixed ==
    ASSUME TypeOK, TypeOK', OnceEach, Whole, Settled, NEW m, MixesOn(m), Rising(ring', lastHeard'),
           NEW drop, Takes(queue, drop), reports' = AllDropped(drop),
           UNCHANGED <<head, recorded, offered>>
    PROVE  Settled'
<1>1. /\ \A a \in 1..Len(roll) : a \in 1..Len(roll') /\ roll'[a] = roll[a] /\ roll[a] \in Passages
      /\ \A a \in 1..Len(roll') : a \in 1..Len(roll) \/ a = Len(roll) + 1
      /\ RollsOn
  BY RollFacts DEF MixesOn, RollsOn
<1>2. drop \subseteq Items(queue) /\ drop \subseteq Passages
  BY DEF Takes
<1>3. \A p \in Items(queue) \cap Passages : reports[p] = <<>> /\ p \in offered
  BY PassagesAssumption DEF Settled, JudgedWaitNoMore, OnceEach
<1>4. \A p \in Passages : IF p \in drop THEN Answered(p, "dropped") ELSE NothingSaid(p)
  BY <1>2, <1>3, DropsSay
<1>5. \A a \in 1..Len(roll) : roll[a] \notin Items(queue) /\ NothingSaid(roll[a])
  BY <1>1, <1>2, <1>4 DEF Whole, Distinct
<1>6. OnceJudged'
  <2>1. \A p \in Passages : Len(reports'[p]) = 1 \/ reports'[p] = reports[p]
    BY <1>4 DEF Answered, NothingSaid
  <2>2. \A p \in Passages : Len(reports[p]) <= 1
    BY DEF Settled, OnceJudged
  <2>3. ASSUME NEW p \in Passages PROVE Len(reports'[p]) <= 1
    <3>1. CASE Len(reports'[p]) = 1
      BY <3>1
    <3>2. CASE reports'[p] = reports[p]
      BY <2>2, <3>2
    <3>3. QED
      BY <2>1, <3>1, <3>2
  <2>4. QED
    BY <2>3 DEF OnceJudged
<1>7. JudgedWaitNoMore'
  <2> SUFFICES ASSUME NEW p \in Passages, reports'[p] # <<>> PROVE p \in offered \ Items(queue')
    BY DEF JudgedWaitNoMore
  <2>1. CASE p \in drop
    BY <1>2, <1>3, <2>1 DEF Takes
  <2>2. CASE p \notin drop
    <3>1. reports[p] # <<>>
      BY <1>4, <2>2 DEF NothingSaid
    <3>2. p \in offered \ Items(queue) /\ Items(queue') \subseteq Items(queue)
      BY <3>1 DEF Settled, JudgedWaitNoMore, Takes
    <3>3. QED
      BY <3>2
  <2>3. QED
    BY <2>1, <2>2
<1>8. DeclinedWereStopped'
  <2> SUFFICES ASSUME NEW p \in Passages, Told1(p, "skipped")'
               PROVE  \E a \in 1..Len(roll') : roll'[a] = p /\ Stopped(a, ring', heardEnd', live', roll')
    BY DEF DeclinedWereStopped
  <2>1. Told1(p, "skipped")
    <3>1. SaidNow(p, "skipped")
      BY DEF SaidNow, Told1
    <3>2. QED
      BY <1>4, <3>1 DEF Answered, NothingSaid
  <2>2. PICK a \in 1..Len(roll) : roll[a] = p /\ Stopped(a, ring, heardEnd, live, roll)
    BY <2>1 DEF Settled, DeclinedWereStopped
  <2>3. QED
    BY <1>1, <2>2, StoppedMixed
<1>9. JudgedAreGone'
  <2> SUFFICES ASSUME NEW a \in 1..Len(roll'), reports'[roll'[a]] # <<>>
               PROVE  /\ Within(a, live') => SaidNow(roll'[a], "played")
                      /\ IF head' = roll'[a] THEN recorded' ELSE Gone(a)'
    BY DEF JudgedAreGone, Told1, SaidNow
  <2>1. CASE a \in 1..Len(roll)
    <3>1. reports[roll[a]] # <<>> /\ roll'[a] = roll[a]
      BY <1>1, <1>5, <2>1 DEF NothingSaid
    <3>2. /\ Within(a, live) => Told1(roll[a], "played")
          /\ IF head = roll[a] THEN recorded ELSE Gone(a)
      BY <2>1, <3>1 DEF Settled, JudgedAreGone
    <3>3. Within(a, live') => Within(a, live)
      BY <2>1, MixedOver
    <3>4. Told1(roll[a], "played") => SaidNow(roll'[a], "played")
      BY <1>5, <2>1, <3>1 DEF NothingSaid
    <3>5. head' = head /\ recorded' = recorded
      OBVIOUS
    <3>6. Gone(a) => Gone(a)'
      BY <2>1, FrontMixed
    <3>7. QED
      BY <3>1, <3>2, <3>3, <3>4, <3>5, <3>6
  <2>2. CASE a \notin 1..Len(roll)
    <3>1. PICK p \in (Items(queue) \cap Passages) \ drop : roll' = Append(roll, p)
      BY <2>2 DEF Takes
    <3>2. roll'[a] = p
      BY <1>1, <2>2, <3>1, RollGrows
    <3>3. reports'[p] = <<>>
      BY <1>3, <1>4, <3>1 DEF NothingSaid
    <3>4. QED
      BY <3>2, <3>3
  <2>3. QED
    BY <2>1, <2>2
<1>10. RecordedIsTold'
  <2>1. head # Nobody => head \in Passages
    BY DEF TypeOK
  <2>2. QED
    BY <1>4, <2>1 DEF Settled, RecordedIsTold, NothingSaid, Answered
<1>11. NoneLost'
  <2>1. \A p \in Passages : reports[p] # <<>> \/ p \in drop => reports'[p] # <<>>
    BY <1>4 DEF NothingSaid, Answered
  <2>2. offered' \subseteq Passages
    BY DEF TypeOK
  <2>3. QED
    BY <1>1, <2>1, <2>2, AllTaken
<1>12. QED
  BY <1>6, <1>7, <1>8, <1>9, <1>10, <1>11 DEF Settled

-----------------------------------------------------------------------------
(* The passes and the commands that say nothing of what is judged.          *)

Answering == Whole /\ Lined /\ Current /\ Noticed /\ Settled

LEMMA MixAnswers ==
    ASSUME Roomy, TypeOK, TypeOK', OnceEach, Lying, Lying', Rising(ring', lastHeard'),
           Answering, Mix
    PROVE  Answering'
<1> DEFINE m == Admission(queue, live).live
<1>1. /\ Whole /\ Lined /\ Current /\ Noticed /\ Settled
      /\ MixesOn(m) /\ pendingResume' = Nowhere
  BY MixDoes DEF Answering
<1>2. PICK drop : Takes(queue, drop) /\ reports' = AllDropped(drop)
  BY <1>1, MixDoes
<1> HIDE DEF m
<1>3. /\ pc = "commands" /\ pc' = "look"
      /\ UNCHANGED <<playing, lastHeard, judgement, handover, listened, offered, unlooked>>
  BY DEF Mix
<1>4. /\ UNCHANGED <<head, recorded, handingOver, countedElsewhere, active>>
  BY <1>3 DEF judgement, handover
<1>5. /\ AtHome /\ Shutdown \notin Items(queue) /\ ~handingOver /\ countedElsewhere = Nobody
      /\ Distinct(roll, queue) /\ FromTheStart(ring, heardEnd, live, roll)
  BY <1>1 DEF Whole
<1>6. RollsOn
  BY <1>1 DEF MixesOn
<1>7. FromTheStart(ring, heardEnd, live, roll)'
  BY <1>1, <1>5, StartMixedOn
<1>8. Whole'
  <2>1. Items(queue) \subseteq offered' /\ \A a \in 1..Len(roll) : roll[a] \notin Items(queue)
    BY <1>3, <1>5 DEF OnceEach, Distinct
  <2>2. Distinct(roll, queue)' /\ Accounted(roll, heardEnd)' /\ Shutdown \notin Items(queue')
    BY <1>1, <1>2, <1>3, <1>5, <1>6, <2>1, WholeTaken
  <2>3. AtHome'
    BY <1>1, <1>3, <1>4, <1>5 DEF AtHome
  <2>4. QED
    BY <1>4, <1>5, <1>7, <2>2, <2>3 DEF Whole
<1>9. Lined'
  <2>1. Laid(ring', heardEnd') /\ IsRing(ring', roll')
    BY DEF Lying, TypeOK, IsRing, Units, Contributions
  <2>2. FromTheStart(ring', heardEnd', live', roll')
    BY <1>7
  <2>3. QED
    BY <1>1, <2>1, <2>2, LinedMixed
<1>10. \A a \in 1..Len(roll) : HeardOf(a) => HeardOf(a)'
  BY <1>1, FrontMixed
<1>11. Current'
  BY <1>1, <1>3, <1>6, <1>10, CurrentOn
<1>12. Settled'
  BY <1>1, <1>2, <1>3, <1>4, SettledMixed
<1>13. Noticed'
  <2>1. \A p \in Passages : reports[p] # <<>> => reports'[p] # <<>>
    <3>1. drop \subseteq Passages /\ \A p \in drop : reports[p] = <<>>
      BY <1>1, <1>2, <1>5, PassagesAssumption DEF Settled, JudgedWaitNoMore, Takes
    <3>2. QED
      BY <1>2, <3>1, DropsSay DEF NothingSaid, Answered
  <2>2. \A a \in 1..Len(roll) : roll[a] \in Passages
    BY RollFacts
  <2>3. \A a \in 1..Len(roll) : reports[roll[a]] # <<>> => reports'[roll[a]] # <<>>
    BY <2>1, <2>2
  <2>4. UNCHANGED <<playing, head, unlooked>>
    BY <1>3, <1>4
  <2>5. QED
    BY <1>1, <1>3, <1>7, <1>9, <2>3, <2>4, NoticedMixed
<1>14. QED
  BY <1>8, <1>9, <1>11, <1>12, <1>13 DEF Answering

\* An edit of what waits that reports nothing.
LEMMA EditAnswers ==
    ASSUME TypeOK, Answering,
           UNCHANGED <<live, roll, pendingResume, output, active, listened, handover, judgement,
                       unlooked, reports>>,
           pc' # "down", ~(pc = "look" /\ playing),
           \/ Items(queue') = Items(queue) /\ offered' = offered
           \/ \E p \in Passages \ offered : /\ Items(queue') = Items(queue) \cup {p}
                                            /\ offered' = offered \cup {p}
    PROVE  Answering'
<1>1. /\ Whole /\ Lined /\ Current /\ Noticed /\ Settled /\ Shutdown \notin Items(queue)
  BY DEF Answering, Whole
<1>2. /\ UNCHANGED <<head, recorded, handingOver, countedElsewhere, ring, heardEnd>>
  BY DEF judgement, handover, output
<1>3. Whole'
  <2>1. /\ AtHome /\ ~handingOver /\ countedElsewhere = Nobody /\ Distinct(roll, queue)
        /\ Accounted(roll, heardEnd) /\ FromTheStart(ring, heardEnd, live, roll)
    BY <1>1 DEF Whole
  <2>2. Distinct(roll, queue)'
    BY <1>1, <2>1 DEF Distinct
  <2>3. Shutdown \notin Items(queue')
    BY <1>1, PassagesAssumption
  <2>4. AtHome' /\ Accounted(roll, heardEnd)'
    BY <1>2, <2>1 DEF AtHome, Accounted
  <2>5. FromTheStart(ring, heardEnd, live, roll)'
    BY <1>2, <2>1
  <2>6. QED
    BY <1>2, <2>1, <2>2, <2>3, <2>4, <2>5 DEF Whole
<1>4. Lined'
  BY <1>1, LinedStays
<1>5. Current'
  BY <1>1, CurrentStays
<1>6. Noticed'
  BY <1>1, <1>2, NoticedStays
<1>7. Settled'
  BY <1>1, <1>2, SettledStays
<1>8. QED
  BY <1>3, <1>4, <1>5, <1>6, <1>7 DEF Answering

LEMMA EditsAnswer ==
    ASSUME TypeOK, Held, Answering,
           \/ Play \/ Pause \/ LookPaused \/ Show \/ Persist \/ Refill
           \/ \E p \in Passages : Enqueue(p) \/ EnqueueNext(p)
           \/ \E i \in 1..(Cardinality(Passages) + 1) :
                 \E delta \in {-1, 1} : ShiftQueued(i, delta)
    PROVE  Answering'
<1>0. /\ queue \in Seq(Passages \cup {Shutdown}) /\ Once(queue)
      /\ Items(queue) \subseteq offered \cup {Shutdown} /\ pc # "down" /\ OnceEach
  BY DEF TypeOK, IsQueue, Held, OnceEach, Answering, Whole, AtHome
<1>1. CASE Play \/ Pause
  <2>1. /\ UNCHANGED <<live, roll, pendingResume, output, active, listened, handover, judgement,
                       unlooked, reports, queue, offered, pc>> /\ pc = "commands"
    BY <1>1 DEF Play, Pause, Asking, mixer, handover, history
  <2>2. QED
    BY <2>1, EditAnswers
<1>2. CASE LookPaused
  <2>1. /\ UNCHANGED <<live, roll, pendingResume, output, active, listened, handover, judgement,
                       unlooked, reports, queue, offered>> /\ ~playing /\ pc' # "down"
    BY <1>2 DEF LookPaused, mixer, handover, history
  <2>2. QED
    BY <2>1, EditAnswers
<1>3. CASE Show
  <2>1. /\ UNCHANGED <<live, roll, pendingResume, output, active, listened, handover, judgement,
                       unlooked, reports, queue, offered>> /\ pc = "show" /\ pc' # "down"
    BY <1>3 DEF Show, mixer, handover, history
  <2>2. QED
    BY <2>1, EditAnswers
<1>4. CASE Persist
  <2>1. /\ UNCHANGED <<live, roll, pendingResume, output, active, listened, handover, judgement,
                       unlooked, reports, queue, offered>> /\ pc = "settle" /\ pc' # "down"
    BY <1>4 DEF Persist, mixer, handover, history
  <2>2. QED
    BY <2>1, EditAnswers
<1>5. CASE Refill
  <2>1. /\ UNCHANGED <<live, roll, pendingResume, output, active, listened, handover, judgement,
                       unlooked, reports>> /\ pc = "remember" /\ pc' # "down"
    BY <1>5 DEF Refill, mixer, handover
  <2>2. \/ Items(queue') = Items(queue) /\ offered' = offered
        \/ \E p \in Passages \ offered : /\ Items(queue') = Items(queue) \cup {p}
                                         /\ offered' = offered \cup {p}
    BY <1>5, RefillAdds
  <2>3. QED
    BY <2>1, <2>2, EditAnswers
<1>6. ASSUME NEW p \in Passages, Enqueue(p) \/ EnqueueNext(p)
      PROVE  Answering'
  <2>1. /\ queue' = Append(queue, p) \/ queue' = <<p>> \o queue
        /\ p \notin offered /\ offered' = offered \cup {p}
        /\ UNCHANGED <<live, roll, pendingResume, output, active, listened, handover, judgement,
                       unlooked, reports, pc>> /\ pc = "commands"
    BY <1>6 DEF Enqueue, EnqueueNext, Asking, mixer, handover
  <2>2. p \notin Items(queue)
    BY <1>0, <2>1, OfferedAreNoShutdown
  <2>3. Items(queue') = Items(queue) \cup {p}
    <3>1. /\ Items(Append(queue, p)) = Items(queue) \cup {p}
          /\ Items(<<p>> \o queue) = Items(queue) \cup {p}
      BY <1>0, <2>2, OnceAppended
    <3>2. QED
      BY <2>1, <3>1
  <2>4. QED
    BY <2>1, <2>3, EditAnswers
<1>7. ASSUME NEW i \in 1..(Cardinality(Passages) + 1), NEW delta \in {-1, 1},
             ShiftQueued(i, delta)
      PROVE  Answering'
  <2> DEFINE to == ShiftedTo(queue, i, delta)
  <2>1. /\ queue' = Moved(queue, i, to) /\ i \in 1..Len(queue)
        /\ UNCHANGED <<live, roll, pendingResume, output, active, listened, handover, judgement,
                       unlooked, reports, offered, pc>> /\ pc = "commands"
    BY <1>7 DEF ShiftQueued, Asking, mixer, handover, history
  <2>2. Len(queue) \in Nat
    BY <1>0, LenProperties
  <2>3. to \in 1..Len(queue)
    BY <2>1, <2>2 DEF ShiftedTo, Clamp
  <2> HIDE DEF to
  <2>4. Items(queue') = Items(queue)
    <3>1. Items(Moved(queue, i, to)) \subseteq Items(queue)
      BY <1>0, <2>1, <2>3, OnceMoved
    <3>2. Items(queue) \subseteq Items(Moved(queue, i, to))
      BY <1>0, <2>1, <2>3, MovedKeeps
    <3>3. QED
      BY <2>1, <3>1, <3>2
  <2>5. QED
    BY <2>1, <2>4, EditAnswers
<1>8. QED
  BY <1>1, <1>2, <1>3, <1>4, <1>5, <1>6, <1>7

-----------------------------------------------------------------------------
(* Taking out of the queue, and the device.                                 *)

LEMMA CutKeeps ==
    ASSUME NEW S, NEW q \in Seq(S), NEW k \in 1..Len(q)
    PROVE  Items(q) \subseteq Items(Cut(q, k)) \cup {q[k]}
<1> DEFINE c == Cut(q, k)
<1>1. /\ Len(q) \in Nat /\ Len(c) = Len(q) - 1
      /\ \A i \in 1..(Len(q) - 1) : c[i] = IF i < k THEN q[i] ELSE q[i + 1]
  BY CutFacts, LenProperties
<1> HIDE DEF c
<1>2. ASSUME NEW i \in 1..Len(q), i # k
      PROVE  \E j \in 1..Len(c) : c[j] = q[i]
  <2>1. CASE i < k
    <3>1. i \in 1..Len(c) /\ c[i] = q[i]
      BY <1>1, <2>1
    <3>2. QED
      BY <3>1
  <2>2. CASE i > k
    <3> DEFINE j == i - 1
    <3>1. j \in 1..Len(c) /\ ~(j < k) /\ j + 1 = i
      BY <1>1, <2>2
    <3> HIDE DEF j
    <3>2. c[j] = q[i]
      BY <1>1, <3>1
    <3>3. QED
      BY <3>1, <3>2
  <2>3. QED
    BY <1>1, <1>2, <2>1, <2>2
<1>3. QED
  BY <1>2 DEF Items, c

LEMMA RemoveAnswers ==
    ASSUME TypeOK, Held, Answering,
           NEW i \in 1..(Cardinality(Passages) + 1), RemoveQueued(i)
    PROVE  Answering'
<1> DEFINE x == queue[i]
           v == IF x \in Picked THEN "dropped" ELSE "dequeued"
           e == [verdict |-> v, heard |-> 0]
<1>1. /\ Whole /\ Lined /\ Current /\ Noticed /\ Settled /\ OnceEach
      /\ AtHome /\ Shutdown \notin Items(queue) /\ ~handingOver /\ countedElsewhere = Nobody
      /\ Distinct(roll, queue) /\ Accounted(roll, heardEnd)
      /\ FromTheStart(ring, heardEnd, live, roll)
  BY DEF Answering, Whole, Held
<1>2. /\ queue' = Cut(queue, i) /\ i \in 1..Len(queue) /\ pc = "commands" /\ pc' = pc
      /\ reports' = IF x = Shutdown THEN reports ELSE Told(x, v, 0)
      /\ UNCHANGED <<live, roll, pendingResume, output, active, listened, offered, judgement,
                     unlooked, head, recorded, handingOver, countedElsewhere, ring, heardEnd>>
  BY DEF RemoveQueued, Asking, mixer, handover, judgement, output
<1>3. /\ queue \in Seq(Passages \cup {Shutdown}) /\ Once(queue) /\ x \in Items(queue)
      /\ Items(queue) \subseteq offered \cup {Shutdown}
  BY <1>1, <1>2 DEF TypeOK, IsQueue, OnceEach, Items
<1>4. x \in Passages /\ x \in offered /\ x # Shutdown
  <2>1. x # Shutdown
    BY <1>1, <1>3
  <2>2. QED
    BY <1>3, <2>1 DEF TypeOK
<1>5. Items(queue') = Items(queue) \ {x}
  <2>1. Items(queue') \subseteq Items(queue) \ {x}
    BY <1>2, <1>3, OnceCut
  <2>2. Items(queue) \subseteq Items(queue') \cup {x}
    BY <1>2, <1>3, CutKeeps
  <2>3. QED
    BY <2>1, <2>2
<1>6. e \in Reported /\ e.verdict = v /\ v # "skipped"
  BY DEF Reported, Verdicts
<1>7. reports[x] = <<>>
  BY <1>1, <1>3, <1>4 DEF Settled, JudgedWaitNoMore
<1>8. \A p \in Passages : reports'[p] = IF p = x THEN Append(reports[x], e) ELSE reports[p]
  <2>1. reports' = [reports EXCEPT ![x] = Append(@, e)]
    BY <1>2, <1>4 DEF Told
  <2>2. reports \in [Passages -> Seq([verdict : Verdicts, heard : Nat])]
    BY DEF TypeOK
  <2> HIDE DEF e
  <2>3. QED
    BY <2>1, <2>2
<1> HIDE DEF e
<1>9. Answered(x, v) /\ \A p \in Passages : p = x \/ NothingSaid(p)
  <2>1. Answered(x, v)
    BY <1>4, <1>6, <1>7, <1>8, SaidFirst
  <2>2. \A p \in Passages : p = x \/ NothingSaid(p)
    BY <1>8, SaidNothing
  <2>3. QED
    BY <2>1, <2>2
<1> HIDE DEF x, v
<1>10. \A a \in 1..Len(roll) : roll[a] # x /\ roll[a] \in Passages
  BY <1>1, <1>3, RollFacts DEF Distinct
<1>11. Whole'
  <2>1. AtHome' /\ Accounted(roll, heardEnd)' /\ FromTheStart(ring, heardEnd, live, roll)'
    BY <1>1, <1>2 DEF AtHome, Accounted
  <2>2. Distinct(roll, queue)'
    BY <1>1, <1>2, <1>5 DEF Distinct
  <2>3. Shutdown \notin Items(queue')
    BY <1>1, <1>5
  <2>4. QED
    BY <1>1, <1>2, <2>1, <2>2, <2>3 DEF Whole
<1>12. Lined'
  BY <1>1, <1>2, LinedStays
<1>13. Current'
  BY <1>1, <1>2, CurrentStays
<1>14. \A p \in Passages : reports[p] # <<>> => reports'[p] # <<>>
  BY <1>9 DEF Answered, NothingSaid
<1>15. Noticed'
  BY <1>1, <1>2, <1>14, NoticedStays
<1>16. Settled'
  <2>1. OnceJudged'
    <3> SUFFICES ASSUME NEW p \in Passages PROVE Len(reports'[p]) <= 1
      BY DEF OnceJudged
    <3>1. Len(reports[p]) <= 1
      BY <1>1 DEF Settled, OnceJudged
    <3>2. Len(reports'[p]) = 1 \/ reports'[p] = reports[p]
      BY <1>9 DEF Answered, NothingSaid
    <3>3. CASE Len(reports'[p]) = 1
      BY <3>3
    <3>4. CASE reports'[p] = reports[p]
      BY <3>1, <3>4
    <3>5. QED
      BY <3>2, <3>3, <3>4
  <2>2. JudgedWaitNoMore'
    <3> SUFFICES ASSUME NEW p \in Passages, reports'[p] # <<>> PROVE p \in offered' \ Items(queue')
      BY DEF JudgedWaitNoMore
    <3>1. p = x \/ reports[p] # <<>>
      BY <1>9 DEF NothingSaid
    <3>2. QED
      BY <1>1, <1>2, <1>4, <1>5, <3>1 DEF Settled, JudgedWaitNoMore, x
  <2>3. DeclinedWereStopped'
    <3> SUFFICES ASSUME NEW p \in Passages, Told1(p, "skipped")'
                 PROVE  \E a \in 1..Len(roll) : roll[a] = p /\ Stopped(a, ring, heardEnd, live, roll)
      BY <1>2 DEF DeclinedWereStopped
    <3>1. SaidNow(p, "skipped")
      BY DEF SaidNow, Told1
    <3>2. Told1(p, "skipped")
      BY <1>6, <1>9, <3>1 DEF Answered, NothingSaid, v
    <3>3. QED
      BY <1>1, <3>2 DEF Settled, DeclinedWereStopped
  <2>4. JudgedAreGone'
    <3> SUFFICES ASSUME NEW a \in 1..Len(roll), reports'[roll[a]] # <<>>
                 PROVE  /\ Within(a, live) => SaidNow(roll[a], "played")
                        /\ IF head = roll[a] THEN recorded ELSE Gone(a)'
      BY <1>2 DEF JudgedAreGone, Told1, SaidNow
    <3>1. NothingSaid(roll[a])
      BY <1>9, <1>10
    <3>2. /\ Within(a, live) => Told1(roll[a], "played")
          /\ IF head = roll[a] THEN recorded ELSE Gone(a)
      BY <1>1, <3>1 DEF Settled, JudgedAreGone, NothingSaid
    <3>3. Gone(a)' <=> Gone(a)
      BY <1>2, GoneStays
    <3>4. QED
      BY <3>1, <3>2, <3>3 DEF NothingSaid
  <2>5. RecordedIsTold'
    <3>1. head # Nobody => head \in Passages
      BY DEF TypeOK
    <3>2. QED
      BY <1>1, <1>2, <1>14, <3>1 DEF Settled, RecordedIsTold
  <2>6. NoneLost'
    <3> SUFFICES ASSUME NEW p \in offered
                 PROVE  \/ p \in Items(queue') \/ reports'[p] # <<>>
                        \/ \E a \in 1..Len(roll) : roll[a] = p
      BY <1>2 DEF NoneLost
    <3>1. p \in Passages
      BY DEF TypeOK
    <3>2. QED
      BY <1>1, <1>5, <1>9, <1>14, <3>1 DEF Settled, NoneLost, Answered
  <2>7. QED
    BY <2>1, <2>2, <2>3, <2>4, <2>5, <2>6 DEF Settled
<1>17. QED
  BY <1>11, <1>12, <1>13, <1>15, <1>16 DEF Answering

\* What the device takes.
LEMMA FrontTaken ==
    ASSUME TypeOK, TypeOK', Lying, FromTheStart(ring, heardEnd, live, roll), DeviceTakes,
           Rising(ring', lastHeard')
    PROVE  /\ DeviceOn /\ Covering = ring[1] /\ lastHeard' = Audible.adm
           /\ (Covering # {} => lastHeard' = Latest(Covering).adm)
           /\ \A a \in 1..Len(roll) :
                 /\ HeardOf(a) => heardEnd'[a] > 0
                 /\ heardEnd'[a] > 0 => HeardOf(a)
                 /\ heardEnd'[a] = IF Within(a, Covering) THEN heardEnd[a] + 1 ELSE heardEnd[a]
                 /\ Over(a) => Over(a)'
                 /\ Gone(a) => Gone(a)'
<1>1. DeviceOn
  BY DeviceGoesOn
<1>2. ring # <<>> /\ Covering = Head(ring) /\ Covering = ring[1]
  BY FrontOfRing DEF DeviceTakes, Covering
<1>3. lastHeard' = IF Covering = {} THEN lastHeard ELSE Latest(Covering).adm
  BY <1>2 DEF DeviceTakes
<1>4. lastHeard' = Audible.adm
  BY <1>3 DEF Audible
<1>5. \A c \in Covering : heardEnd[c.adm] = c.at
  BY HeardReached
<1>6. /\ \A c \in Covering : c.adm \in 1..Len(roll) /\ c.at \in Nat /\ heardEnd'[c.adm] = c.at + 1
      /\ \A a \in 1..Len(roll) : heardEnd[a] \in Nat
      /\ \A a \in 1..Len(roll) : ~Within(a, Covering) => heardEnd'[a] = heardEnd[a]
      /\ \A i \in 1..Len(ring') : i + 1 \in 1..Len(ring) /\ ring'[i] = ring[i + 1]
      /\ live' = live /\ roll' = roll
  BY <1>1, <1>2 DEF DeviceOn
<1>7. ASSUME NEW a \in 1..Len(roll)
      PROVE  heardEnd'[a] = IF Within(a, Covering) THEN heardEnd[a] + 1 ELSE heardEnd[a]
  <2>1. CASE Within(a, Covering)
    <3>1. PICK c \in Covering : c.adm = a
      BY <2>1 DEF Within
    <3>2. QED
      BY <1>5, <1>6, <2>1, <3>1
  <2>2. CASE ~Within(a, Covering)
    BY <1>6, <2>2
  <2>3. QED
    BY <2>1, <2>2
<1>8. \A a \in 1..Len(roll) : (HeardOf(a) => heardEnd'[a] > 0) /\ (heardEnd'[a] > 0 => HeardOf(a))
  BY <1>6, <1>7 DEF HeardOf
<1>9. \A a \in 1..Len(roll) : Over(a) => Over(a)'
  BY <1>6 DEF Over, Within
<1>10. Audible.adm <= (Audible.adm)' /\ (Audible.adm)' \in 0..Len(roll) /\ Audible.adm \in 0..Len(roll)
  <2>1. IsRing(ring', roll') /\ roll' \in Seq(Passages) /\ lastHeard' \in 0..Len(roll')
    BY DEF TypeOK, IsRing, Units, Contributions
  <2>2. lastHeard' <= Sounded(ring', lastHeard') /\ Sounded(ring', lastHeard') \in 0..Len(roll')
    BY <2>1, SoundedTops, SoundedTyped
  <2>3. QED
    BY <1>4, <1>6, <2>2, SoundedNext, AudibleTyped
<1>11. \A a \in 1..Len(roll) : HeardOf(a) => HeardOf(a)'
  BY <1>8 DEF HeardOf
<1>12. ASSUME NEW a \in 1..Len(roll), Gone(a)
       PROVE  Gone(a)'
  <2>1. CASE Over(a)
    BY <1>9, <2>1 DEF Gone
  <2>2. CASE HeardOf(a) /\ a < Audible.adm
    <3>1. HeardOf(a)'
      BY <1>11, <2>2
    <3>2. a < (Audible.adm)'
      <4>1. Len(roll) \in Nat
        BY RollFacts
      <4>2. QED
        BY <1>10, <2>2, <4>1
    <3>3. QED
      BY <3>1, <3>2 DEF Gone
  <2>3. QED
    BY <1>12, <2>1, <2>2 DEF Gone
<1>13. QED
  BY <1>1, <1>2, <1>3, <1>4, <1>7, <1>8, <1>9, <1>12

LEMMA DeviceAnswers ==
    ASSUME TypeOK, TypeOK', Lying, Rising(ring, lastHeard), Rising(ring', lastHeard'),
           Answering, DeviceTakes
    PROVE  Answering'
<1>1. /\ Whole /\ Lined /\ Current /\ Noticed /\ Settled
      /\ AtHome /\ Shutdown \notin Items(queue) /\ ~handingOver /\ countedElsewhere = Nobody
      /\ Distinct(roll, queue) /\ Accounted(roll, heardEnd)
      /\ FromTheStart(ring, heardEnd, live, roll)
  BY DEF Answering, Whole
<1>2. /\ DeviceOn /\ Covering = ring[1] /\ lastHeard' = Audible.adm
      /\ (Covering # {} => lastHeard' = Latest(Covering).adm)
      /\ \A a \in 1..Len(roll) :
            /\ HeardOf(a) => heardEnd'[a] > 0
            /\ heardEnd'[a] > 0 => HeardOf(a)
            /\ heardEnd'[a] = IF Within(a, Covering) THEN heardEnd[a] + 1 ELSE heardEnd[a]
            /\ Gone(a) => Gone(a)'
  BY <1>1, FrontTaken
<1>3. /\ UNCHANGED <<pc, queue, live, roll, pendingResume, playing, judgement, handover, reports,
                     offered, head, headAdm, heard, heardFrom, recorded, handingOver,
                     countedElsewhere, active>>
      /\ playing /\ ring # <<>> /\ unlooked = 0 /\ unlooked' = 1
  BY DEF DeviceTakes, mixer, judgement, handover
<1>4. Whole'
  <2>1. Accounted(roll, heardEnd)'
    BY <1>1, <1>2, AccountsTaken DEF Distinct
  <2>2. FromTheStart(ring, heardEnd, live, roll)'
    BY <1>1, <1>2, StartTaken
  <2>3. AtHome' /\ Distinct(roll, queue)'
    BY <1>1, <1>3 DEF AtHome, Distinct
  <2>4. QED
    BY <1>1, <1>3, <2>1, <2>2, <2>3 DEF Whole
<1>5. Lined'
  BY <1>1, <1>2, LinedTaken
<1>6. Current'
  <2> SUFFICES ASSUME head # Nobody
               PROVE  /\ headAdm \in 1..Len(roll) /\ roll[headAdm] = head /\ HeardOf(headAdm)'
                      /\ heardFrom \in Nat /\ heardFrom <= heardEnd'[headAdm]
                      /\ heardEnd'[headAdm] <= heardFrom + 1 /\ heardFrom <= heard + 1
                      /\ recorded \/ heard < Half(head)
    BY <1>3 DEF Current
  <2> DEFINE h == headAdm
  <2>1. /\ h \in 1..Len(roll) /\ roll[h] = head /\ HeardOf(h)
        /\ heardFrom \in Nat /\ heardFrom <= heardEnd[h]
        /\ heardEnd[h] <= heardFrom + 0 /\ heardFrom <= heard + 1
        /\ recorded \/ heard < Half(head)
    BY <1>1, <1>3 DEF Current
  <2>2. heardEnd'[h] > 0 /\ heardEnd[h] \in Nat
        /\ heardEnd'[h] = IF Within(h, Covering) THEN heardEnd[h] + 1 ELSE heardEnd[h]
    BY <1>2, <2>1, HeardEndOf
  <2>3. HeardOf(headAdm)'
    BY <1>3, <2>2 DEF HeardOf
  <2> HIDE DEF h
  <2>4. heardFrom <= heardEnd'[h] /\ heardEnd'[h] <= heardFrom + 1
    BY <2>1, <2>2
  <2>5. QED
    BY <2>1, <2>3, <2>4 DEF h
<1>7. Noticed'
  <2>1. ASSUME NEW a \in 1..Len(roll)
        PROVE  /\ Met(a)' <=> Met(a)
               /\ AboutToBe(a)' <=> AboutToBe(a)
    BY <1>3 DEF Met, AboutToBe
  <2>2. ASSUME NEW a \in 1..Len(roll)
        PROVE  Met(a)' \/ Within(a, live')
    <3>1. Met(a) \/ Within(a, live) \/ Sounds(a)
      BY <1>1 DEF Noticed
    <3>2. Sounds(a) /\ ~Met(a) => AboutToBe(a)
      BY <1>1, <1>3 DEF Noticed
    <3>3. QED
      BY <1>3, <2>1, <3>1, <3>2 DEF AboutToBe
  <2>3. ASSUME NEW a \in 1..Len(roll), heardEnd'[a] > 0, ~Met(a)
        PROVE  AboutToBe(a) /\ ring' = <<>> /\ lastHeard' = a /\ heardEnd'[a] = 1
    <3>1. heardEnd[a] \in Nat /\ ~(heardEnd[a] > 0)
      BY <1>1, <1>3, <2>3, HeardEndOf DEF Noticed
    <3>2. Within(a, Covering) /\ heardEnd'[a] = 1
      BY <1>2, <2>3, <3>1
    <3>3. Sounds(a)
      BY <1>1, <3>1, <3>2, HeardBefore
    <3>4. AboutToBe(a) /\ Len(ring) = 1
      BY <1>1, <1>3, <2>3, <3>3 DEF Noticed
    <3>5. ring' = <<>>
      <4>1. Len(ring') = 0 /\ IsRing(ring', roll')
        BY <1>2, <3>4 DEF DeviceOn, TypeOK, IsRing, Units, Contributions
      <4>2. QED
        BY <4>1, EmptySeq DEF IsRing
    <3>6. lastHeard' = a
      BY <1>2, <3>3 DEF Sounds
    <3>7. QED
      BY <3>2, <3>4, <3>5, <3>6
  <2>4. QED
    BY <1>3, <2>1, <2>2, <2>3 DEF Noticed
<1>8. Settled'
  <2>1. OnceJudged' /\ JudgedWaitNoMore' /\ RecordedIsTold' /\ NoneLost'
    BY <1>1, <1>3 DEF Settled, OnceJudged, JudgedWaitNoMore, RecordedIsTold, NoneLost
  <2>2. DeclinedWereStopped'
    <3> SUFFICES ASSUME NEW p \in Passages, Told1(p, "skipped")'
                 PROVE  \E a \in 1..Len(roll') : roll'[a] = p /\ Stopped(a, ring', heardEnd', live', roll')
      BY DEF DeclinedWereStopped
    <3>1. Told1(p, "skipped")
      BY <1>3 DEF Told1
    <3>2. PICK a \in 1..Len(roll) : roll[a] = p /\ Stopped(a, ring, heardEnd, live, roll)
      BY <1>1, <3>1 DEF Settled, DeclinedWereStopped
    <3>3. Stopped(a, ring', heardEnd', live', roll')
      BY <1>2, <3>2, StoppedTaken
    <3>4. QED
      BY <1>3, <3>2, <3>3
  <2>3. JudgedAreGone'
    BY <1>1, <1>2, <1>3 DEF Settled, JudgedAreGone, Told1
  <2>4. QED
    BY <2>1, <2>2, <2>3 DEF Settled
<1>9. QED
  BY <1>4, <1>5, <1>6, <1>7, <1>8 DEF Answering

-----------------------------------------------------------------------------
(* A skip.                                                                  *)

\* What a cut leaves of what was heard, and of what was over.
LEMMA FrontCut ==
    ASSUME TypeOK, Lying, Lined, CutsOn
    PROVE  /\ Audible.adm' = Audible.adm
           /\ \A a : Sounds(a)' <=> Sounds(a)
           /\ \A a \in 1..Len(roll) : /\ HeardOf(a)' <=> HeardOf(a)
                                      /\ Over(a) => Over(a)'
                                      /\ a \in Unheard => Over(a)'
                                      /\ Gone(a) => Gone(a)'
<1>1. /\ Covering' = Covering /\ lastHeard' = lastHeard
      /\ \A a \in 1..Len(roll) : heardEnd'[a] = heardEnd[a]
  BY DEF CutsOn, RollsOn
<1>2. Audible.adm' = Audible.adm
  BY <1>1 DEF Audible
<1>3. \A a : Sounds(a)' <=> Sounds(a)
  BY <1>1 DEF Sounds
<1>4. \A a \in 1..Len(roll) : HeardOf(a)' <=> HeardOf(a)
  BY <1>1 DEF HeardOf
<1>5. /\ \A i \in 1..Len(ring') : i \in 1..Len(ring)
      /\ \A i \in 1..Len(ring') : \A c \in ring'[i] : c.adm \in 1..Len(roll) =>
            c \in ring[i] /\ HeardOf(c.adm)
      /\ \A a \in 1..Len(roll) : ~Within(a, live')
  BY CutLeaves
<1>6. ASSUME NEW a \in 1..Len(roll)
      PROVE  (Over(a) => Over(a)') /\ (a \in Unheard => Over(a)')
  <2>1. \A c \in live' : c.adm # a
    BY <1>5 DEF Within
  <2>2. ASSUME Over(a) PROVE \A i \in 1..Len(ring') : ~Within(a, ring'[i])
    BY <1>5, <2>2 DEF Over, Within
  <2>3. ASSUME a \in Unheard PROVE \A i \in 1..Len(ring') : ~Within(a, ring'[i])
    BY <1>5, <2>3, HeardOfIs DEF Within
  <2>4. QED
    BY <2>1, <2>2, <2>3 DEF Over
<1>7. ASSUME NEW a \in 1..Len(roll), Gone(a)
      PROVE  Gone(a)'
  <2>1. Over(a) => Over(a)'
    BY <1>6
  <2>2. HeardOf(a)' <=> HeardOf(a)
    BY <1>4
  <2>3. QED
    BY <1>2, <1>7, <2>1, <2>2 DEF Gone
<1>8. QED
  BY <1>2, <1>3, <1>4, <1>6, <1>7

\* Nobody has heard of it, so nobody has judged it.
LEMMA UnheardUnjudged ==
    ASSUME TypeOK, Distinct(roll, queue), Current, JudgedAreGone, NEW a \in Unheard
    PROVE  /\ a \in 1..Len(roll) /\ roll[a] \in Passages /\ Within(a, live) /\ ~HeardOf(a)
           /\ head # roll[a] /\ reports[roll[a]] = <<>>
<1>1. a \in 1..Len(roll)
  BY RollFacts DEF Unheard, IsMixer
<1>2. Within(a, live) /\ ~HeardOf(a) /\ roll[a] \in Passages
  BY <1>1, HeardOfIs, RollFacts
<1>3. head # roll[a]
  <2> SUFFICES ASSUME head = roll[a] PROVE FALSE
    OBVIOUS
  <2>1. head # Nobody
    BY <1>2, NobodyAssumption
  <2> DEFINE h == headAdm
  <2>2. h \in 1..Len(roll) /\ roll[h] = head /\ HeardOf(h)
    BY <2>1 DEF Current
  <2> HIDE DEF h
  <2>3. h = a
    BY <1>1, <2>2 DEF Distinct
  <2>4. QED
    BY <1>2, <2>2, <2>3
<1>4. ~Over(a)
  BY <1>2 DEF Over, Within
<1>5. QED
  BY <1>1, <1>2, <1>3, <1>4 DEF JudgedAreGone, Gone

LEMMA SkipSettles ==
    ASSUME TypeOK, TypeOK', Whole, Lying, Lined, Current, Settled, CutsOn,
           NEW q, NEW drop, Takes(q, drop), Items(queue) \subseteq Items(q),
           \A p \in Items(q) : p \in Items(queue) \/ p \notin offered,
           offered \subseteq offered', offered' \subseteq offered \cup Items(q),
           Items(q) \subseteq offered',
           UNCHANGED <<head, recorded>>,
           reports' = AllDropped({roll[a] : a \in Unheard} \cup drop)
    PROVE  /\ Settled'
           /\ \A p \in Passages : reports[p] # <<>> => reports'[p] # <<>>
           /\ \A a \in Unheard : reports'[roll[a]] # <<>>
<1> DEFINE told == {roll[a] : a \in Unheard} \cup drop
<1>1. /\ \A a \in 1..Len(roll) : a \in 1..Len(roll') /\ roll'[a] = roll[a] /\ roll[a] \in Passages
      /\ \A a \in 1..Len(roll') : a \in 1..Len(roll) \/ a = Len(roll) + 1
      /\ RollsOn /\ Distinct(roll, queue)
  BY RollFacts DEF CutsOn, RollsOn, Whole
<1>2. \A a \in Unheard : /\ a \in 1..Len(roll) /\ roll[a] \in Passages
                         /\ head # roll[a] /\ reports[roll[a]] = <<>>
  BY <1>1, UnheardUnjudged DEF Settled
<1>3. drop \subseteq Items(q) /\ drop \subseteq Passages
  BY DEF Takes
<1>4. /\ \A p \in Items(q) \cap Passages : reports[p] = <<>>
      /\ \A a \in 1..Len(roll) : roll[a] \in offered \ Items(q)
  BY <1>1 DEF Settled, JudgedWaitNoMore, Distinct
<1>5. told \subseteq Passages /\ \A p \in told : reports[p] = <<>>
  BY <1>2, <1>3, <1>4
<1>6. \A p \in Passages : IF p \in told THEN Answered(p, "dropped") ELSE NothingSaid(p)
  <2> HIDE DEF told
  <2>1. QED
    BY <1>5, DropsSay DEF told
<1>7. \A p \in told : p \in drop \/ \E a \in Unheard : p = roll[a]
  OBVIOUS
<1>8. (\A a \in Unheard : roll[a] \in told) /\ drop \subseteq told
  OBVIOUS
<1> HIDE DEF told
<1>9. \A p \in Passages : reports[p] # <<>> => reports'[p] # <<>>
  BY <1>6 DEF Answered, NothingSaid
<1>10. \A p \in told : reports'[p] # <<>>
  BY <1>5, <1>6 DEF Answered
<1>11. Items(queue') \subseteq Items(q) \ drop
  BY DEF Takes
<1>12. OnceJudged'
  <2> SUFFICES ASSUME NEW p \in Passages PROVE Len(reports'[p]) <= 1
    BY DEF OnceJudged
  <2>1. Len(reports[p]) <= 1
    BY DEF Settled, OnceJudged
  <2>2. Len(reports'[p]) = 1 \/ reports'[p] = reports[p]
    BY <1>6 DEF Answered, NothingSaid
  <2>3. CASE Len(reports'[p]) = 1
    <3> DEFINE n == Len(reports'[p])
    <3>1. n = 1
      BY <2>3
    <3> HIDE DEF n
    <3>2. n <= 1
      BY <3>1
    <3>3. QED
      BY <3>2 DEF n
  <2>4. CASE reports'[p] = reports[p]
    BY <2>1, <2>4
  <2>5. QED
    BY <2>2, <2>3, <2>4
<1>13. JudgedWaitNoMore'
  <2> SUFFICES ASSUME NEW p \in Passages, reports'[p] # <<>> PROVE p \in offered' \ Items(queue')
    BY DEF JudgedWaitNoMore
  <2>1. CASE p \in drop
    BY <1>3, <1>11, <2>1
  <2>2. CASE \E a \in Unheard : p = roll[a]
    BY <1>2, <1>4, <1>11, <2>2
  <2>3. CASE p \notin told
    <3>1. reports[p] # <<>>
      BY <1>6, <2>3 DEF NothingSaid
    <3>2. p \in offered \ Items(queue)
      BY <3>1 DEF Settled, JudgedWaitNoMore
    <3>3. QED
      BY <1>11, <3>2
  <2>4. QED
    BY <1>7, <2>1, <2>2, <2>3
<1>14. DeclinedWereStopped'
  <2> SUFFICES ASSUME NEW p \in Passages, Told1(p, "skipped")'
               PROVE  \E a \in 1..Len(roll') : roll'[a] = p /\ Stopped(a, ring', heardEnd', live', roll')
    BY DEF DeclinedWereStopped
  <2>1. Told1(p, "skipped")
    <3>1. SaidNow(p, "skipped")
      BY DEF SaidNow, Told1
    <3>2. QED
      BY <1>6, <3>1 DEF Answered, NothingSaid
  <2>2. PICK a \in 1..Len(roll) : roll[a] = p /\ Stopped(a, ring, heardEnd, live, roll)
    BY <2>1 DEF Settled, DeclinedWereStopped
  <2>3. QED
    BY <1>1, <2>2, StoppedCut
<1>15. JudgedAreGone'
  <2> SUFFICES ASSUME NEW a \in 1..Len(roll'), reports'[roll'[a]] # <<>>
               PROVE  /\ ~Within(a, live')
                      /\ IF head = roll'[a] THEN recorded ELSE Gone(a)'
    BY DEF JudgedAreGone
  <2>1. CASE a \in 1..Len(roll)
    <3>1. ~Within(a, live') /\ roll'[a] = roll[a] /\ roll[a] \in Passages
      BY <1>1, <2>1, CutLeaves
    <3>2. CASE roll[a] \in told
      <4>1. PICK b \in Unheard : roll[a] = roll[b]
        BY <1>3, <1>4, <1>7, <2>1, <3>2
      <4>2. a = b
        BY <1>1, <1>2, <2>1, <4>1 DEF Distinct
      <4>3. Over(a)'
        BY <2>1, <4>2, FrontCut
      <4>4. QED
        BY <1>2, <3>1, <4>2, <4>3 DEF Gone
    <3>3. CASE roll[a] \notin told
      <4>1. reports[roll[a]] # <<>>
        BY <1>6, <3>1, <3>3 DEF NothingSaid
      <4>2. IF head = roll[a] THEN recorded ELSE Gone(a)
        BY <2>1, <4>1 DEF Settled, JudgedAreGone
      <4>3. Gone(a) => Gone(a)'
        BY <2>1, FrontCut
      <4>4. QED
        BY <3>1, <4>2, <4>3
    <3>4. QED
      BY <3>2, <3>3
  <2>2. CASE a \notin 1..Len(roll)
    <3>1. PICK p \in (Items(q) \cap Passages) \ drop : roll' = Append(roll, p)
      BY <2>2 DEF Takes
    <3>2. roll'[a] = p
      BY <1>1, <2>2, <3>1, RollGrows
    <3>3. p \notin told
      BY <1>2, <1>4, <1>7, <3>1
    <3>4. reports'[p] = <<>>
      BY <1>4, <1>6, <3>1, <3>3 DEF NothingSaid
    <3>5. QED
      BY <3>2, <3>4
  <2>3. QED
    BY <2>1, <2>2
<1>16. RecordedIsTold'
  <2>1. head # Nobody => head \in Passages
    BY DEF TypeOK
  <2>2. QED
    BY <1>9, <2>1 DEF Settled, RecordedIsTold
<1>17. NoneLost'
  <2>1. \A p \in Passages : reports[p] # <<>> \/ p \in drop => reports'[p] # <<>>
    BY <1>8, <1>9, <1>10
  <2>2. offered' \subseteq Passages
    BY DEF TypeOK
  <2>3. QED
    BY <1>1, <2>1, <2>2, AllTaken
<1>18. Settled'
  BY <1>12, <1>13, <1>14, <1>15, <1>16, <1>17 DEF Settled
<1>19. \A a \in Unheard : reports'[roll[a]] # <<>>
  BY <1>8, <1>10
<1>20. QED
  BY <1>9, <1>18, <1>19

LEMMA SkipNoticed ==
    ASSUME TypeOK, Lying, Lined, FromTheStart(ring, heardEnd, live, roll), CutsOn, Noticed,
           pc = "commands", UNCHANGED <<head, unlooked>>,
           \A p \in Passages : reports[p] # <<>> => reports'[p] # <<>>,
           \A a \in Unheard : reports'[roll[a]] # <<>>
    PROVE  Noticed'
<1>1. /\ \A a \in 1..Len(roll) : /\ a \in 1..Len(roll') /\ roll'[a] = roll[a]
                                 /\ roll[a] \in Passages /\ heardEnd'[a] = heardEnd[a]
      /\ \A a \in 1..Len(roll') : a \in 1..Len(roll) \/ (a = Len(roll) + 1 /\ heardEnd'[a] = 0)
      /\ \A a \in 1..Len(roll') : a \in 1..Len(roll) \/ Within(a, live')
  BY RollFacts DEF CutsOn, RollsOn
<1>2. \A a \in 1..Len(roll) : Met(a) => Met(a)'
  BY <1>1 DEF Met
<1>3. /\ unlooked \in {0, 1}
      /\ \A a \in 1..Len(roll) : Met(a) \/ Within(a, live) \/ Sounds(a)
      /\ \A a \in 1..Len(roll) : Sounds(a) /\ ~Met(a) => unlooked = 1
      /\ \A a \in 1..Len(roll) : heardEnd[a] > 0 => Met(a)
  BY DEF Noticed, AboutToBe
<1>4. \A a : Sounds(a)' <=> Sounds(a)
  BY FrontCut
<1>5. ASSUME NEW a \in 1..Len(roll')
      PROVE  Met(a)' \/ Within(a, live') \/ Sounds(a)'
  <2>1. CASE a \notin 1..Len(roll)
    BY <1>1, <2>1
  <2>2. CASE a \in 1..Len(roll) /\ (Met(a) \/ Sounds(a))
    <3>1. Sounds(a) => Sounds(a)'
      BY <1>4
    <3>2. QED
      BY <1>2, <2>2, <3>1
  <2>3. CASE a \in 1..Len(roll) /\ Within(a, live) /\ ~Met(a)
    <3>1. CASE HeardOf(a)
      <4>1. heardEnd[a] = 0 /\ Within(a, Covering)
        BY <1>3, <2>3, <3>1, HeardEndOf DEF HeardOf
      <4>2. Sounds(a)
        BY <2>3, <4>1, HeardBefore
      <4>3. QED
        BY <1>4, <4>2
    <3>2. CASE ~HeardOf(a)
      <4>1. a \in Unheard
        BY <2>3, <3>2, HeardOfIs
      <4>2. QED
        BY <1>1, <2>3, <4>1 DEF Met
    <3>3. QED
      BY <3>1, <3>2
  <2>4. QED
    BY <1>3, <2>1, <2>2, <2>3
<1>6. ASSUME NEW a \in 1..Len(roll'), Sounds(a)', ~Met(a)'
      PROVE  unlooked' = 1
  <2>1. Sounds(a)
    BY <1>4, <1>6
  <2>2. a \in 1..Len(roll)
    BY <2>1, LatestOfCovering DEF Sounds
  <2>3. ~Met(a)
    BY <1>2, <1>6, <2>2
  <2>4. QED
    BY <1>3, <2>1, <2>2, <2>3
<1>7. ASSUME NEW a \in 1..Len(roll'), heardEnd'[a] > 0
      PROVE  Met(a)'
  <2>1. a \in 1..Len(roll) /\ heardEnd[a] > 0
    BY <1>1, <1>7
  <2>2. QED
    BY <1>2, <1>3, <2>1
<1>8. QED
  BY <1>3, <1>5, <1>6, <1>7 DEF Noticed

LEMMA SkipAnswers ==
    ASSUME Roomy, TypeOK, TypeOK', Lying, OnceEach, Answering,
           NEW q, IsQueue(q), Once(q), SkipFrom(q), pc = "commands",
           \/ Items(q) = Items(queue) /\ offered' = offered
           \/ \E p \in Passages \ offered : /\ Items(q) = Items(queue) \cup {p}
                                            /\ offered' = offered \cup {p},
           UNCHANGED <<pc, playing, judgement, handover, listened, unlooked>>
    PROVE  Answering'
<1>1. /\ Whole /\ Lined /\ Current /\ Noticed /\ Settled
      /\ AtHome /\ Shutdown \notin Items(queue) /\ ~handingOver /\ countedElsewhere = Nobody
      /\ Distinct(roll, queue) /\ FromTheStart(ring, heardEnd, live, roll)
      /\ pendingResume = Nowhere
  BY DEF Answering, Whole, AtHome
<1>2. UNCHANGED <<head, recorded, handingOver, countedElsewhere, active>>
  BY DEF judgement, handover
<1>3. Shutdown \notin Items(q)
  BY <1>1, PassagesAssumption
<1>4. CASE SkipNothing(q)
  <2>1. queue' = q /\ UNCHANGED <<live, roll, pendingResume, output, reports>>
    BY <1>4 DEF SkipNothing, mixer
  <2>2. pc' # "down" /\ ~(pc = "look" /\ playing)
    OBVIOUS
  <2>3. QED
    BY <2>1, <2>2, EditAnswers DEF handover
<1>5. CASE SkipToShutdown(q)
  <2>1. q # <<>> /\ Head(q) = Shutdown /\ q \in Seq(Passages \cup {Shutdown})
    BY <1>5 DEF SkipToShutdown, NextIsShutdown, IsQueue
  <2>2. QED
    BY <1>3, <2>1, OnceTail
<1>6. CASE SkipToNext(q)
  <2>1. CutsOn /\ pendingResume' = Nowhere
    BY <1>1, <1>3, <1>6, CutDoes
  <2>2. PICK drop : /\ Takes(q, drop)
                    /\ reports' = AllDropped({roll[a] : a \in Unheard} \cup drop)
    BY <1>1, <1>3, <1>6, CutDoes
  <2>3. /\ Items(queue) \subseteq Items(q) /\ offered \subseteq offered'
        /\ offered' \subseteq offered \cup Items(q) /\ Items(q) \subseteq offered'
        /\ \A p \in Items(q) : p \in Items(queue) \/ p \notin offered
    BY <1>1 DEF OnceEach
  <2>4. RollsOn /\ \A a \in 1..Len(roll) : roll[a] \notin Items(q)
    BY <1>1, <2>1, <2>3 DEF CutsOn, Distinct
  <2>5. Whole'
    <3>1. FromTheStart(ring, heardEnd, live, roll)'
      BY <1>1, <2>1, StartCut
    <3>2. /\ Distinct(roll, queue)' /\ Accounted(roll, heardEnd)'
          /\ Shutdown \notin Items(queue')
      BY <1>1, <1>3, <2>2, <2>3, <2>4, WholeTaken
    <3>3. AtHome'
      BY <1>1, <1>2, <2>1 DEF AtHome
    <3>4. QED
      BY <1>1, <1>2, <3>1, <3>2, <3>3 DEF Whole
  <2>6. Lined'
    BY <1>1, <2>1, LinedCut
  <2>7. Current'
    <3>1. \A a \in 1..Len(roll) : HeardOf(a) => HeardOf(a)'
      BY <1>1, <2>1, FrontCut
    <3>2. QED
      BY <1>1, <2>4, <3>1, CurrentOn
  <2>8. /\ Settled'
        /\ \A p \in Passages : reports[p] # <<>> => reports'[p] # <<>>
        /\ \A a \in Unheard : reports'[roll[a]] # <<>>
    BY <1>1, <1>2, <2>1, <2>2, <2>3, SkipSettles
  <2>9. Noticed'
    BY <1>1, <1>2, <2>1, <2>8, SkipNoticed
  <2>10. QED
    BY <2>5, <2>6, <2>7, <2>8, <2>9 DEF Answering
<1>7. QED
  BY <1>4, <1>5, <1>6 DEF SkipFrom

LEMMA SkipsAnswer ==
    ASSUME Roomy, TypeOK, TypeOK', Lying, Held, Answering, Skip \/ \E p \in Passages : PlayNow(p)
    PROVE  Answering'
<1>0. /\ IsQueue(queue) /\ queue \in Seq(Passages \cup {Shutdown}) /\ Once(queue) /\ OnceEach
  BY DEF TypeOK, IsQueue, Held, OnceEach
<1>1. CASE Skip
  <2>1. /\ SkipFrom(queue) /\ pc = "commands" /\ offered' = offered
        /\ UNCHANGED <<pc, playing, judgement, handover, listened, unlooked>>
    BY <1>1 DEF Skip, Asking
  <2>2. QED
    BY <1>0, <2>1, SkipAnswers
<1>2. ASSUME NEW p \in Passages, PlayNow(p)
      PROVE  Answering'
  <2> DEFINE q == <<p>> \o queue
  <2>1. /\ SkipFrom(q) /\ pc = "commands" /\ p \notin offered /\ offered' = offered \cup {p}
        /\ UNCHANGED <<pc, playing, judgement, handover, listened, unlooked>>
    BY <1>2 DEF PlayNow, Asking
  <2>2. p \notin Items(queue)
    BY <1>0, <2>1, OfferedAreNoShutdown
  <2>3. Once(q) /\ Items(q) = Items(queue) \cup {p}
    BY <1>0, <2>2, OnceAppended
  <2>4. IsQueue(q)
    BY <1>2, ArrivedTyped
  <2> HIDE DEF q
  <2>5. QED
    BY <1>0, <2>1, <2>3, <2>4, SkipAnswers
<1>3. QED
  BY <1>1, <1>2

-----------------------------------------------------------------------------
(* A look.                                                                  *)

\* What has departed is gone for good; and if too little of it was heard for a
\* play, it was stopped.
LEMMA HeadGone ==
    ASSUME Roomy, TypeOK, Lying, Lined, FromTheStart(ring, heardEnd, live, roll),
           Topmost(live, roll), Rising(ring, lastHeard), unlooked \in {0, 1},
           Current, head # Nobody, head # PassageHeard
    PROVE  /\ headAdm \in 1..Len(roll) /\ roll[headAdm] = head /\ Gone(headAdm)
           /\ recorded \/ Stopped(headAdm, ring, heardEnd, live, roll)
<1> DEFINE h == headAdm
<1>1. /\ h \in 1..Len(roll) /\ roll[h] = head /\ HeardOf(h) /\ heardFrom \in Nat
      /\ heardEnd[h] <= heardFrom + unlooked /\ heardFrom <= heard + 1
      /\ recorded \/ heard < Half(head)
  BY DEF Current
<1> HIDE DEF h
<1>2. /\ Len(roll) \in Nat /\ Len(ring) \in Nat /\ heardEnd[h] \in Nat /\ heard \in Nat
      /\ roll[h] \in Passages /\ Audible.adm \in 0..Len(roll)
  BY <1>1, RollFacts, RingTyped, UnitFacts, HeardEndOf, AudibleTyped DEF TypeOK
<1>3. /\ Half(head) \in Nat /\ Length[head] \in Nat /\ Half(head) + 2 <= Length[head]
  BY <1>1, <1>2, RoomFor
<1>4. recorded \/ heardEnd[h] < Half(head) + 2
  <2>1. heardEnd[h] <= heard + 2
    BY <1>1, <1>2
  <2>2. QED
    BY <1>1, <1>2, <1>3, <2>1
<1>5. h <= Audible.adm
  BY <1>1, HeardAhead
<1>6. CASE h < Audible.adm
  <2>1. Gone(h)
    BY <1>1, <1>6 DEF Gone
  <2>2. Stopped(h, ring, heardEnd, live, roll) \/ heardEnd[h] >= Half(roll[h]) + 2
    BY <1>1, <1>6, BehindHeard
  <2>3. recorded \/ Stopped(h, ring, heardEnd, live, roll)
    BY <1>1, <1>2, <1>3, <1>4, <2>2
  <2>4. QED
    BY <1>1, <2>1, <2>3 DEF h
<1>7. CASE h = Audible.adm
  <2>1. HeardNow # Audible
    <3> SUFFICES ASSUME HeardNow = Audible PROVE FALSE
      OBVIOUS
    <3>1. PassageHeard = roll[h]
      BY <1>1, <1>2, <1>7 DEF PassageHeard
    <3>2. QED
      BY <1>1, <3>1
  <2>2. Audible.ended /\ roll[h] \notin LivePassages
    BY <1>1, <1>2, <1>7, <2>1 DEF HeardNow
  <2>3. Covering = {}
    <3>1. Covering # {} => Audible.ended = FALSE
      BY DEF Audible
    <3>2. QED
      BY <2>2, <3>1
  <2>4. \A c \in live : c.adm # h
    BY <2>2 DEF LivePassages
  <2>5. heardEnd[h] > 0
    BY <1>1, <2>3 DEF HeardOf, Within
  <2>6. \A i \in 1..Len(ring) : ~Within(h, ring[i])
    <3> SUFFICES ASSUME NEW i \in 1..Len(ring), NEW c \in ring[i], c.adm = h PROVE FALSE
      BY DEF Within
    <3>1. Len(ring) > 0 /\ Within(h, ring[1])
      BY <1>2, <2>5, InFront DEF Lying
    <3>2. ring # <<>>
      BY <3>1
    <3>3. Covering = ring[1]
      BY <3>2, FrontOfRing
    <3>4. QED
      BY <2>3, <3>1, <3>3 DEF Within
  <2>7. Gone(h)
    BY <2>4, <2>6 DEF Gone, Over
  <2>8. recorded \/ Stopped(h, ring, heardEnd, live, roll)
    <3> SUFFICES ASSUME ~recorded PROVE Stopped(h, ring, heardEnd, live, roll)
      OBVIOUS
    <3>1. heardEnd[h] # Length[roll[h]]
      BY <1>1, <1>2, <1>3, <1>4
    <3>2. \A i \in 1..Len(ring) : ~LastOf(h, ring[i], roll)
      BY <2>6 DEF LastOf, Within
    <3>3. QED
      BY <2>4, <3>1, <3>2 DEF Stopped, Ended, Within
  <2>9. QED
    BY <1>1, <2>7, <2>8 DEF h
<1>8. QED
  BY <1>1, <1>2, <1>5, <1>6, <1>7

\* What is heard and was not being judged has no verdict, and was hardly heard.
LEMMA HeardIsFresh ==
    ASSUME TypeOK, Lying, HasHeard, Lined, FromTheStart(ring, heardEnd, live, roll),
           Distinct(roll, queue), Noticed, JudgedAreGone, HeardNow.adm # 0,
           head # roll[HeardNow.adm]
    PROVE  reports[roll[HeardNow.adm]] = <<>> /\ heardEnd[HeardNow.adm] <= 1
<1> DEFINE x == HeardNow.adm
<1>1. /\ x = Audible.adm /\ x \in 1..Len(roll)
      /\ Sounds(x) \/ (Covering = {} /\ x = lastHeard)
  BY HeardReached
<1>2. HeardNow = Audible
  BY DEF HeardNow
<1>3. ~Over(x)
  <2>1. CASE Sounds(x)
    <3>1. Within(x, Covering) /\ Covering # {}
      BY <2>1, LatestOfCovering DEF Sounds, Within
    <3>2. ring # <<>>
      BY <3>1, FrontOfRing
    <3>3. Covering = ring[1] /\ Len(ring) \in Nat /\ Len(ring) > 0
      BY <3>2, FrontOfRing
    <3>4. 1 \in 1..Len(ring)
      BY <3>3
    <3>5. QED
      BY <3>1, <3>3, <3>4 DEF Over
  <2>2. CASE Covering = {}
    <3>1. Audible.ended /\ Audible.adm # 0
      BY <1>1, <2>2 DEF Audible
    <3>2. roll[Audible.adm] \in LivePassages
      <4> SUFFICES ASSUME roll[Audible.adm] \notin LivePassages PROVE FALSE
        OBVIOUS
      <4>1. HeardNow = [adm |-> 0, at |-> 0, ended |-> TRUE]
        BY <3>1 DEF HeardNow
      <4>2. QED
        BY <4>1
    <3>3. PICK c \in live : roll[c.adm] = roll[x]
      BY <1>1, <3>2 DEF LivePassages
    <3>4. c.adm \in 1..Len(roll)
      BY RollFacts DEF IsMixer
    <3>5. c.adm = x
      BY <1>1, <3>3, <3>4 DEF Distinct
    <3>6. QED
      BY <3>5 DEF Over
  <2>3. QED
    BY <1>1, <2>1, <2>2
<1>4. ~Gone(x)
  <2>1. ~(x < Audible.adm)
    <3>1. Len(roll) \in Nat
      BY RollFacts
    <3>2. QED
      BY <1>1, <3>1
  <2>2. QED
    BY <1>3, <2>1 DEF Gone
<1>5. heardEnd[x] \in Nat
  BY <1>1, HeardEndOf
<1> HIDE DEF x
<1>6. reports[roll[x]] = <<>>
  BY <1>1, <1>4 DEF JudgedAreGone, x
<1>7. heardEnd[x] <= 1
  <2>1. ~Met(x)
    BY <1>6 DEF Met, x
  <2>2. heardEnd[x] > 0 => heardEnd[x] = 1
    BY <1>1, <2>1 DEF Noticed
  <2>3. QED
    BY <1>5, <2>2
<1>8. QED
  BY <1>6, <1>7 DEF x

\* A look meets what it finds heard.
LEMMA LookNotices ==
    ASSUME TypeOK, Noticed, pc' = "show", unlooked' = 0, UNCHANGED <<roll, live, output>>,
           head' = PassageHeard, \A a \in 1..Len(roll) : Met(a) => Met(a)'
    PROVE  Noticed'
<1>1. heardEnd' = heardEnd /\ Covering' = Covering
  BY DEF output, Covering
<1>2. \A a : Sounds(a)' <=> Sounds(a)
  BY <1>1 DEF Sounds
<1>3. ASSUME NEW a \in 1..Len(roll), HeardNow.adm = a
      PROVE  Met(a)'
  <2>1. a # 0
    OBVIOUS
  <2>2. head' = roll[a]
    BY <1>3, <2>1 DEF PassageHeard
  <2>3. QED
    BY <2>2 DEF Met
<1>4. ASSUME NEW a \in 1..Len(roll), Sounds(a)
      PROVE  Met(a)'
  <2>1. Audible.adm = a /\ Audible.ended = FALSE
    BY <1>4 DEF Sounds, Audible
  <2>2. HeardNow = Audible
    BY <2>1 DEF HeardNow
  <2>3. QED
    BY <1>3, <2>1, <2>2
<1>5. ASSUME NEW a \in 1..Len(roll), heardEnd[a] > 0
      PROVE  Met(a)'
  <2>1. CASE Met(a)
    BY <2>1
  <2>2. CASE Within(a, live) /\ ring = <<>> /\ lastHeard = a
    <3>1. Covering = {}
      BY <2>2, FrontOfRing
    <3>2. Audible.adm = a
      BY <2>2, <3>1 DEF Audible
    <3>3. roll[a] \in LivePassages
      BY <2>2 DEF LivePassages, Within
    <3>4. HeardNow = Audible
      BY <3>2, <3>3 DEF HeardNow
    <3>5. QED
      BY <1>3, <3>2, <3>4
  <2>3. QED
    BY <1>5, <2>1, <2>2 DEF Noticed, AboutToBe
<1>6. \A a \in 1..Len(roll) : Met(a)' \/ Within(a, live) \/ Sounds(a)
  BY DEF Noticed
<1>7. QED
  BY <1>1, <1>2, <1>4, <1>5, <1>6 DEF Noticed

LEMMA LookSettles ==
    ASSUME TypeOK, Distinct(roll, queue), Settled, UNCHANGED <<queue, roll, live, output, offered>>,
           head' = PassageHeard,
           \A p \in Passages :
              \/ NothingSaid(p)
              \/ Answered(p, "played") /\ p = PassageHeard /\ recorded'
              \/ /\ Answered(p, "skipped") /\ p = head /\ p # PassageHeard
                 /\ \A a \in 1..Len(roll) : roll[a] = p => Stopped(a, ring, heardEnd, live, roll),
           \A a \in 1..Len(roll) : roll[a] = head /\ head # PassageHeard => Gone(a),
           PassageHeard # head => \A p \in Passages : p = PassageHeard => reports[p] = <<>>,
           PassageHeard = head /\ recorded => recorded',
           PassageHeard # Nobody /\ recorded' => reports'[PassageHeard] # <<>>,
           \A p \in Passages : p = head \/ p = PassageHeard => \E a \in 1..Len(roll) : roll[a] = p
    PROVE  Settled'
<1>1. \A p \in Passages : NothingSaid(p) \/ p = head \/ p = PassageHeard
  OBVIOUS
<1>2. \A p \in Passages : Len(reports'[p]) = 1 \/ reports'[p] = reports[p]
  BY DEF Answered, NothingSaid
<1>3. \A p \in Passages : reports[p] # <<>> => reports'[p] # <<>>
  BY DEF Answered, NothingSaid
<1>4. ring' = ring /\ heardEnd' = heardEnd
  BY DEF output
<1>5. OnceJudged'
  <2> SUFFICES ASSUME NEW p \in Passages PROVE Len(reports'[p]) <= 1
    BY DEF OnceJudged
  <2> DEFINE n == Len(reports'[p])
  <2>1. Len(reports[p]) <= 1
    BY DEF Settled, OnceJudged
  <2>2. CASE n = 1
    <3> HIDE DEF n
    <3>1. n <= 1
      BY <2>2
    <3>2. QED
      BY <3>1 DEF n
  <2>3. CASE reports'[p] = reports[p]
    BY <2>1, <2>3
  <2>4. QED
    BY <1>2, <2>2, <2>3
<1>6. JudgedWaitNoMore'
  <2> SUFFICES ASSUME NEW p \in Passages, reports'[p] # <<>> PROVE p \in offered \ Items(queue)
    BY DEF JudgedWaitNoMore
  <2>1. CASE NothingSaid(p)
    BY <2>1 DEF Settled, JudgedWaitNoMore, NothingSaid
  <2>2. CASE p = head \/ p = PassageHeard
    BY <2>2 DEF Distinct
  <2>3. QED
    BY <1>1, <2>1, <2>2
<1>7. DeclinedWereStopped'
  <2> SUFFICES ASSUME NEW p \in Passages, Told1(p, "skipped")'
               PROVE  \E a \in 1..Len(roll) : roll[a] = p /\ Stopped(a, ring, heardEnd, live, roll)
    BY <1>4 DEF DeclinedWereStopped
  <2>1. SaidNow(p, "skipped")
    BY DEF SaidNow, Told1
  <2>2. CASE NothingSaid(p)
    BY <2>1, <2>2 DEF Settled, DeclinedWereStopped, NothingSaid
  <2>3. CASE Answered(p, "played")
    BY <2>1, <2>3 DEF Answered
  <2>4. CASE /\ p = head
             /\ \A a \in 1..Len(roll) : roll[a] = p => Stopped(a, ring, heardEnd, live, roll)
    <3>1. PICK a \in 1..Len(roll) : roll[a] = p
      BY <2>4
    <3>2. QED
      BY <2>4, <3>1
  <2>5. QED
    BY <2>2, <2>3, <2>4
<1>8. JudgedAreGone'
  <2> SUFFICES ASSUME NEW a \in 1..Len(roll), reports'[roll[a]] # <<>>
               PROVE  /\ Within(a, live) => SaidNow(roll[a], "played")
                      /\ IF head' = roll[a] THEN recorded' ELSE Gone(a)'
    BY DEF JudgedAreGone, Told1, SaidNow
  <2> DEFINE p == roll[a]
  <2>1. p \in Passages /\ (Gone(a)' <=> Gone(a))
    BY GoneStays, RollFacts
  <2>2. CASE NothingSaid(p)
    <3>1. /\ reports[p] # <<>>
          /\ Within(a, live) => Told1(p, "played")
          /\ IF head = p THEN recorded ELSE Gone(a)
      BY <2>2 DEF Settled, JudgedAreGone, NothingSaid
    <3>2. Within(a, live) => SaidNow(p, "played")
      BY <2>2, <3>1 DEF NothingSaid
    <3> HIDE DEF p
    <3>3. CASE PassageHeard = p
      <4>1. PassageHeard = head
        BY <2>1, <3>1, <3>3
      <4>2. recorded'
        BY <3>1, <3>3, <4>1
      <4>3. QED
        BY <3>2, <3>3, <4>2 DEF p
    <3>4. CASE PassageHeard # p
      <4>1. Gone(a)
        <5>1. CASE head = p
          BY <3>4, <5>1 DEF p
        <5>2. CASE head # p
          BY <3>1, <5>2
        <5>3. QED
          BY <5>1, <5>2
      <4>2. QED
        BY <2>1, <3>2, <3>4, <4>1 DEF p
    <3>5. QED
      BY <3>3, <3>4
  <2>3. CASE Answered(p, "played") /\ p = PassageHeard /\ recorded'
    BY <2>3 DEF Answered
  <2>4. CASE /\ p = head /\ p # PassageHeard
             /\ \A b \in 1..Len(roll) : roll[b] = p => Stopped(b, ring, heardEnd, live, roll)
    <3>1. Gone(a) /\ ~Within(a, live)
      BY <2>4 DEF Stopped
    <3>2. QED
      BY <2>1, <2>4, <3>1
  <2>5. QED
    BY <2>1, <2>2, <2>3, <2>4
<1>9. RecordedIsTold'
  BY DEF RecordedIsTold
<1>10. NoneLost'
  <2>1. offered \subseteq Passages
    BY DEF TypeOK
  <2>2. QED
    BY <1>3, <2>1 DEF Settled, NoneLost
<1>11. QED
  BY <1>5, <1>6, <1>7, <1>8, <1>9, <1>10 DEF Settled

\* What crediting says, and what it leaves to be heard.
LEMMA CreditSays ==
    ASSUME NEW told \in Reports, NEW p \in Passages \cup {Nobody}, NEW units \in Nat,
           NEW done \in BOOLEAN, Credited(p, units, done, told)
    PROVE  /\ heard' = units /\ (done => recorded') /\ (p = Nobody => recorded' = done)
           /\ (p # Nobody => recorded' \/ heard' < Half(p))
           /\ \A z \in Passages :
                 IF z = p /\ ~done /\ recorded'
                 THEN reports'[z] = Append(told[z], [verdict |-> "played", heard |-> units])
                 ELSE reports'[z] = told[z]
<1> DEFINE plays == ~done /\ p # Nobody /\ CountsAsPlay(units, Length[p])
           v == [verdict |-> "played", heard |-> units]
<1>1. /\ heard' = units /\ recorded' = (done \/ plays)
      /\ reports' = IF plays THEN [told EXCEPT ![p] = Append(@, v)] ELSE told
  BY DEF Credited
<1>2. ASSUME p # Nobody, ~recorded'
      PROVE  units < Half(p)
  <2>1. p \in Passages /\ ~CountsAsPlay(units, Length[p])
    BY <1>1, <1>2
  <2>2. Length[p] \in Nat /\ Length[p] > 0 /\ FourMinutes \in Nat /\ Half(p) \in Nat
    BY <2>1, LengthOf, DeviceAssumption DEF Half
  <2>3. ~(units >= Least(Half(p), FourMinutes))
    BY <2>1, <2>2 DEF CountsAsPlay, Half
  <2>4. QED
    BY <2>2, <2>3 DEF Least
<1>3. (plays <=> ~done /\ recorded') /\ (plays => p \in Passages)
  BY <1>1
<1> HIDE DEF plays, v
<1>4. ASSUME NEW z \in Passages
      PROVE  IF z = p /\ ~done /\ recorded' THEN reports'[z] = Append(told[z], v)
             ELSE reports'[z] = told[z]
  <2>1. told \in [Passages -> Seq(Reported)]
    BY DEF Reports
  <2>2. CASE plays
    <3>1. p \in Passages /\ reports' = [told EXCEPT ![p] = Append(@, v)]
      BY <1>1, <1>3, <2>2
    <3>2. QED
      BY <1>3, <2>1, <2>2, <3>1
  <2>3. CASE ~plays
    BY <1>1, <1>3, <2>3
  <2>4. QED
    BY <2>2, <2>3
<1>5. /\ heard' = units /\ (done => recorded') /\ (p = Nobody => recorded' = done)
  BY <1>1 DEF plays
<1>6. QED
  BY <1>2, <1>4, <1>5 DEF v

\* What a look leaves alone.
LEMMA LookLeaves ==
    ASSUME Whole, Lined, pc' # "down", ~handingOver', countedElsewhere' = Nobody,
           UNCHANGED <<queue, mixer, output, active, listened, offered>>
    PROVE  Whole' /\ Lined'
<1>1. UNCHANGED <<live, roll, pendingResume, output, ring, heardEnd>>
  BY DEF mixer, output
<1>2. Lined'
  BY <1>1, LinedStays
<1>3. AtHome' /\ Accounted(roll, heardEnd)' /\ FromTheStart(ring, heardEnd, live, roll)'
      /\ Distinct(roll, queue)'
  BY <1>1 DEF Whole, AtHome, Accounted, Distinct
<1>4. QED
  BY <1>2, <1>3 DEF Whole

\* What is found heard.
LEMMA FoundHeard ==
    ASSUME TypeOK, Lying, HasHeard, FromTheStart(ring, heardEnd, live, roll)
    PROVE  IF HeardNow.adm = 0 THEN PassageHeard = Nobody
           ELSE /\ HeardNow.adm \in 1..Len(roll) /\ PassageHeard = roll[HeardNow.adm]
                /\ PassageHeard \in Passages /\ PassageHeard # Nobody
                /\ HeardNow.at = heardEnd[HeardNow.adm] /\ heardEnd[HeardNow.adm] \in Nat
                /\ HeardOf(HeardNow.adm)
<1>1. CASE HeardNow.adm = 0
  BY <1>1 DEF PassageHeard
<1>2. CASE HeardNow.adm # 0
  <2> DEFINE x == HeardNow.adm
  <2>1. x \in 1..Len(roll) /\ HeardNow.at = heardEnd[x]
    BY <1>2, HeardReached
  <2>2. PassageHeard = roll[x] /\ roll[x] \in Passages /\ heardEnd[x] \in Nat
    BY <1>2, <2>1, RollFacts, HeardEndOf DEF PassageHeard
  <2>3. HeardOf(x)
    BY <1>2, HeardWhere DEF HeardOf
  <2>4. QED
    BY <1>2, <2>1, <2>2, <2>3, NobodyAssumption
<1>3. QED
  BY <1>1, <1>2

LEMMA LookDepartedAnswers ==
    ASSUME Roomy, TypeOK, TypeOK', Lying, HasHeard, Topmost(live, roll), Rising(ring, lastHeard),
           Answering, LookDeparted
    PROVE  Answering'
<1> DEFINE x == HeardNow.adm
           y == PassageHeard
           s == [verdict |-> "skipped", heard |-> heard + HeadTail]
           e == [verdict |-> "played", heard |-> 0]
           told == IF Unjudged THEN Told(head, "skipped", heard + HeadTail) ELSE reports
<1>1. /\ Whole /\ Lined /\ Current /\ Noticed /\ Settled
      /\ ~handingOver /\ countedElsewhere = Nobody /\ unlooked \in {0, 1}
      /\ Distinct(roll, queue) /\ FromTheStart(ring, heardEnd, live, roll)
      /\ JudgedAreGone /\ RecordedIsTold
  BY DEF Answering, Whole, Noticed, Settled
<1>2. /\ pc = "look" /\ playing /\ head # y /\ pc' = "show" /\ ~handingOver'
      /\ countedElsewhere' = Nobody /\ head' = y /\ headAdm' = x
      /\ Credited(y, 0, FALSE, told)
      /\ heardFrom' = IF y = Nobody THEN Nowhere ELSE HeardNow.at
      /\ unlooked' = 0
      /\ UNCHANGED <<queue, mixer, playing, output, active, listened, offered, live, roll,
                     ring, heardEnd>>
  <2>1. ~(y # Nobody /\ countedElsewhere = y)
    BY <1>1
  <2>2. QED
    BY <1>1, <2>1 DEF LookDeparted, mixer, output
<1>3. IF x = 0 THEN y = Nobody
      ELSE /\ x \in 1..Len(roll) /\ y = roll[x] /\ y \in Passages /\ y # Nobody
           /\ HeardNow.at = heardEnd[x] /\ heardEnd[x] \in Nat /\ HeardOf(x)
           /\ reports[y] = <<>> /\ heardEnd[x] <= 1
  <2>1. CASE x = 0
    BY <2>1, FoundHeard, <1>1
  <2>2. CASE x # 0
    <3>1. /\ x \in 1..Len(roll) /\ y = roll[x] /\ y \in Passages /\ y # Nobody
          /\ HeardNow.at = heardEnd[x] /\ heardEnd[x] \in Nat /\ HeardOf(x)
      BY <1>1, <2>2, FoundHeard
    <3>2. reports[roll[x]] = <<>> /\ heardEnd[x] <= 1
      BY <1>1, <1>2, <2>2, <3>1, HeardIsFresh
    <3>3. QED
      BY <2>2, <3>1, <3>2
  <2>3. QED
    BY <2>1, <2>2
<1>4. head # Nobody =>
         /\ head \in Passages /\ headAdm \in 1..Len(roll) /\ roll[headAdm] = head /\ Gone(headAdm)
         /\ recorded \/ Stopped(headAdm, ring, heardEnd, live, roll)
         /\ recorded \/ reports[head] = <<>>
  <2> SUFFICES ASSUME head # Nobody
               PROVE  /\ head \in Passages /\ headAdm \in 1..Len(roll) /\ roll[headAdm] = head
                      /\ Gone(headAdm)
                      /\ recorded \/ Stopped(headAdm, ring, heardEnd, live, roll)
                      /\ recorded \/ reports[head] = <<>>
    OBVIOUS
  <2>1. /\ headAdm \in 1..Len(roll) /\ roll[headAdm] = head /\ Gone(headAdm)
        /\ recorded \/ Stopped(headAdm, ring, heardEnd, live, roll)
    BY <1>1, <1>2, HeadGone
  <2>2. recorded \/ reports[head] = <<>>
    BY <1>1, <2>1 DEF JudgedAreGone
  <2>3. head \in Passages
    BY DEF TypeOK
  <2>4. QED
    BY <2>1, <2>2, <2>3
<1>5. /\ y \in Passages \cup {Nobody} /\ reports \in Reports /\ told \in Reports
      /\ s \in Reported /\ e \in Reported /\ s.verdict = "skipped" /\ e.verdict = "played"
  <2>1. heard + HeadTail \in Nat
    <3>1. heard \in Nat /\ HeadTail \in Nat
      BY TailTyped DEF TypeOK
    <3>2. QED
      BY <3>1
  <2>2. reports \in Reports
    BY DEF TypeOK, Reports, Reported
  <2>3. Unjudged => head \in Passages
    BY <1>4 DEF Unjudged
  <2>4. "skipped" \in Verdicts /\ "played" \in Verdicts
    BY DEF Verdicts
  <2>5. told \in Reports
    BY <2>1, <2>2, <2>3, <2>4, ToldTyped
  <2>6. s \in Reported /\ e \in Reported
    BY <2>1, <2>4 DEF Reported
  <2>7. QED
    BY <2>2, <2>5, <2>6, PassageHeardTyped
<1>6. \A z \in Passages :
         told[z] = IF z = head /\ Unjudged THEN Append(reports[z], s) ELSE reports[z]
  <2>1. CASE Unjudged
    <3>1. told = [reports EXCEPT ![head] = Append(@, s)] /\ head \in Passages
      BY <1>4, <2>1 DEF Told, Unjudged
    <3>2. reports \in [Passages -> Seq(Reported)]
      BY <1>5 DEF Reports
    <3> HIDE DEF s, told
    <3>3. QED
      BY <2>1, <3>1, <3>2
  <2>2. CASE ~Unjudged
    BY <2>2
  <2>3. QED
    BY <2>1, <2>2
<1> HIDE DEF told
<1>7. /\ heard' = 0 /\ (y = Nobody => ~recorded') /\ (y # Nobody => recorded' \/ heard' < Half(y))
      /\ \A z \in Passages : IF z = y /\ recorded' THEN reports'[z] = Append(told[z], e)
                             ELSE reports'[z] = told[z]
  <2>1. 0 \in Nat /\ FALSE \in BOOLEAN
    OBVIOUS
  <2>2. /\ heard' = 0 /\ (y = Nobody => recorded' = FALSE)
        /\ (y # Nobody => recorded' \/ heard' < Half(y))
        /\ \A z \in Passages :
              IF z = y /\ ~FALSE /\ recorded' THEN reports'[z] = Append(told[z], e)
              ELSE reports'[z] = told[z]
    BY <1>2, <1>5, <2>1, CreditSays
  <2>3. QED
    BY <2>2
<1> HIDE DEF s, e
<1>8. Unjudged <=> head # Nobody /\ ~recorded
  BY <1>1 DEF Unjudged
<1>9. \A z \in Passages :
         \/ z # head /\ z # y /\ NothingSaid(z)
         \/ z = head /\ z # y /\ recorded /\ NothingSaid(z)
         \/ z = head /\ z # y /\ ~recorded /\ Answered(z, "skipped")
         \/ z = y /\ z # head /\ ~recorded' /\ NothingSaid(z)
         \/ z = y /\ z # head /\ recorded' /\ Answered(z, "played")
  <2> TAKE z \in Passages
  <2>0. z # Nobody
    BY NobodyAssumption
  <2>1. CASE z # head /\ z # y
    <3>1. reports'[z] = reports[z]
      BY <1>6, <1>7, <2>1
    <3>2. QED
      BY <2>1, <3>1, SaidNothing
  <2>2. CASE z = head
    <3>1. z # y /\ head # Nobody /\ reports'[z] = told[z]
      BY <1>2, <1>7, <2>0, <2>2
    <3>2. CASE recorded
      <4>1. reports'[z] = reports[z]
        BY <1>6, <1>8, <3>1, <3>2
      <4>2. QED
        BY <2>2, <3>1, <3>2, <4>1, SaidNothing
    <3>3. CASE ~recorded
      <4>1. reports'[z] = Append(reports[z], s) /\ reports[z] = <<>>
        BY <1>4, <1>6, <1>8, <2>2, <3>1, <3>3
      <4>2. Answered(z, s.verdict)
        BY <1>5, <4>1, SaidFirst
      <4>3. QED
        BY <1>5, <2>2, <3>1, <3>3, <4>2
    <3>4. QED
      BY <3>2, <3>3
  <2>3. CASE z = y
    <3>1. z # head /\ told[z] = reports[z] /\ reports[z] = <<>>
      BY <1>2, <1>3, <1>6, <2>0, <2>3
    <3>2. CASE recorded'
      <4>1. reports'[z] = Append(reports[z], e)
        BY <1>7, <2>3, <3>1, <3>2
      <4>2. Answered(z, e.verdict)
        BY <1>5, <3>1, <4>1, SaidFirst
      <4>3. QED
        BY <1>5, <2>3, <3>1, <3>2, <4>2
    <3>3. CASE ~recorded'
      <4>1. reports'[z] = reports[z]
        BY <1>7, <2>3, <3>1, <3>3
      <4>2. QED
        BY <2>3, <3>1, <3>3, <4>1, SaidNothing
    <3>4. QED
      BY <3>2, <3>3
  <2>4. QED
    BY <2>1, <2>2, <2>3
<1>10. \A a \in 1..Len(roll) : roll[a] = head => a = headAdm /\ head # Nobody
  <2> TAKE a \in 1..Len(roll)
  <2>1. roll[a] \in Passages
    BY RollFacts
  <2>2. roll[a] = head => head # Nobody
    BY <2>1, NobodyAssumption
  <2>3. QED
    BY <1>1, <1>4, <2>2 DEF Distinct
<1> HIDE DEF x, y
<1>11. Whole' /\ Lined'
  BY <1>1, <1>2, LookLeaves
<1>12. Current'
  <2> SUFFICES ASSUME y # Nobody
               PROVE  /\ x \in 1..Len(roll) /\ roll[x] = y /\ HeardOf(headAdm)'
                      /\ heardFrom' \in Nat /\ heardFrom' <= heardEnd[x]
                      /\ heardEnd[x] <= heardFrom' + 0 /\ heardFrom' <= heard' + 1
                      /\ recorded' \/ heard' < Half(y)
    BY <1>2 DEF Current
  <2>1. /\ x \in 1..Len(roll) /\ roll[x] = y /\ heardEnd[x] \in Nat /\ HeardOf(x)
        /\ heardEnd[x] <= 1 /\ heardFrom' = heardEnd[x]
    BY <1>2, <1>3
  <2>2. HeardOf(headAdm)'
    BY <1>2, <2>1 DEF HeardOf, Covering
  <2>3. heardFrom' <= heardEnd[x] /\ heardEnd[x] <= heardFrom' + 0 /\ heardFrom' <= heard' + 1
    BY <1>7, <2>1
  <2>4. QED
    BY <1>7, <2>1, <2>2, <2>3
<1>13. Noticed'
  <2>1. ASSUME NEW a \in 1..Len(roll), Met(a)
        PROVE  Met(a)'
    <3>1. roll[a] \in Passages
      BY RollFacts
    <3>2. CASE reports[roll[a]] # <<>>
      <4>1. reports'[roll[a]] # <<>>
        BY <1>9, <3>1, <3>2 DEF NothingSaid, Answered
      <4>2. QED
        BY <1>2, <4>1 DEF Met
    <3>3. CASE head = roll[a]
      <4>1. recorded => reports[roll[a]] # <<>>
        BY <1>1, <1>10, <3>3 DEF RecordedIsTold
      <4>2. reports'[roll[a]] # <<>>
        BY <1>2, <1>9, <3>1, <3>3, <4>1 DEF NothingSaid, Answered
      <4>3. QED
        BY <1>2, <4>2 DEF Met
    <3>4. QED
      BY <2>1, <3>2, <3>3 DEF Met
  <2>2. head' = PassageHeard
    BY <1>2 DEF y
  <2>3. UNCHANGED <<roll, live, output>>
    BY <1>2
  <2>4. QED
    BY <1>1, <1>2, <2>1, <2>2, <2>3, LookNotices
<1>14. Settled'
  <2>1. \A p \in Passages :
           \/ NothingSaid(p)
           \/ Answered(p, "played") /\ p = PassageHeard /\ recorded'
           \/ /\ Answered(p, "skipped") /\ p = head /\ p # PassageHeard
              /\ \A a \in 1..Len(roll) : roll[a] = p => Stopped(a, ring, heardEnd, live, roll)
    <3> TAKE p \in Passages
    <3>1. CASE p = head /\ p # y /\ ~recorded /\ Answered(p, "skipped")
      BY <1>4, <1>10, <3>1 DEF y
    <3>2. QED
      BY <1>9, <3>1 DEF y
  <2>2. \A a \in 1..Len(roll) : roll[a] = head /\ head # PassageHeard => Gone(a)
    BY <1>4, <1>10
  <2>3. PassageHeard # head => \A p \in Passages : p = PassageHeard => reports[p] = <<>>
    BY <1>3, NobodyAssumption DEF y
  <2>4. PassageHeard = head /\ recorded => recorded'
    BY <1>2 DEF y
  <2>5. PassageHeard # Nobody /\ recorded' => reports'[PassageHeard] # <<>>
    <3> SUFFICES ASSUME y # Nobody, recorded' PROVE reports'[y] # <<>>
      BY DEF y
    <3>1. y \in Passages
      BY <1>3
    <3>2. Answered(y, "played")
      BY <1>2, <1>9, <3>1
    <3>3. QED
      BY <3>2 DEF Answered
  <2>6. \A p \in Passages : p = head \/ p = PassageHeard => \E a \in 1..Len(roll) : roll[a] = p
    <3> TAKE p \in Passages
    <3>1. p # Nobody
      BY NobodyAssumption
    <3>2. CASE p = head
      BY <1>4, <3>1, <3>2
    <3>3. CASE p = y
      BY <1>3, <3>1, <3>3
    <3>4. QED
      BY <3>2, <3>3 DEF y
  <2>7. UNCHANGED <<queue, roll, live, output, offered>> /\ head' = PassageHeard
    BY <1>2 DEF y
  <2>8. QED
    BY <1>1, <2>1, <2>2, <2>3, <2>4, <2>5, <2>6, <2>7, LookSettles
<1>15. QED
  BY <1>11, <1>12, <1>13, <1>14 DEF Answering

LEMMA LookOnAnswers ==
    ASSUME Roomy, TypeOK, TypeOK', Lying, HasHeard, Answering, LookOn
    PROVE  Answering'
<1> DEFINE x == HeardNow.adm
           from == ComparableFrom
           moved == IF from # Nowhere /\ HeardNow.at > from THEN HeardNow.at - from ELSE 0
           units == IF head = Nobody THEN heard ELSE heard + moved
           e == [verdict |-> "played", heard |-> units]
<1>1. /\ Whole /\ Lined /\ Current /\ Noticed /\ Settled
      /\ ~handingOver /\ countedElsewhere = Nobody /\ unlooked \in {0, 1}
      /\ Distinct(roll, queue) /\ FromTheStart(ring, heardEnd, live, roll)
      /\ JudgedAreGone /\ RecordedIsTold
  BY DEF Answering, Whole, Noticed, Settled
<1>2. /\ pc = "look" /\ playing /\ head = PassageHeard /\ pc' = "show"
      /\ headAdm' = x /\ Credited(head, units, recorded, reports)
      /\ heardFrom' = IF head = Nobody THEN heardFrom ELSE HeardNow.at
      /\ unlooked' = 0
      /\ UNCHANGED <<queue, mixer, playing, output, head, active, listened, offered, live, roll,
                     ring, heardEnd, handingOver, countedElsewhere>>
  BY DEF LookOn, mixer, output, handover
<1>3. head # Nobody =>
         /\ x \in 1..Len(roll) /\ x = headAdm /\ roll[x] = head /\ head \in Passages
         /\ HeardNow.at = heardEnd[x] /\ heardEnd[x] \in Nat /\ HeardOf(x)
         /\ heardFrom \in Nat /\ heardFrom <= heardEnd[x] /\ heardFrom <= heard + 1
         /\ from = heardFrom
         /\ recorded \/ reports[head] = <<>>
  <2> SUFFICES ASSUME head # Nobody
               PROVE  /\ x \in 1..Len(roll) /\ x = headAdm /\ roll[x] = head /\ head \in Passages
                      /\ HeardNow.at = heardEnd[x] /\ heardEnd[x] \in Nat /\ HeardOf(x)
                      /\ heardFrom \in Nat /\ heardFrom <= heardEnd[x] /\ heardFrom <= heard + 1
                      /\ from = heardFrom
                      /\ recorded \/ reports[head] = <<>>
    OBVIOUS
  <2>1. /\ x \in 1..Len(roll) /\ roll[x] = head /\ head \in Passages
        /\ HeardNow.at = heardEnd[x] /\ heardEnd[x] \in Nat /\ HeardOf(x)
    BY <1>1, <1>2, FoundHeard
  <2>2. /\ headAdm \in 1..Len(roll) /\ roll[headAdm] = head
        /\ heardFrom \in Nat /\ heardFrom <= heardEnd[headAdm] /\ heardFrom <= heard + 1
    BY <1>1 DEF Current
  <2>3. x = headAdm
    BY <1>1, <2>1, <2>2 DEF Distinct
  <2>4. from = heardFrom
    BY <2>3 DEF ComparableFrom
  <2>5. recorded \/ reports[head] = <<>>
    BY <1>1, <2>1 DEF JudgedAreGone
  <2>6. QED
    BY <2>1, <2>2, <2>3, <2>4, <2>5
<1> HIDE DEF x, from
<1>4. heard \in Nat /\ recorded \in BOOLEAN /\ reports \in Reports /\ head \in Passages \cup {Nobody}
  BY DEF TypeOK, Reports, Reported
<1>5. units \in Nat /\ (head # Nobody => heardEnd[x] <= units + 1)
  <2>1. CASE head = Nobody
    BY <1>4, <2>1
  <2>2. CASE head # Nobody
    <3>1. from # Nowhere /\ units = heard + moved
      BY <1>3, <2>2 DEF Nowhere
    <3>2. CASE heardEnd[x] > heardFrom
      <4>1. moved = heardEnd[x] - heardFrom
        BY <1>3, <2>2, <3>1, <3>2
      <4> HIDE DEF moved, units
      <4>2. QED
        BY <1>3, <1>4, <2>2, <3>1, <4>1
    <3>3. CASE ~(heardEnd[x] > heardFrom)
      <4>1. moved = 0
        BY <1>3, <2>2, <3>1, <3>3
      <4> HIDE DEF moved, units
      <4>2. QED
        BY <1>3, <1>4, <2>2, <3>1, <3>3, <4>1
    <3>4. QED
      BY <3>2, <3>3
  <2>3. QED
    BY <2>1, <2>2
<1> HIDE DEF units, moved
<1>6. /\ heard' = units /\ (recorded => recorded') /\ (head = Nobody => recorded' = recorded)
      /\ (head # Nobody => recorded' \/ heard' < Half(head))
      /\ \A z \in Passages : IF z = head /\ ~recorded /\ recorded'
                             THEN reports'[z] = Append(reports[z], e)
                             ELSE reports'[z] = reports[z]
  BY <1>2, <1>4, <1>5, CreditSays
<1>7. e \in Reported /\ e.verdict = "played"
  BY <1>5 DEF Reported, Verdicts
<1> HIDE DEF e
<1>8. \A z \in Passages :
         \/ NothingSaid(z) /\ ~(z = head /\ ~recorded /\ recorded')
         \/ z = head /\ ~recorded /\ recorded' /\ Answered(z, "played")
  <2> TAKE z \in Passages
  <2>1. CASE z = head /\ ~recorded /\ recorded'
    <3>1. reports[z] = <<>> /\ reports'[z] = Append(reports[z], e)
      BY <1>3, <1>6, <2>1, NobodyAssumption
    <3>2. Answered(z, e.verdict)
      BY <1>7, <3>1, SaidFirst
    <3>3. QED
      BY <1>7, <2>1, <3>2
  <2>2. CASE ~(z = head /\ ~recorded /\ recorded')
    <3>1. reports'[z] = reports[z]
      BY <1>6, <2>2
    <3>2. QED
      BY <2>2, <3>1, SaidNothing
  <2>3. QED
    BY <2>1, <2>2
<1>9. Whole' /\ Lined'
  BY <1>1, <1>2, LookLeaves
<1>10. Current'
  <2> SUFFICES ASSUME head # Nobody
               PROVE  /\ x \in 1..Len(roll) /\ roll[x] = head /\ HeardOf(headAdm)'
                      /\ heardFrom' \in Nat /\ heardFrom' <= heardEnd[x]
                      /\ heardEnd[x] <= heardFrom' + 0 /\ heardFrom' <= heard' + 1
                      /\ recorded' \/ heard' < Half(head)
    BY <1>2 DEF Current
  <2>1. heardFrom' = heardEnd[x] /\ heardEnd[x] \in Nat /\ x \in 1..Len(roll) /\ roll[x] = head
    BY <1>2, <1>3
  <2>2. HeardOf(headAdm)'
    <3>1. HeardOf(x)
      BY <1>3
    <3>2. QED
      BY <1>2, <3>1 DEF HeardOf, Covering
  <2>3. heardFrom' <= heardEnd[x] /\ heardEnd[x] <= heardFrom' + 0 /\ heardFrom' <= heard' + 1
    BY <1>5, <1>6, <2>1
  <2>4. QED
    BY <1>6, <2>1, <2>2, <2>3
<1>11. Noticed'
  <2>1. ASSUME NEW a \in 1..Len(roll), Met(a)
        PROVE  Met(a)'
    <3>1. roll[a] \in Passages
      BY RollFacts
    <3>2. reports[roll[a]] # <<>> => reports'[roll[a]] # <<>>
      BY <1>8, <3>1 DEF NothingSaid, Answered
    <3>3. QED
      BY <1>2, <2>1, <3>2 DEF Met
  <2>2. head' = PassageHeard
    BY <1>2
  <2>3. UNCHANGED <<roll, live, output>>
    BY <1>2
  <2>4. QED
    BY <1>1, <1>2, <2>1, <2>2, <2>3, LookNotices
<1>12. Settled'
  <2>1. \A p \in Passages :
           \/ NothingSaid(p)
           \/ Answered(p, "played") /\ p = PassageHeard /\ recorded'
    BY <1>2, <1>8
  <2>2. PassageHeard # Nobody /\ recorded' => reports'[PassageHeard] # <<>>
    <3> SUFFICES ASSUME head # Nobody, recorded' PROVE reports'[head] # <<>>
      BY <1>2
    <3>1. head \in Passages
      BY <1>3
    <3>2. CASE recorded
      <4>1. reports[head] # <<>> /\ NothingSaid(head)
        BY <1>1, <1>8, <3>1, <3>2 DEF RecordedIsTold
      <4>2. QED
        BY <4>1 DEF NothingSaid
    <3>3. CASE ~recorded
      <4>1. Answered(head, "played")
        BY <1>8, <3>1, <3>3
      <4>2. QED
        BY <4>1 DEF Answered
    <3>4. QED
      BY <3>2, <3>3
  <2>3. \A p \in Passages : p = head \/ p = PassageHeard => \E a \in 1..Len(roll) : roll[a] = p
    <3> TAKE p \in Passages
    <3>1. p # Nobody
      BY NobodyAssumption
    <3>2. QED
      BY <1>2, <1>3, <3>1
  <2>4. UNCHANGED <<queue, roll, live, output, offered>> /\ head' = PassageHeard
    BY <1>2
  <2>5. /\ \A a \in 1..Len(roll) : roll[a] = head /\ head # PassageHeard => Gone(a)
        /\ PassageHeard # head => \A p \in Passages : p = PassageHeard => reports[p] = <<>>
        /\ PassageHeard = head /\ recorded => recorded'
    BY <1>2, <1>6
  <2>6. QED
    BY <1>1, <2>1, <2>2, <2>3, <2>4, <2>5, LookSettles
<1>13. QED
  BY <1>9, <1>10, <1>11, <1>12 DEF Answering

-----------------------------------------------------------------------------
(* Every step keeps all of it.                                              *)

LEMMA StillAnswers ==
    ASSUME Answering, UNCHANGED vars
    PROVE  Answering'
<1>1. /\ UNCHANGED <<pc, queue, mixer, output, judgement, handover, history, playing, unlooked,
                     live, roll, pendingResume, ring, heardEnd, lastHeard, head, headAdm, heard,
                     heardFrom, recorded, handingOver, countedElsewhere, active, reports,
                     listened, offered>>
  BY DEF vars, mixer, output, judgement, handover, history
<1>2. Covering' = Covering
  BY <1>1 DEF Covering
<1>3. Whole'
  <2>1. AtHome' /\ Accounted(roll, heardEnd)' /\ FromTheStart(ring, heardEnd, live, roll)'
        /\ Distinct(roll, queue)'
    BY <1>1 DEF Answering, Whole, AtHome, Accounted, Distinct
  <2>2. QED
    BY <1>1, <2>1 DEF Answering, Whole
<1>4. Lined' /\ Current'
  BY <1>1, LinedStays, CurrentStays DEF Answering
<1>5. Noticed'
  BY <1>1, <1>2 DEF Answering, Noticed, Met, Sounds, AboutToBe
<1>6. \A a : Gone(a)' <=> Gone(a)
  BY <1>1, GoneStays
<1>7. Settled'
  BY <1>1, <1>6 DEF Answering, Settled, OnceJudged, JudgedWaitNoMore, DeclinedWereStopped,
                    JudgedAreGone, RecordedIsTold, NoneLost, Told1
<1>8. QED
  BY <1>3, <1>4, <1>5, <1>7 DEF Answering

LEMMA NextAnswers ==
    ASSUME Roomy, ListenersAsk, TypeOK, TypeOK', Credible, Credible', Held, Ordered, Ordered',
           Answering, [Next]_vars
    PROVE  Answering'
<1>1. /\ "shutdown" \notin Asks /\ "handoff" \notin Asks /\ "seek" \notin Asks /\ "crash" \notin Asks
  BY DEF ListenersAsk
<1>2. /\ Lying /\ Lying' /\ HasHeard /\ OnceEach
      /\ Topmost(live, roll) /\ Rising(ring, lastHeard) /\ Rising(ring', lastHeard')
      /\ active = "local" /\ pc # "down" /\ Shutdown \notin Items(queue)
  BY DEF Credible, Held, Ordered, Answering, Whole, AtHome
<1>3. CASE UNCHANGED vars
  BY <1>3, StillAnswers
<1>4. CASE Play \/ Pause \/ \E p \in Passages : Enqueue(p) \/ EnqueueNext(p)
  BY <1>4, EditsAnswer
<1>5. CASE Skip \/ \E p \in Passages : PlayNow(p)
  BY <1>2, <1>5, SkipsAnswer
<1>6. CASE EnqueueShutdown \/ HandOff \/ Crash \/ Prime
  BY <1>1, <1>2, <1>6 DEF EnqueueShutdown, Asking, HandOff, Crash, Prime
<1>7. ASSUME NEW i \in 1..(Cardinality(Passages) + 1),
             RemoveQueued(i) \/ \E delta \in {-1, 1} : ShiftQueued(i, delta)
      PROVE  Answering'
  BY <1>7, RemoveAnswers, EditsAnswer
<1>8. ASSUME NEW at \in SeekPoints,
             Seek(at) \/ \E k \in 1..Cardinality(Passages) : HandBack(k, at)
      PROVE  Answering'
  BY <1>1, <1>2, <1>8 DEF Seek, HandBack
<1>9. CASE Pass
  <2>1. CASE Mix
    BY <1>2, <2>1, MixAnswers
  <2>2. CASE LookPaused \/ Show \/ Persist \/ Refill
    BY <2>2, EditsAnswer
  <2>3. CASE LookDeparted
    BY <1>2, <2>3, LookDepartedAnswers
  <2>4. CASE LookOn
    BY <1>2, <2>4, LookOnAnswers
  <2>5. CASE ExecuteShutdown
    <3>1. queue # <<>> /\ Head(queue) = Shutdown
      BY <2>5 DEF ExecuteShutdown, ShutdownDue, NextIsShutdown
    <3>2. queue \in Seq(Passages \cup {Shutdown}) /\ Once(queue)
      BY <1>2 DEF TypeOK, IsQueue, OnceEach
    <3>3. Head(queue) \in Items(queue)
      BY <3>1, <3>2, OnceTail
    <3>4. QED
      BY <1>2, <3>1, <3>3
  <2>6. QED
    BY <1>9, <2>1, <2>2, <2>3, <2>4, <2>5 DEF Pass
<1>10. CASE DeviceTakes
  BY <1>2, <1>10, DeviceAnswers
<1>11. QED
  BY <1>3, <1>4, <1>5, <1>6, <1>7, <1>8, <1>9, <1>10 DEF Next

LEMMA InitAnswers == ASSUME Init PROVE Answering
<1>1. /\ queue = <<>> /\ live = {} /\ roll = <<>> /\ ring = <<>> /\ heardEnd = <<>>
      /\ lastHeard = 0 /\ head = Nobody /\ ~handingOver /\ countedElsewhere = Nobody
      /\ active = "local" /\ pc = "commands" /\ pendingResume = Nowhere /\ unlooked = 0
      /\ offered = {} /\ \A p \in Passages : reports[p] = <<>> /\ listened[p] = 0
  BY DEF Init
<1>2. /\ Items(queue) = {} /\ 1..Len(roll) = {} /\ 1..Len(ring) = {}
  BY <1>1 DEF Items
<1>3. Whole
  BY <1>1, <1>2 DEF Whole, AtHome, Distinct, Accounted, FromTheStart
<1>4. Lined
  BY <1>1, <1>2 DEF Lined, Inside, Apart, Passed, ToBeHeard
<1>5. Current /\ Noticed
  BY <1>1, <1>2 DEF Current, Noticed
<1>6. Settled
  <2>1. \A p \in Passages : Len(reports[p]) <= 1 /\ ~Told1(p, "skipped")
    BY <1>1 DEF Told1
  <2>2. QED
    BY <1>1, <1>2, <2>1 DEF Settled, OnceJudged, JudgedWaitNoMore, DeclinedWereStopped,
                            JudgedAreGone, RecordedIsTold, NoneLost
<1>7. QED
  BY <1>3, <1>4, <1>5, <1>6 DEF Answering

-----------------------------------------------------------------------------
(* What follows of the verdicts.                                            *)

\* All that is assumed of every reachable state.
AllInOrder == TypeOK /\ Credible /\ Held /\ (FrontLeftAlone => Resuming) /\ Ordered /\ Answering

LEMMA AlwaysAnswering ==
    ASSUME Roomy, ListenersAsk
    PROVE  Spec => []AllInOrder
<1>1. "seek" \notin Asks /\ CutsAreCovered /\ SeeksHaveTheMixer
  BY RoomToCut DEF ListenersAsk
<1>2. Init => AllInOrder
  <2>1. Init => Resuming
    BY DEF Init, Resuming, Pending
  <2>2. QED
    BY <2>1, InitShape, InitCredible, InitHeld, InitOrdered, InitAnswers DEF AllInOrder
<1>3. AllInOrder /\ [Next]_vars => AllInOrder'
  <2> SUFFICES ASSUME AllInOrder, [Next]_vars PROVE AllInOrder'
    OBVIOUS
  <2>0. TypeOK /\ Credible /\ Held /\ (FrontLeftAlone => Resuming) /\ Ordered /\ Answering
    BY DEF AllInOrder
  <2>1. TypeOK' /\ Credible' /\ Held'
    BY <1>1, <2>0, NextKeepsShape, NextKeepsCredit, NextHeld
  <2>2. FrontLeftAlone => Resuming'
    BY <2>0, NextResumes DEF Held
  <2>3. Ordered'
    BY <1>1, <2>0, <2>1, NextOrdered DEF Credible, Held
  <2>4. Answering'
    BY <2>0, <2>1, <2>3, NextAnswers
  <2>5. QED
    BY <2>1, <2>2, <2>3, <2>4 DEF AllInOrder
<1>4. QED
  BY <1>2, <1>3, PTL DEF Spec

LEMMA NoneVanishes ==
    ASSUME TypeOK, Answering
    PROVE  NothingVanishes
<1> SUFFICES ASSUME NEW p \in offered, reports[p] = <<>>
             PROVE  p \in InQueue \cup LivePassages \cup InRing \cup {head}
  BY DEF NothingVanishes, Coming
<1>1. CASE p \in Items(queue)
  <2>1. p # Shutdown
    BY PassagesAssumption DEF TypeOK
  <2>2. QED
    BY <1>1, <2>1 DEF InQueue, Items
<1>2. ASSUME NEW a \in 1..Len(roll), roll[a] = p
      PROVE  p \in LivePassages \cup InRing \cup {head}
  <2>1. Met(a) \/ Within(a, live) \/ Sounds(a)
    BY DEF Answering, Noticed
  <2>2. CASE Met(a)
    BY <1>2, <2>2 DEF Met
  <2>3. CASE Within(a, live)
    BY <1>2, <2>3 DEF LivePassages, Within
  <2>4. CASE Sounds(a)
    <3>1. Covering # {} /\ Latest(Covering) \in Covering /\ Latest(Covering).adm = a
      BY <2>4, LatestOfCovering DEF Sounds
    <3>2. ring # <<>>
      BY <3>1, FrontOfRing
    <3>3. Covering = ring[1] /\ Len(ring) \in Nat /\ Len(ring) > 0
      BY <3>2, FrontOfRing
    <3>4. 1 \in 1..Len(ring)
      BY <3>3
    <3>5. p \in {roll[c.adm] : c \in ring[1]}
      BY <1>2, <3>1, <3>3
    <3>6. QED
      BY <3>4, <3>5 DEF InRing
  <2>5. QED
    BY <2>1, <2>2, <2>3, <2>4
<1>3. QED
  BY <1>1, <1>2 DEF Answering, Settled, NoneLost

LEMMA EachIsJudgedOnce ==
    ASSUME TypeOK, Answering
    PROVE  OneVerdict
<1>1. /\ OnceJudged /\ JudgedWaitNoMore /\ JudgedAreGone
  BY DEF Answering, Settled
<1>2. ASSUME NEW p \in Passages, reports[p] # <<>>, ~Told1(p, "played"), p \in Coming
      PROVE  FALSE
  <2>1. p \notin InQueue
    BY <1>1, <1>2 DEF JudgedWaitNoMore, InQueue, Items
  <2>2. PICK c \in live : roll[c.adm] = p
    BY <1>2, <2>1 DEF Coming, LivePassages
  <2>3. c.adm \in 1..Len(roll) /\ Within(c.adm, live)
    BY <2>2, RollFacts DEF IsMixer, Within
  <2>4. QED
    BY <1>1, <1>2, <2>2, <2>3 DEF JudgedAreGone
<1>3. QED
  BY <1>1, <1>2 DEF OneVerdict, OnceJudged

LEMMA DeclinedWereCutShort ==
    ASSUME TypeOK, Answering
    PROVE  OnlyStoppedIsSkipped
<1> SUFFICES ASSUME NEW p \in Passages, Told1(p, "skipped") PROVE listened[p] < Length[p]
  BY DEF OnlyStoppedIsSkipped
<1>1. PICK a \in 1..Len(roll) : roll[a] = p /\ Stopped(a, ring, heardEnd, live, roll)
  BY DEF Answering, Settled, DeclinedWereStopped
<1>2. listened[p] = heardEnd[a]
  BY <1>1 DEF Answering, Whole, Accounted
<1>3. heardEnd[a] <= Length[p] /\ heardEnd[a] # Length[p]
  BY <1>1 DEF Answering, Lined, Inside, Stopped, Ended
<1>4. heardEnd[a] \in Nat /\ Length[p] \in Nat
  BY <1>1, HeardEndOf, LengthOf
<1>5. QED
  BY <1>2, <1>3, <1>4

(* Nothing that was queued is lost sight of, through play, pause, skips,    *)
(* passages chosen to come next or now and taken out again: it waits, is    *)
(* being mixed, is still to be heard, is being judged, or has had its       *)
(* verdict (skip, admit_due, prepare_next, record_play).                    *)
THEOREM EverythingIsAccountedFor ==
    ASSUME Roomy, ListenersAsk
    PROVE  Spec => []NothingVanishes
<1>1. AllInOrder => NothingVanishes
  BY NoneVanishes DEF AllInOrder
<1>2. QED
  BY <1>1, AlwaysAnswering, PTL

(* A passage is judged once, and one that was turned down or dropped is not *)
(* still to come: the judgement of what departs, the drop of what a skip    *)
(* takes away unheard and the removal from the queue never meet in one      *)
(* passage (skip, record_play, RemoveQueued).                               *)
THEOREM VerdictsAreFinal ==
    ASSUME Roomy, ListenersAsk
    PROVE  Spec => []OneVerdict
<1>1. AllInOrder => OneVerdict
  BY EachIsJudgedOnce DEF AllInOrder
<1>2. QED
  BY <1>1, AlwaysAnswering, PTL

(* A passage heard to its end is a play: it is credited with all but the    *)
(* unit it was found at and the unit that passed since the last look, and   *)
(* that is enough for a play wherever half of it is two units short of the  *)
(* whole ([SPEC-PLAY-055], record_play).                                    *)
THEOREM HeardOutIsNoSkip ==
    ASSUME Roomy, ListenersAsk
    PROVE  Spec => []OnlyStoppedIsSkipped
<1>1. AllInOrder => OnlyStoppedIsSkipped
  BY DeclinedWereCutShort DEF AllInOrder
<1>2. QED
  BY <1>1, AlwaysAnswering, PTL
=============================================================================
