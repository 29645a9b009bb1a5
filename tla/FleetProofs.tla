----------------------------- MODULE FleetProofs -----------------------------
(***************************************************************************)
(* Theorems about the fleet's synchronization, for any appliances, phones, *)
(* numbers of edits, runs and faults.                                      *)
(***************************************************************************)
EXTENDS Fleet, FiniteSetTheorems, TLAPS

Works == [id : 1 .. AtOnce, run : Runs, step : {"catalogue", "listener", "record"},
          wrote : BOOLEAN, was : Rows, now : Rows, catWas : Times, catNow : Times]

\* A run, of which the hub is always part.
Stars == {s \in
         [run : 0 .. MaxRuns, stage : {"none", "taking", "merged", "shared", "refused"},
          took : SUBSET Nodes, taken : [Nodes -> Rows], cats : [Stocked -> Times],
          seen : [Nodes -> Times], merged : Rows, left : SUBSET Nodes, landed : SUBSET Nodes,
          waiting : Nodes \cup {NoOne}, quiet : BOOLEAN] :
            s.stage = "none" \/ Hub \in s.took}

Halves == [run : 0 .. MaxRuns, catalogue : {"untouched", "in", "out"},
           listener : {"untouched", "in"}]

Histories == [newest : Times, actors : SUBSET Nodes, shared : Nat,
              torn : SUBSET Appliances, halves : [Appliances -> Halves]]

Uploads == [row : Rows, at : Times, seen : Times]
Visits == [step : {"away", "tell", "upload"}, run : 0 .. MaxRuns]

\* What each variable is.
Types ==
    /\ clock \in Times /\ faults \in 0 .. MaxFaults
    /\ held \in [Nodes -> Rows] /\ cat \in [Stocked -> Times]
    /\ star \in Stars
    /\ sent \in [Nodes -> Times] /\ upload \in [Phones -> Uploads]
    /\ outbox \in [Phones -> Patches] /\ phone \in [Phones -> Visits]
    /\ work \in [Appliances -> SUBSET Works]
    /\ lastRun \in [Appliances -> 0 .. MaxRuns]
    /\ history \in Histories

LEMMA Bounded ==
    /\ MaxEdits \in Nat /\ MaxRuns \in Nat /\ MaxFaults \in Nat /\ AtOnce \in Nat \ {0}
    /\ 0 \in Times /\ Blank \in Rows /\ NoPatch \in Patches
    /\ Hub \in Nodes /\ Hub \in Stocked /\ Appliances \subseteq Nodes
    /\ Appliances \subseteq Stocked /\ Phones \subseteq Nodes /\ Stocked \subseteq Nodes
BY FleetAssumption, BoundsAssumption
   DEF Times, Blank, Rows, NoPatch, Patches, Nodes, Stocked

LEMMA InitTyped == Init => Types
BY Bounded DEF Init, Types, Stars, Uploads, Visits, Histories, Halves, Untouched, Away, Works

\* The larger of two stamps, or of any number of them, is one of them.
LEMMA LeastOfAny ==
    ASSUME NEW T, T \subseteq Nat, T # {}
    PROVE  \E x \in T : \A y \in T : x <= y
<1> DEFINE R == StrictSubsetOrdering(Nat)
           below == {1..x : x \in T}
<1>1. IsWellFoundedOn(R, FiniteSubsetsOf(Nat))
  BY FS_StrictSubsetOrderingWellFounded
<1>2. below \subseteq FiniteSubsetsOf(Nat) /\ below # {}
  <2>1. \A x \in T : 1..x \in SUBSET Nat /\ IsFiniteSet(1..x)
    BY FS_Interval
  <2>2. QED
    BY <2>1 DEF FiniteSubsetsOf
<1> HIDE DEF R, below
<1>3. PICK b \in below : \A c \in below : ~(<<c, b>> \in R)
  BY <1>1, <1>2, WFMin
<1>4. PICK x \in T : b = 1..x
  BY DEF below
<1>5. ASSUME NEW y \in T, ~(x <= y)
      PROVE  FALSE
  <2>1. x \in Nat /\ y \in Nat
    OBVIOUS
  <2>2. 1..y \subseteq 1..x /\ 1..y # 1..x
    <3>1. x \in 1..x /\ x \notin 1..y
      BY <1>5, <2>1
    <3>2. \A k \in 1..y : k \in 1..x
      BY <1>5, <2>1
    <3>3. QED
      BY <3>1, <3>2
  <2>3. <<1..y, 1..x>> \in R
    BY <2>1, <2>2 DEF R, StrictSubsetOrdering
  <2>4. 1..y \in below
    BY DEF below
  <2>5. QED
    BY <1>3, <1>4, <2>3, <2>4
<1>6. QED
  BY <1>5

LEMMA MaxOfStamps ==
    ASSUME NEW S, S \subseteq Times, S # {}
    PROVE  Max(S) \in S /\ \A y \in S : y <= Max(S)
<1> DEFINE T == {MaxEdits - s : s \in S}
<1>1. T \subseteq Nat /\ T # {}
  BY Bounded DEF Times
<1> HIDE DEF T
<1>2. PICK x \in T : \A y \in T : x <= y
  BY <1>1, LeastOfAny
<1>3. PICK s \in S : x = MaxEdits - s
  BY DEF T
<1>4. \A y \in S : y <= s
  <2> TAKE y \in S
  <2>1. MaxEdits - y \in T
    BY DEF T
  <2>2. MaxEdits - s <= MaxEdits - y
    BY <1>2, <1>3, <2>1
  <2>3. QED
    BY <2>2, Bounded DEF Times
<1>5. \E z \in S : \A y \in S : z >= y
  BY <1>4, Bounded DEF Times
<1>6. Max(S) \in S /\ \A y \in S : Max(S) >= y
  BY <1>5 DEF Max
<1>7. QED
  BY <1>6, Bounded DEF Times

LEMMA MemberTyped ==
    ASSUME NEW cur \in Rows, NEW patch, patch.was \in Rows, patch.now \in Rows
    PROVE  /\ Member(cur, patch) \in Rows
           /\ Member(cur, patch).pref = IF cur.pref = patch.was.pref THEN patch.now.pref ELSE cur.pref
BY DEF Member, Rows

LEMMA MergeTyped ==
    ASSUME Types, star.took # {}, NEW stamp \in Unions
    PROVE  /\ stamp \in Times
           /\ Merge(stamp) \in Rows
           /\ \A n \in star.took : star.taken[n].pref <= Merge(stamp).pref
           /\ \E n \in star.took : Merge(stamp).pref = star.taken[n].pref
<1> DEFINE prefs == {star.taken[n].pref : n \in star.took}
<1>1. star.took \subseteq Nodes /\ star.taken \in [Nodes -> Rows]
  BY DEF Types, Stars
<1>2. prefs \subseteq Times /\ prefs # {}
  BY <1>1 DEF Rows
<1>3. Max(prefs) \in prefs /\ \A y \in prefs : y <= Max(prefs)
  BY <1>2, MaxOfStamps
<1>4. stamp \in Times
  BY <1>1, Bounded DEF Unions, Rows
<1>5. Merge(stamp).pref = Max(prefs) /\ Merge(stamp) \in Rows
  BY <1>2, <1>3, <1>4, Bounded DEF Merge, Rows
<1>6. QED
  BY <1>3, <1>4, <1>5

\* What the hub makes of the end of a piece of work keeps the run and the evidence
\* what they are.
LEMMA AnswerTyped ==
    ASSUME Types, NEW n \in Nodes
    PROVE  /\ Landed(n) => star' \in Stars /\ sent' \in [Nodes -> Times]
           /\ NotLanded(n) => star' \in Stars /\ sent' = sent
<1>1. star \in Stars /\ sent \in [Nodes -> Times] /\ SeenAt(star.merged) \in Times
  BY Bounded DEF Types, SeenAt
<1>2. [star EXCEPT !.left = @ \ {n}, !.landed = @ \cup {n}, !.waiting = NoOne] \in Stars
  BY <1>1 DEF Stars
<1>3. [star EXCEPT !.left = @ \ {n}, !.waiting = NoOne] \in Stars
  BY <1>1 DEF Stars
<1>4. QED
  BY <1>1, <1>2, <1>3 DEF Landed, NotLanded

\* So does what is remembered of the two halves of a run.
LEMMA HalvesTyped ==
    ASSUME history \in Histories, NEW a \in Appliances,
           NEW c \in {"untouched", "in", "out"}, NEW l \in {"untouched", "in"}
    PROVE  /\ history.halves[a] \in Halves
           /\ history.halves[a].catalogue \in {"untouched", "in", "out"}
           /\ history.halves[a].listener \in {"untouched", "in"}
           /\ [history EXCEPT !.halves[a].catalogue = c] \in Histories
           /\ [history EXCEPT !.halves[a].listener = l] \in Histories
           /\ \A s \in SUBSET Appliances :
                 [history EXCEPT !.halves[a].catalogue = c, !.torn = s] \in Histories
<1>1. history.halves \in [Appliances -> Halves] /\ history.halves[a] \in Halves
  BY DEF Histories
<1>2. /\ [history.halves[a] EXCEPT !.catalogue = c] \in Halves
      /\ [history.halves[a] EXCEPT !.listener = l] \in Halves
      /\ history.halves[a].catalogue \in {"untouched", "in", "out"}
      /\ history.halves[a].listener \in {"untouched", "in"}
  BY <1>1 DEF Halves
<1>3. /\ [history.halves EXCEPT ![a].catalogue = c] \in [Appliances -> Halves]
      /\ [history.halves EXCEPT ![a].listener = l] \in [Appliances -> Halves]
  BY <1>1, <1>2
<1>4. QED
  BY <1>1, <1>2, <1>3 DEF Histories

\* What the steps that make a run leave of its fields.
LEMMA RunFields ==
    ASSUME Types
    PROVE  /\ Edit =>
                /\ star' \in Stars /\ star'.run = star.run /\ star'.stage = star.stage
                /\ star'.took = star.took /\ star'.taken = star.taken /\ star'.left = star.left
                /\ star'.landed = star.landed /\ star'.waiting = star.waiting
                /\ star'.merged = star.merged
           /\ \A a \in Appliances : TakeAppliance(a) =>
                /\ star' \in Stars /\ star'.run = star.run /\ star'.stage = "taking"
                /\ star'.took = star.took \cup {a} /\ star'.left = star.left
                /\ star'.landed = star.landed /\ star'.waiting = star.waiting
                /\ star'.merged = star.merged
                /\ \A n \in Nodes : star'.taken[n] = IF n = a THEN held[a] ELSE star.taken[n]
           /\ \A p \in Phones : TakePhone(p) =>
                /\ star' \in Stars /\ star'.run = star.run /\ star'.stage = "taking"
                /\ star'.took = star.took \cup {p} /\ star'.left = star.left
                /\ star'.landed = star.landed /\ star'.waiting = star.waiting
                /\ star'.merged = star.merged
                /\ \A n \in Nodes :
                      star'.taken[n] = IF n = p THEN upload[p].row ELSE star.taken[n]
           /\ \A stamp : star' = [star EXCEPT !.stage = "merged", !.merged = Merge(stamp)] =>
                /\ Merge(stamp) \in Rows /\ Hub \in star.took => star' \in Stars
                /\ star'.run = star.run /\ star'.stage = "merged"
                /\ star'.took = star.took /\ star'.taken = star.taken /\ star'.left = star.left
                /\ star'.landed = star.landed /\ star'.waiting = star.waiting
                /\ star'.merged = Merge(stamp)
<1>a. /\ star \in Stars /\ held \in [Nodes -> Rows] /\ cat \in [Stocked -> Times]
      /\ upload \in [Phones -> Uploads]
  BY DEF Types
<1>1. ASSUME Edit
      PROVE  /\ star' \in Stars /\ star'.run = star.run /\ star'.stage = star.stage
             /\ star'.took = star.took /\ star'.taken = star.taken /\ star'.left = star.left
             /\ star'.landed = star.landed /\ star'.waiting = star.waiting
             /\ star'.merged = star.merged
  <2>1. star' = [star EXCEPT !.quiet = FALSE]
    BY <1>1 DEF Edit
  <2>2. QED
    BY <1>a, <2>1 DEF Stars
<1>2. ASSUME NEW a \in Appliances, TakeAppliance(a)
      PROVE  /\ star' \in Stars /\ star'.run = star.run /\ star'.stage = "taking"
             /\ star'.took = star.took \cup {a} /\ star'.left = star.left
             /\ star'.landed = star.landed /\ star'.waiting = star.waiting
             /\ star'.merged = star.merged
             /\ \A n \in Nodes : star'.taken[n] = IF n = a THEN held[a] ELSE star.taken[n]
  <2>1. PICK b \in BOOLEAN :
           star' = [star EXCEPT !.took = @ \cup {a}, !.taken[a] = held[a], !.cats[a] = cat[a],
                                !.quiet = b]
    BY <1>a, <1>2 DEF TakeAppliance, Stars
  <2>2. held[a] \in Rows /\ cat[a] \in Times /\ a \in Nodes /\ a \in Stocked
    BY <1>a, Bounded
  <2>3. [star.taken EXCEPT ![a] = held[a]] \in [Nodes -> Rows]
    BY <1>a, <2>2 DEF Stars
  <2>4. [star.cats EXCEPT ![a] = cat[a]] \in [Stocked -> Times]
    BY <1>a, <2>2 DEF Stars
  <2>5. star.stage = "taking"
    BY <1>2 DEF TakeAppliance
  <2>6. star' \in Stars
    BY <1>a, <2>1, <2>2, <2>3, <2>4, <2>5 DEF Stars
  <2>7. QED
    BY <1>a, <2>1, <2>2, <2>5, <2>6 DEF Stars
<1>3. ASSUME NEW p \in Phones, TakePhone(p)
      PROVE  /\ star' \in Stars /\ star'.run = star.run /\ star'.stage = "taking"
             /\ star'.took = star.took \cup {p} /\ star'.left = star.left
             /\ star'.landed = star.landed /\ star'.waiting = star.waiting
             /\ star'.merged = star.merged
             /\ \A n \in Nodes :
                   star'.taken[n] = IF n = p THEN upload[p].row ELSE star.taken[n]
  <2>1. PICK b \in BOOLEAN :
           star' = [star EXCEPT !.took = @ \cup {p}, !.taken[p] = upload[p].row,
                                !.seen[p] = upload[p].seen, !.quiet = b]
    BY <1>a, <1>3 DEF TakePhone, Stars
  <2>2. upload[p].row \in Rows /\ upload[p].seen \in Times /\ p \in Nodes
    BY <1>a, Bounded DEF Uploads
  <2>3. [star.taken EXCEPT ![p] = upload[p].row] \in [Nodes -> Rows]
    BY <1>a, <2>2 DEF Stars
  <2>4. [star.seen EXCEPT ![p] = upload[p].seen] \in [Nodes -> Times]
    BY <1>a, <2>2 DEF Stars
  <2>5. star.stage = "taking"
    BY <1>3 DEF TakePhone
  <2>6. star' \in Stars
    BY <1>a, <2>1, <2>2, <2>3, <2>4, <2>5 DEF Stars
  <2>7. QED
    BY <1>a, <2>1, <2>2, <2>5, <2>6 DEF Stars
<1>4. ASSUME NEW stamp, star' = [star EXCEPT !.stage = "merged", !.merged = Merge(stamp)]
      PROVE  /\ Merge(stamp) \in Rows /\ Hub \in star.took => star' \in Stars
             /\ star'.run = star.run /\ star'.stage = "merged"
             /\ star'.took = star.took /\ star'.taken = star.taken /\ star'.left = star.left
             /\ star'.landed = star.landed /\ star'.waiting = star.waiting
             /\ star'.merged = Merge(stamp)
  <2> DEFINE row == Merge(stamp)
  <2>1. star' = [star EXCEPT !.stage = "merged", !.merged = row]
    BY <1>4
  <2> HIDE DEF row
  <2>2. /\ row \in Rows /\ Hub \in star.took => star' \in Stars
        /\ star'.run = star.run /\ star'.stage = "merged"
        /\ star'.took = star.took /\ star'.taken = star.taken /\ star'.left = star.left
        /\ star'.landed = star.landed /\ star'.waiting = star.waiting
        /\ star'.merged = row
    BY <1>a, <2>1 DEF Stars
  <2>3. QED
    BY <2>2 DEF row
<1>5. QED
  BY <1>1, <1>2, <1>3, <1>4

LEMMA TypesKept == ASSUME Types, [Next]_vars PROVE Types'
<1> USE Bounded
<1>1. CASE UNCHANGED vars
  BY <1>1 DEF vars, Types
<1>a. ASSUME Edit
      PROVE  /\ clock' \in Times /\ star' \in Stars
             /\ Types => faults' \in 0 .. MaxFaults /\ sent' \in [Nodes -> Times]
                  /\ upload' \in [Phones -> Uploads] /\ outbox' \in [Phones -> Patches]
                  /\ phone' \in [Phones -> Visits] /\ work' \in [Appliances -> SUBSET Works]
                  /\ lastRun' \in [Appliances -> 0 .. MaxRuns]
  <2>1. clock' \in Times
    BY <1>a DEF Edit, Times, Types
  <2>2. star' \in Stars
    BY <1>a, RunFields
  <2>3. QED
    BY <1>a, <2>1, <2>2 DEF Edit, Types
<1>2. ASSUME NEW n \in Nodes, SetPreference(n) PROVE Types'
  <2>1. held' \in [Nodes -> Rows]
    BY <1>a, <1>2 DEF SetPreference, Types, Rows
  <2>2. history' \in Histories
    BY <1>a, <1>2 DEF SetPreference, Types, Histories
  <2>3. QED
    BY <1>a, <1>2, <2>1, <2>2 DEF SetPreference, Types
<1>3. ASSUME NEW n \in Nodes, NEW on \in BOOLEAN, SetFlag(n, on) PROVE Types'
  <2>1. held' \in [Nodes -> Rows]
    BY <1>a, <1>3 DEF SetFlag, Types, Rows
  <2>2. Agreed \in BOOLEAN
    BY DEF Agreed
  <2>3. history' \in Histories
    BY <1>3, <2>2 DEF SetFlag, Types, Histories
  <2>4. QED
    BY <1>a, <1>3, <2>1, <2>3 DEF SetFlag, Types
<1>4. ASSUME NEW n \in Stocked, EditCatalogue(n) PROVE Types'
  BY <1>a, <1>4 DEF EditCatalogue, Types
<1>5. CASE BeginRun
  <2>1. /\ star.run + 1 \in 0 .. MaxRuns
        /\ held[Hub] \in Rows /\ cat[Hub] \in Times
        /\ (\A p \in Phones : phone[p].step = "away") \in BOOLEAN
    BY <1>5 DEF BeginRun, Types, Stars
  <2>2. star' \in Stars
    BY <1>5, <2>1 DEF BeginRun, Stars
  <2>3. history' \in Histories
    BY <1>5 DEF BeginRun, Types, Histories
  <2>4. QED
    BY <1>5, <2>2, <2>3 DEF BeginRun, Types
<1>6. ASSUME NEW a \in Appliances, TakeAppliance(a) PROVE Types'
  BY <1>6, RunFields DEF TakeAppliance, Types
<1>7. ASSUME NEW p \in Phones, TakePhone(p) PROVE Types'
  BY <1>7, RunFields DEF TakePhone, Types
<1>8. CASE MergeRun
  <2>1. PICK stamp \in Unions : star' = [star EXCEPT !.stage = "merged", !.merged = Merge(stamp)]
    BY <1>8 DEF MergeRun
  <2>2. Hub \in star.took
    BY <1>8 DEF MergeRun, Types, Stars
  <2>3. star' \in Stars
    BY <2>1, <2>2, MergeTyped, RunFields
  <2>4. QED
    BY <1>8, <2>3 DEF MergeRun, Types
<1>9. CASE HubTakes
  <2>1. /\ star.taken[Hub] \in Rows /\ star.merged \in Rows /\ held[Hub] \in Rows
        /\ SeenAt(star.merged) \in Times
    BY DEF Types, Stars, SeenAt
  <2>2. star' \in Stars
    <3>1. /\ star.stage = "merged"
          /\ \/ star' = [star EXCEPT !.stage = "shared", !.left = star.took \ {Hub}]
             \/ star' = [star EXCEPT !.stage = "refused"]
      BY <1>9 DEF HubTakes
    <3>2. star \in Stars /\ Hub \in star.took
      BY <3>1 DEF Types, Stars
    <3>3. /\ [star EXCEPT !.stage = "shared", !.left = star.took \ {Hub}] \in Stars
          /\ [star EXCEPT !.stage = "refused"] \in Stars
      BY <3>2 DEF Stars
    <3>4. QED
      BY <3>1, <3>3
  <2>3. history' \in Histories
    BY <1>9 DEF HubTakes, Types, Histories, Flagged
  <2>4. held' \in [Nodes -> Rows] /\ sent' \in [Nodes -> Times]
    <3>1. Member(held[Hub], [was |-> star.taken[Hub], now |-> star.merged]) \in Rows
      BY <2>1, MemberTyped
    <3>2. /\ \/ held' = held
             \/ held' = [held EXCEPT ![Hub] =
                            Member(@, [was |-> star.taken[Hub], now |-> star.merged])]
          /\ sent' = sent \/ sent' = [sent EXCEPT ![Hub] = SeenAt(star.merged)]
      BY <1>9 DEF HubTakes
    <3>3. QED
      BY <2>1, <3>1, <3>2 DEF Types
  <2>5. QED
    BY <1>9, <2>2, <2>3, <2>4 DEF HubTakes, Types
<1>10. CASE CommitAgain
  BY <1>10 DEF CommitAgain, Types, Stars, SeenAt
<1>11. ASSUME NEW a \in Appliances, Send(a) PROVE Types'
  <2>1. CASE NothingToSend(a) /\ Landed(a) /\ UNCHANGED <<work, history>>
    BY <1>11, <2>1, AnswerTyped DEF Send, Types
  <2>2. CASE NotLanded(a) /\ UNCHANGED <<work, history>>
    BY <1>11, <2>2, AnswerTyped DEF Send, Types
  <2>3. ASSUME star.run > lastRun[a], star' = [star EXCEPT !.waiting = a], UNCHANGED sent,
               NEW id \in 1 .. AtOnce,
               work' = [work EXCEPT ![a] = @ \cup
                    {[id |-> id, run |-> star.run, step |-> "catalogue", wrote |-> FALSE,
                      was |-> star.taken[a], now |-> star.merged,
                      catWas |-> star.cats[a], catNow |-> star.cats[Hub]]}],
               history' = [history EXCEPT !.halves[a] =
                   IF @.run = star.run THEN @ ELSE Untouched(star.run)]
        PROVE  Types'
    <3>1. star \in Stars /\ lastRun[a] \in 0 .. MaxRuns /\ star.run \in Runs
      BY <2>3 DEF Types, Stars, Runs
    <3>2. star' \in Stars
      BY <2>3, <3>1 DEF Stars
    <3>3. history' \in Histories
      <4>1. history \in Histories /\ Untouched(star.run) \in Halves
        BY <3>1 DEF Types, Untouched, Halves, Runs
      <4>2. QED
        BY <2>3, <4>1 DEF Histories
    <3>4. work' \in [Appliances -> SUBSET Works]
      <4>1. [id |-> id, run |-> star.run, step |-> "catalogue", wrote |-> FALSE,
             was |-> star.taken[a], now |-> star.merged,
             catWas |-> star.cats[a], catNow |-> star.cats[Hub]] \in Works
        BY <3>1 DEF Stars, Works
      <4>2. QED
        BY <2>3, <4>1 DEF Types
    <3>5. QED
      BY <1>11, <2>3, <3>2, <3>3, <3>4 DEF Send, Types
  <2>4. QED
    BY <1>11, <2>1, <2>2, <2>3 DEF Send
<1>12. ASSUME NEW p \in Phones, Offer(p) PROVE Types'
  <2>1. outbox' \in [Phones -> Patches]
    BY <1>12 DEF Offer, Types, Stars, Patches
  <2>2. QED
    BY <1>12, <2>1, AnswerTyped DEF Offer, Types
<1>13. ASSUME NEW a \in Appliances, Unreachable(a) PROVE Types'
  BY <1>13, AnswerTyped DEF Unreachable, Types
<1>14. ASSUME NEW a \in Appliances, NoAnswer(a) PROVE Types'
  BY <1>14, AnswerTyped DEF NoAnswer, Types
<1>15. ASSUME NEW a \in Appliances, PowerCut(a) PROVE Types'
  <2>1. history' \in Histories
    BY <1>15 DEF PowerCut, Types, Histories
  <2>2. star' \in Stars /\ sent' \in [Nodes -> Times]
    BY <1>15, AnswerTyped DEF PowerCut, Types
  <2>3. work' \in [Appliances -> SUBSET Works]
    BY <1>15 DEF PowerCut, Types
  <2>4. QED
    BY <1>15, <2>1, <2>2, <2>3 DEF PowerCut, Types
<1>b. ASSUME NEW a \in Appliances, NEW w \in work[a]
      PROVE  /\ w \in Works
             /\ \A ok \in BOOLEAN : Answered(a, w, ok) => star' \in Stars /\ sent' \in [Nodes -> Times]
             /\ work' = [work EXCEPT ![a] = @ \ {w}] => work' \in [Appliances -> SUBSET Works]
             /\ \A s \in {"catalogue", "listener", "record"}, o \in BOOLEAN :
                   Moves(a, w, s, o) => work' \in [Appliances -> SUBSET Works]
  <2>1. work \in [Appliances -> SUBSET Works] /\ w \in Works
    BY DEF Types
  <2>2. \A s \in {"catalogue", "listener", "record"}, o \in BOOLEAN :
           [w EXCEPT !.step = s, !.wrote = o] \in Works
    BY <2>1 DEF Works
  <2>3. \A ok \in BOOLEAN : Answered(a, w, ok) => star' \in Stars /\ sent' \in [Nodes -> Times]
    BY AnswerTyped DEF Answered, Types
  <2>4. QED
    BY <2>1, <2>2, <2>3 DEF Moves
<1>16. ASSUME NEW a \in Appliances, NEW w \in work[a], WriteCatalogue(a, w) PROVE Types'
  <2>1. CASE Expected(cat[a], w.catWas, w.catNow)
    <3>1. cat' \in [Stocked -> Times]
      BY <1>16, <1>b, <2>1 DEF WriteCatalogue, Types, Works
    <3>2. history' \in Histories
      <4>1. history \in Histories
        BY DEF Types
      <4>2. PICK c \in {"in", history.halves[a].catalogue} :
               history' = [history EXCEPT !.halves[a].catalogue = c]
        BY <1>16, <2>1 DEF WriteCatalogue
      <4>3. QED
        BY <4>1, <4>2, HalvesTyped
    <3>3. work' \in [Appliances -> SUBSET Works]
      BY <1>16, <1>b, <2>1 DEF WriteCatalogue
    <3>4. QED
      BY <1>16, <2>1, <3>1, <3>2, <3>3 DEF WriteCatalogue, Types
  <2>2. CASE ~Expected(cat[a], w.catWas, w.catNow)
    BY <1>16, <1>b, <2>2 DEF WriteCatalogue, Types
  <2>3. QED
    BY <2>1, <2>2
<1>17. ASSUME NEW a \in Appliances, NEW w \in work[a], WriteListener(a, w) PROVE Types'
  <2>1. held' \in [Nodes -> Rows]
    BY <1>17, <1>b, MemberTyped DEF WriteListener, Types, Works
  <2>2. history' \in Histories
    <3>1. history \in Histories
      BY DEF Types
    <3>2. PICK l \in {"in", history.halves[a].listener} :
             history' = [history EXCEPT !.halves[a].listener = l]
      BY <1>17, <3>1 DEF WriteListener
    <3>3. QED
      BY <3>1, <3>2, HalvesTyped
  <2>3. work' \in [Appliances -> SUBSET Works]
    BY <1>17, <1>b DEF WriteListener, Works
  <2>4. QED
    BY <1>17, <2>1, <2>2, <2>3 DEF WriteListener, Types
<1>18. ASSUME NEW a \in Appliances, NEW w \in work[a], ListenerFails(a, w) PROVE Types'
  <2>1. faults' \in 0 .. MaxFaults
    BY <1>18 DEF ListenerFails, Types
  <2>2. cat' \in [Stocked -> Times]
    BY <1>18, <1>b DEF ListenerFails, Undone, Types, Works
  <2>3. history' \in Histories
    <3>1. history \in Histories /\ history.torn \in SUBSET Appliances
      BY DEF Types, Histories
    <3>2. PICK c \in {"out", history.halves[a].catalogue}, s \in SUBSET Appliances :
             history' = [history EXCEPT !.halves[a].catalogue = c, !.torn = s]
      BY <1>18, <3>1 DEF ListenerFails
    <3>3. QED
      BY <3>1, <3>2, HalvesTyped
  <2>4. work' \in [Appliances -> SUBSET Works] /\ star' \in Stars /\ sent' \in [Nodes -> Times]
    BY <1>18, <1>b DEF ListenerFails
  <2>5. QED
    BY <1>18, <2>1, <2>2, <2>3, <2>4 DEF ListenerFails, Types
<1>19. ASSUME NEW a \in Appliances, NEW w \in work[a], Record(a, w) PROVE Types'
  <2>1. lastRun' \in [Appliances -> 0 .. MaxRuns]
    BY <1>19, <1>b DEF Record, Types, Works, Runs
  <2>2. QED
    BY <1>19, <1>b, <2>1 DEF Record, Types
<1>20. ASSUME NEW p \in Phones, Visit(p) PROVE Types'
  <2>1. /\ outbox[p].run \in 0 .. MaxRuns /\ outbox[p].was \in Rows /\ outbox[p].now \in Rows
    BY DEF Types, Patches
  <2>2. held' \in [Nodes -> Rows]
    <3>1. Member(held[p], outbox[p]) \in Rows
      BY <2>1, Bounded, MemberTyped DEF Types
    <3>2. held' = held \/ held' = [held EXCEPT ![p] = Member(@, outbox[p])]
      BY <1>20 DEF Visit
    <3>3. QED
      BY <3>1, <3>2 DEF Types
  <2>3. star' \in Stars
    <3>1. /\ star \in Stars
          /\ star' = star \/ \E b \in BOOLEAN : star' = [star EXCEPT !.quiet = b]
      <4>1. star \in Stars /\ star.quiet \in BOOLEAN
        BY DEF Types, Stars
      <4>2. \/ star' = star
            \/ star' = [star EXCEPT !.quiet = star.quiet /\ outbox[p].run = star.run]
        BY <1>20, <4>1 DEF Visit, Stars
      <4>3. (star.quiet /\ outbox[p].run = star.run) \in BOOLEAN
        OBVIOUS
      <4>4. QED
        BY <4>1, <4>2, <4>3
    <3>2. ASSUME NEW b \in BOOLEAN, star' = [star EXCEPT !.quiet = b] PROVE star' \in Stars
      BY <3>1, <3>2 DEF Stars
    <3>3. QED
      BY <3>1, <3>2
  <2>4. history' \in Histories
    BY <1>20 DEF Visit, Types, Histories
  <2>5. phone' \in [Phones -> Visits]
    BY <1>20, <2>1 DEF Visit, Types, Visits
  <2>6. QED
    BY <1>20, <2>2, <2>3, <2>4, <2>5 DEF Visit, Types
<1>c. ASSUME NEW p \in Phones, Clear(p) PROVE outbox' \in [Phones -> Patches]
  BY <1>c DEF Clear, Types
<1>21. ASSUME NEW p \in Phones, Tell(p) PROVE Types'
  BY <1>21, <1>c DEF Tell, Visits, Types
<1>22. ASSUME NEW p \in Phones, Upload(p) PROVE Types'
  BY <1>22 DEF Upload, SeenAt, Away, Visits, Uploads, Types
<1>23. ASSUME NEW p \in Phones, BreakOff(p) PROVE Types'
  <2>1. outbox' \in [Phones -> Patches]
    BY <1>23, <1>c DEF BreakOff, Types
  <2>2. phone' \in [Phones -> Visits] /\ faults' \in 0 .. MaxFaults
    BY <1>23 DEF BreakOff, Away, Visits, Types
  <2>3. QED
    BY <1>23, <2>1, <2>2 DEF BreakOff, Types
<1>24. QED
  BY <1>1, <1>2, <1>3, <1>4, <1>5, <1>6, <1>7, <1>8, <1>9, <1>10, <1>11, <1>12, <1>13, <1>14,
     <1>15, <1>16, <1>17, <1>18, <1>19, <1>20, <1>21, <1>22, <1>23
     DEF Next, Edits, HubSteps, ApplianceSteps, PhoneSteps

-----------------------------------------------------------------------------
(* What the fields of a run and the commits of an appliance owe each other. *)

Shape ==
    /\ star.left \cup star.landed \subseteq star.took
    /\ star.waiting \in {NoOne} \cup (Appliances \cap star.left)
    /\ star.stage # "shared" => star.waiting = NoOne
    /\ \A a \in Appliances :
          /\ lastRun[a] <= star.run
          /\ IsFiniteSet(work[a]) /\ Cardinality(work[a]) <= AtOnce
          /\ \A w \in work[a] : w.run <= star.run

LEMMA InitShaped == Init => Shape
BY Bounded, FS_EmptySet DEF Init, Shape

\* A commit added where there was room, altered, or over, leaves no more than there may be.
LEMMA OneMore ==
    ASSUME NEW S, IsFiniteSet(S), Cardinality(S) \in Nat, NEW x
    PROVE  IsFiniteSet(S \cup {x}) /\ Cardinality(S \cup {x}) <= Cardinality(S) + 1
BY FS_AddElement

LEMMA OneLess ==
    ASSUME NEW S, IsFiniteSet(S), NEW w \in S, NEW x
    PROVE  /\ IsFiniteSet(S \ {w}) /\ Cardinality(S \ {w}) = Cardinality(S) - 1
           /\ IsFiniteSet((S \ {w}) \cup {x})
           /\ Cardinality((S \ {w}) \cup {x}) <= Cardinality(S)
           /\ Cardinality(S) \in Nat
<1>1. IsFiniteSet(S \ {w}) /\ Cardinality(S \ {w}) = Cardinality(S) - 1
  BY FS_RemoveElement
<1>2. Cardinality(S) \in Nat /\ Cardinality(S \ {w}) \in Nat
  BY <1>1, FS_CardinalityType
<1>3. /\ IsFiniteSet((S \ {w}) \cup {x})
      /\ Cardinality((S \ {w}) \cup {x}) <= Cardinality(S \ {w}) + 1
  BY <1>1, <1>2, OneMore
<1>4. Cardinality((S \ {w}) \cup {x}) \in Nat
  BY <1>3, FS_CardinalityType
<1> DEFINE after == Cardinality((S \ {w}) \cup {x})
           less == Cardinality(S \ {w})
           all == Cardinality(S)
<1>5. after \in Nat /\ less \in Nat /\ all \in Nat /\ after <= less + 1 /\ less = all - 1
  BY <1>1, <1>2, <1>3, <1>4
<1> HIDE DEF after, less, all
<1>6. after <= all
  BY <1>5
<1>7. QED
  BY <1>1, <1>2, <1>3, <1>6 DEF after, all

LEMMA ShapeKept == ASSUME Types, Types', Shape, [Next]_vars PROVE Shape'
<1> USE Bounded
<1>a. /\ star.run \in Nat /\ star'.run \in Nat /\ NoOne \notin Nodes
      /\ \A a \in Appliances : /\ lastRun[a] \in Nat /\ Cardinality(work[a]) \in Nat
                               /\ \A w \in work[a] : w.run \in Nat /\ w \in Works
  BY FleetAssumption, FS_CardinalityType DEF Types, Stars, Shape, Works, Runs, Nodes
<1>1. CASE UNCHANGED vars
  BY <1>1 DEF vars, Shape
<1>b. ASSUME star' = [star EXCEPT !.quiet = star'.quiet], UNCHANGED <<work, lastRun>>
      PROVE  Shape'
  BY <1>b DEF Shape, Types, Stars
<1>2. ASSUME Edit PROVE Shape'
  BY <1>2, RunFields DEF Edit, Shape
<1>3. CASE BeginRun
  BY <1>3, <1>a DEF BeginRun, Shape, Types, Stars, Resting
<1>4. ASSUME NEW a \in Appliances, TakeAppliance(a) PROVE Shape'
  BY <1>4, RunFields DEF TakeAppliance, Shape
<1>5. ASSUME NEW p \in Phones, TakePhone(p) PROVE Shape'
  BY <1>5, RunFields DEF TakePhone, Shape
<1>6. CASE MergeRun
  BY <1>6, RunFields DEF MergeRun, Shape
<1>7. CASE HubTakes
  <2>1. \/ star' = [star EXCEPT !.stage = "shared", !.left = star.took \ {Hub}]
        \/ star' = [star EXCEPT !.stage = "refused"]
    BY <1>7 DEF HubTakes
  <2>2. UNCHANGED <<work, lastRun>> /\ star.stage = "merged"
    BY <1>7 DEF HubTakes
  <2>3. star \in Stars /\ star.waiting = NoOne
    BY <2>2 DEF Shape, Types
  <2>4. star'.waiting = NoOne /\ star'.run = star.run
    BY <2>1, <2>3 DEF Stars
  <2>5. star'.left \cup star'.landed \subseteq star'.took
    <3>1. CASE star' = [star EXCEPT !.stage = "shared", !.left = star.took \ {Hub}]
      BY <2>3, <3>1 DEF Shape, Stars
    <3>2. CASE star' = [star EXCEPT !.stage = "refused"]
      BY <2>3, <3>2 DEF Shape, Stars
    <3>3. QED
      BY <2>1, <3>1, <3>2
  <2>6. QED
    BY <2>2, <2>4, <2>5 DEF Shape
<1>8. CASE CommitAgain
  BY <1>8 DEF CommitAgain, Shape, Types, Stars, Resting
<1>c. ASSUME NEW n \in star.left, Landed(n) \/ NotLanded(n)
      PROVE  /\ star'.left \cup star'.landed \subseteq star'.took
             /\ star'.waiting = NoOne /\ star'.run = star.run
  <2>1. star \in Stars /\ star.left \cup star.landed \subseteq star.took
    BY DEF Types, Shape
  <2>2. CASE star' = [star EXCEPT !.left = @ \ {n}, !.landed = @ \cup {n}, !.waiting = NoOne]
    BY <2>1, <2>2 DEF Stars
  <2>3. CASE star' = [star EXCEPT !.left = @ \ {n}, !.waiting = NoOne]
    BY <2>1, <2>3 DEF Stars
  <2>4. QED
    BY <1>c, <2>2, <2>3 DEF Landed, NotLanded
<1>9. ASSUME NEW a \in Appliances, Send(a) PROVE Shape'
  <2>1. a \in star.left
    BY <1>9 DEF Send
  <2>2. CASE (Landed(a) \/ NotLanded(a)) /\ UNCHANGED <<work, lastRun>>
    BY <2>1, <2>2, <1>c DEF Shape
  <2>3. CASE /\ star.stage = "shared" /\ Cardinality(work[a]) < AtOnce
             /\ star' = [star EXCEPT !.waiting = a] /\ UNCHANGED lastRun
             /\ \E w : w.run = star.run /\ work' = [work EXCEPT ![a] = @ \cup {w}]
    <3>1. PICK w : w.run = star.run /\ work' = [work EXCEPT ![a] = @ \cup {w}]
      BY <2>3
    <3>2. /\ work'[a] = work[a] \cup {w}
          /\ \A b \in Appliances \ {a} : work'[b] = work[b]
      BY <3>1 DEF Types
    <3>3. IsFiniteSet(work'[a]) /\ Cardinality(work'[a]) <= AtOnce
      <4>1. Cardinality(work[a]) + 1 <= AtOnce
        BY <1>a, <2>3
      <4>2. IsFiniteSet(work'[a]) /\ Cardinality(work'[a]) <= Cardinality(work[a]) + 1
        BY <1>a, <3>2, OneMore DEF Shape
      <4>3. Cardinality(work'[a]) \in Nat
        BY <4>2, FS_CardinalityType
      <4>4. QED
        BY <1>a, <4>1, <4>2, <4>3
    <3>4. \A v \in work'[a] : v.run <= star.run
      BY <1>a, <3>1, <3>2 DEF Shape
    <3>5. QED
      BY <2>1, <2>3, <3>2, <3>3, <3>4 DEF Shape, Types, Stars
  <2>4. QED
    BY <1>9, <2>2, <2>3 DEF Send
<1>10. ASSUME NEW p \in Phones, Offer(p) PROVE Shape'
  BY <1>10, <1>c DEF Offer, Shape
<1>11. ASSUME NEW a \in Appliances, Unreachable(a) PROVE Shape'
  BY <1>11, <1>c DEF Unreachable, Shape
<1>12. ASSUME NEW a \in Appliances, NoAnswer(a) PROVE Shape'
  BY <1>12, <1>a, <1>c DEF NoAnswer, Shape
<1>13. ASSUME NEW a \in Appliances, PowerCut(a) PROVE Shape'
  <2>1. /\ star'.left \cup star'.landed \subseteq star'.took
        /\ star'.waiting \in {NoOne} \cup (Appliances \cap star'.left)
        /\ star'.stage # "shared" => star'.waiting = NoOne
        /\ star'.run = star.run
    BY <1>13, <1>a, <1>c DEF PowerCut, Shape
  <2>2. work'[a] = {} /\ \A b \in Appliances \ {a} : work'[b] = work[b]
    BY <1>13 DEF PowerCut, Types
  <2>3. lastRun' = lastRun
    BY <1>13 DEF PowerCut
  <2>4. \A b \in Appliances : /\ IsFiniteSet(work'[b]) /\ Cardinality(work'[b]) <= AtOnce
                               /\ \A v \in work'[b] : v.run <= star.run
    <3>1. IsFiniteSet({}) /\ Cardinality({}) <= AtOnce
      BY FS_EmptySet
    <3>2. QED
      BY <2>2, <3>1 DEF Shape
  <2>5. QED
    BY <2>1, <2>3, <2>4 DEF Shape
<1>d. ASSUME NEW a \in Appliances, NEW w \in work[a], NEW ok \in BOOLEAN, Answered(a, w, ok)
      PROVE  /\ star'.left \cup star'.landed \subseteq star'.took
             /\ star'.waiting \in {NoOne} \cup (Appliances \cap star'.left)
             /\ star'.stage # "shared" => star'.waiting = NoOne
             /\ star'.run = star.run
  BY <1>a, <1>c, <1>d DEF Answered, Heard, Shape
<1>e. ASSUME NEW a \in Appliances, NEW w \in work[a],
             \/ work' = [work EXCEPT ![a] = @ \ {w}]
             \/ \E s, o : Moves(a, w, s, o)
      PROVE  \A b \in Appliances : /\ IsFiniteSet(work'[b]) /\ Cardinality(work'[b]) <= AtOnce
                                   /\ \A v \in work'[b] : v.run <= star.run
  <2>1. \/ work'[a] = work[a] \ {w}
        \/ \E x : x.run = w.run /\ work'[a] = (work[a] \ {w}) \cup {x}
    <3>1. CASE work' = [work EXCEPT ![a] = @ \ {w}]
      BY <3>1 DEF Types
    <3>2. ASSUME NEW s, NEW o, Moves(a, w, s, o)
          PROVE  \E x : x.run = w.run /\ work'[a] = (work[a] \ {w}) \cup {x}
      <4>1. [w EXCEPT !.step = s, !.wrote = o].run = w.run
        BY <1>a DEF Works
      <4>2. work'[a] = (work[a] \ {w}) \cup {[w EXCEPT !.step = s, !.wrote = o]}
        BY <3>2 DEF Moves, Types
      <4>3. QED
        BY <4>1, <4>2
    <3>3. QED
      BY <1>e, <3>1, <3>2
  <2>2. \A b \in Appliances \ {a} : work'[b] = work[b]
    BY <1>e DEF Types, Moves
  <2>3. IsFiniteSet(work'[a]) /\ Cardinality(work'[a]) <= Cardinality(work[a])
    <3>1. IsFiniteSet(work[a])
      BY DEF Shape
    <3>2. CASE work'[a] = work[a] \ {w}
      <4>1. /\ IsFiniteSet(work[a] \ {w}) /\ Cardinality(work[a] \ {w}) = Cardinality(work[a]) - 1
            /\ Cardinality(work[a]) \in Nat
        BY <3>1, OneLess
      <4>2. QED
        BY <3>2, <4>1
    <3>3. ASSUME NEW x, work'[a] = (work[a] \ {w}) \cup {x}
          PROVE  IsFiniteSet(work'[a]) /\ Cardinality(work'[a]) <= Cardinality(work[a])
      <4>1. /\ IsFiniteSet((work[a] \ {w}) \cup {x})
            /\ Cardinality((work[a] \ {w}) \cup {x}) <= Cardinality(work[a])
        BY <3>1, OneLess
      <4>2. QED
        BY <3>3, <4>1
    <3>4. QED
      BY <2>1, <3>2, <3>3
  <2>4. Cardinality(work'[a]) <= AtOnce
    <3>1. Cardinality(work'[a]) \in Nat /\ Cardinality(work[a]) <= AtOnce
      BY <2>3, FS_CardinalityType DEF Shape
    <3>2. QED
      BY <1>a, <2>3, <3>1
  <2>5. \A v \in work'[a] : v.run <= star.run
    BY <1>a, <2>1 DEF Shape
  <2>6. QED
    BY <2>2, <2>3, <2>4, <2>5 DEF Shape
<1>14. ASSUME NEW a \in Appliances, NEW w \in work[a], WriteCatalogue(a, w) PROVE Shape'
  <2>1. UNCHANGED <<star, sent>> \/ Answered(a, w, FALSE)
    BY <1>14 DEF WriteCatalogue
  <2>2. \/ work' = [work EXCEPT ![a] = @ \ {w}]
        \/ \E s, o : Moves(a, w, s, o)
    BY <1>14 DEF WriteCatalogue
  <2>3. lastRun' = lastRun
    BY <1>14 DEF WriteCatalogue
  <2>4. QED
    BY <2>1, <2>2, <2>3, <1>d, <1>e DEF Shape
<1>15. ASSUME NEW a \in Appliances, NEW w \in work[a], WriteListener(a, w) PROVE Shape'
  <2>1. /\ \E s, o : Moves(a, w, s, o)
        /\ UNCHANGED <<star, lastRun>>
    BY <1>15 DEF WriteListener
  <2>2. QED
    BY <2>1, <1>e DEF Shape
<1>16. ASSUME NEW a \in Appliances, NEW w \in work[a], ListenerFails(a, w) PROVE Shape'
  <2>1. Answered(a, w, FALSE) /\ work' = [work EXCEPT ![a] = @ \ {w}] /\ lastRun' = lastRun
    BY <1>16 DEF ListenerFails
  <2>2. QED
    BY <2>1, <1>d, <1>e DEF Shape
<1>17. ASSUME NEW a \in Appliances, NEW w \in work[a], Record(a, w) PROVE Shape'
  <2>1. /\ Answered(a, w, TRUE) /\ work' = [work EXCEPT ![a] = @ \ {w}]
        /\ lastRun' = [lastRun EXCEPT ![a] = w.run]
    BY <1>17 DEF Record
  <2>2. \A b \in Appliances : lastRun'[b] <= star.run
    BY <2>1 DEF Shape, Types
  <2>3. QED
    BY <2>1, <2>2, <1>d, <1>e DEF Shape
<1>18. ASSUME NEW p \in Phones, Visit(p) PROVE Shape'
  <2>1. star' = star \/ star' = [star EXCEPT !.quiet = star'.quiet]
    BY <1>18 DEF Visit, Types, Stars
  <2>2. UNCHANGED <<work, lastRun>>
    BY <1>18 DEF Visit
  <2>3. QED
    BY <2>1, <2>2, <1>b DEF Shape
<1>19. ASSUME NEW p \in Phones, Tell(p) \/ Upload(p) \/ BreakOff(p) PROVE Shape'
  BY <1>19 DEF Tell, Upload, BreakOff, Shape
<1>20. QED
  BY <1>1, <1>2, <1>3, <1>4, <1>5, <1>6, <1>7, <1>8, <1>9, <1>10, <1>11, <1>12, <1>13, <1>14,
     <1>15, <1>16, <1>17, <1>18, <1>19
     DEF Next, Edits, HubSteps, ApplianceSteps, PhoneSteps, SetPreference, SetFlag, EditCatalogue

(* The synchronization keeps to its types, for any household: nobody has   *)
(* landed who was not taken, the hub waits only for an appliance it has    *)
(* still to reach, no appliance works on more than it may, nor on a run    *)
(* that was not begun.                                                     *)
THEOREM TypeCorrect == Spec => []TypeOK
<1>1. Init => Types /\ Shape
  BY InitTyped, InitShaped
<1>2. Types /\ Shape /\ [Next]_vars => (Types /\ Shape)'
  BY TypesKept, ShapeKept
<1>3. Types /\ Shape => TypeOK
  BY Bounded DEF Types, Shape, TypeOK, Stars, Works, Runs
<1>4. QED
  BY <1>1, <1>2, <1>3, PTL DEF Spec

-----------------------------------------------------------------------------
(* The newest word on the preference.                                      *)

\* A patch never goes back: what it would write is no older than what it would
\* write over, and no newer than the newest word.
Forward(patch) ==
    patch.was.pref <= patch.now.pref /\ patch.now.pref <= history.newest

Ordered ==
    /\ history.newest <= clock
    /\ star.merged.pref <= history.newest
    /\ \A n \in Nodes :
          held[n].pref <= history.newest /\ star.taken[n].pref <= history.newest
    /\ \A p \in Phones : upload[p].row.pref <= history.newest /\ Forward(outbox[p])
    /\ \A a \in Appliances : \A w \in work[a] : Forward(w)
    /\ star.stage \in {"merged", "shared"} =>
          \A n \in star.took : star.taken[n].pref <= star.merged.pref

LEMMA InitOrdered == Init => Ordered /\ NewestWordHeld
BY Bounded DEF Init, Ordered, NewestWordHeld, Forward, Blank, NoPatch

\* What a stamp is.
LEMMA Stamps ==
    ASSUME Types
    PROVE  /\ clock \in Nat /\ history.newest \in Nat /\ star.merged.pref \in Nat
           /\ \A n \in Nodes : held[n].pref \in Nat /\ star.taken[n].pref \in Nat
           /\ \A p \in Phones : /\ upload[p].row.pref \in Nat
                                /\ outbox[p].was.pref \in Nat /\ outbox[p].now.pref \in Nat
           /\ \A a \in Appliances : \A w \in work[a] :
                 w.was.pref \in Nat /\ w.now.pref \in Nat
<1>1. Times \subseteq Nat
  BY DEF Times
<1>2. \A r \in Rows : r.pref \in Nat
  BY <1>1 DEF Rows
<1>3. clock \in Nat /\ history.newest \in Nat /\ star.merged \in Rows
  BY <1>1 DEF Types, Histories, Stars
<1>4. \A n \in Nodes : held[n] \in Rows /\ star.taken[n] \in Rows
  BY DEF Types, Stars
<1>5. \A p \in Phones : upload[p].row \in Rows /\ outbox[p].was \in Rows /\ outbox[p].now \in Rows
  BY DEF Types, Uploads, Patches
<1>6. \A a \in Appliances : \A w \in work[a] : w.was \in Rows /\ w.now \in Rows
  BY DEF Types, Works
<1>7. QED
  BY <1>2, <1>3, <1>4, <1>5, <1>6

\* A patch that goes forward, applied where the newest word is, leaves it there.
LEMMA MemberKeepsNewest ==
    ASSUME Types, NEW cur \in Rows, NEW patch, patch.was \in Rows, patch.now \in Rows,
           Forward(patch), cur.pref <= history.newest
    PROVE  /\ Member(cur, patch).pref <= history.newest
           /\ cur.pref = history.newest => Member(cur, patch).pref = history.newest
<1>1. Member(cur, patch).pref = IF cur.pref = patch.was.pref THEN patch.now.pref ELSE cur.pref
  BY MemberTyped
<1>2. cur.pref \in Nat /\ patch.was.pref \in Nat /\ patch.now.pref \in Nat /\ history.newest \in Nat
  BY Stamps DEF Rows, Times
<1>3. QED
  BY <1>1, <1>2 DEF Forward

LEMMA OrderKept ==
    ASSUME Types, Types', Shape, Ordered, NewestWordHeld, [Next]_vars
    PROVE  Ordered' /\ NewestWordHeld'
<1> USE Bounded
<1>a. ASSUME UNCHANGED <<held, history>> PROVE NewestWordHeld'
  BY <1>a DEF NewestWordHeld
<1>b. ASSUME held' = held, history'.newest = history.newest PROVE NewestWordHeld'
  BY <1>b DEF NewestWordHeld
<1>1. CASE UNCHANGED vars
  BY <1>1, <1>a DEF vars, Ordered, Forward
<1>c. ASSUME Edit
      PROVE  /\ clock' = clock + 1 /\ UNCHANGED <<upload, outbox, work>>
             /\ star'.merged = star.merged /\ star'.taken = star.taken
             /\ star'.stage = star.stage /\ star'.took = star.took
  BY <1>c, RunFields DEF Edit
<1>2. ASSUME NEW n \in Nodes, SetPreference(n) PROVE Ordered' /\ NewestWordHeld'
  <2>1. /\ history'.newest = clock + 1 /\ held'[n].pref = clock + 1
        /\ \A m \in Nodes \ {n} : held'[m] = held[m]
    BY <1>2, <1>c DEF SetPreference, Types, Histories, Rows
  <2>2. \A x \in Nat : x <= history.newest => x <= clock + 1
    BY Stamps DEF Ordered
  <2>3. \A p \in Phones : Forward(outbox[p])'
    BY <1>2, <1>c, <2>1, <2>2, Stamps DEF SetPreference, Ordered, Forward
  <2>4. \A a \in Appliances : \A w \in work'[a] : Forward(w)'
    BY <1>2, <1>c, <2>1, <2>2, Stamps DEF SetPreference, Ordered, Forward
  <2>5. QED
    BY <1>2, <1>c, <2>1, <2>2, <2>3, <2>4, Stamps DEF SetPreference, Ordered, NewestWordHeld
<1>3. ASSUME NEW n \in Nodes, NEW on \in BOOLEAN, SetFlag(n, on)
      PROVE  Ordered' /\ NewestWordHeld'
  <2>1. history'.newest = history.newest /\ \A m \in Nodes : held'[m].pref = held[m].pref
    BY <1>3 DEF SetFlag, Types, Histories, Rows
  <2>2. QED
    BY <1>3, <1>c, <2>1, Stamps DEF SetFlag, Ordered, Forward, NewestWordHeld
<1>4. ASSUME NEW n \in Stocked, EditCatalogue(n) PROVE Ordered' /\ NewestWordHeld'
  BY <1>4, <1>a, <1>c, Stamps DEF EditCatalogue, Ordered, Forward
<1>5. CASE BeginRun
  <2>1. history'.newest = history.newest /\ held' = held
    BY <1>5 DEF BeginRun, Types, Histories
  <2>2. /\ star'.merged = held[Hub] /\ star'.stage = "taking"
        /\ \A n \in Nodes : star'.taken[n] = held[Hub]
        /\ UNCHANGED <<clock, upload, outbox, work>>
    BY <1>5 DEF BeginRun
  <2>3. QED
    BY <1>b, <2>1, <2>2 DEF Ordered, Forward
<1>6. ASSUME NEW a \in Appliances, TakeAppliance(a) PROVE Ordered' /\ NewestWordHeld'
  <2>1. /\ star'.merged = star.merged /\ star'.stage = "taking"
        /\ \A n \in Nodes : star'.taken[n] = IF n = a THEN held[a] ELSE star.taken[n]
        /\ UNCHANGED <<clock, held, upload, outbox, work, history>>
    BY <1>6, RunFields DEF TakeAppliance
  <2>2. QED
    BY <1>a, <2>1 DEF Ordered, Forward
<1>7. ASSUME NEW p \in Phones, TakePhone(p) PROVE Ordered' /\ NewestWordHeld'
  <2>1. /\ star'.merged = star.merged /\ star'.stage = "taking"
        /\ \A n \in Nodes : star'.taken[n] = IF n = p THEN upload[p].row ELSE star.taken[n]
        /\ UNCHANGED <<clock, held, upload, outbox, work, history>>
    BY <1>7, RunFields DEF TakePhone
  <2>2. QED
    BY <1>a, <2>1 DEF Ordered, Forward
<1>8. CASE MergeRun
  <2>1. PICK stamp \in Unions :
           star' = [star EXCEPT !.stage = "merged", !.merged = Merge(stamp)]
    BY <1>8 DEF MergeRun
  <2>2. star.took # {} /\ star.took \subseteq Nodes
    BY <1>8 DEF MergeRun, Types, Stars
  <2>3. /\ star'.merged = Merge(stamp) /\ star'.taken = star.taken /\ star'.took = star.took
        /\ UNCHANGED <<clock, held, upload, outbox, work, history>>
    BY <1>8, <2>1, RunFields DEF MergeRun
  <2>4. /\ \A n \in star.took : star.taken[n].pref <= Merge(stamp).pref
        /\ Merge(stamp).pref <= history.newest
    BY <2>2, MergeTyped DEF Ordered
  <2>5. QED
    BY <1>a, <2>3, <2>4 DEF Ordered, Forward
<1>9. CASE HubTakes
  <2> DEFINE patch == [was |-> star.taken[Hub], now |-> star.merged]
  <2>1. /\ history'.newest = history.newest /\ star.stage = "merged"
        /\ star'.merged = star.merged /\ star'.taken = star.taken /\ star'.took = star.took
        /\ UNCHANGED <<clock, upload, outbox, work>>
    <3>1. history'.newest = history.newest
      BY <1>9 DEF HubTakes, Types, Histories
    <3>2. star.stage = "merged" /\ UNCHANGED <<clock, upload, outbox, work>>
      BY <1>9 DEF HubTakes
    <3>3. star'.merged = star.merged /\ star'.taken = star.taken /\ star'.took = star.took
      <4>1. star \in Stars
        BY DEF Types
      <4>2. \/ star' = [star EXCEPT !.stage = "shared", !.left = star.took \ {Hub}]
            \/ star' = [star EXCEPT !.stage = "refused"]
        BY <1>9 DEF HubTakes
      <4>3. QED
        BY <4>1, <4>2 DEF Stars
    <3>4. QED
      BY <3>1, <3>2, <3>3
  <2>2. Forward(patch) /\ patch.was \in Rows /\ patch.now \in Rows /\ held[Hub] \in Rows
    BY <2>1 DEF Types, Stars, Ordered, Forward
  <2>3. held' = held \/ held' = [held EXCEPT ![Hub] = Member(@, patch)]
    BY <1>9 DEF HubTakes
  <2> HIDE DEF patch
  <2>4. /\ Member(held[Hub], patch).pref <= history.newest
        /\ held[Hub].pref = history.newest => Member(held[Hub], patch).pref = history.newest
    BY <2>2, MemberKeepsNewest DEF Ordered
  <2>5. \A n \in Nodes : /\ held'[n].pref <= history.newest
                         /\ held[n].pref = history.newest => held'[n].pref = history.newest
    BY <2>3, <2>4 DEF Types, Ordered
  <2>6. NewestWordHeld'
    BY <2>1, <2>5 DEF NewestWordHeld
  <2>7. QED
    BY <2>1, <2>5, <2>6 DEF Ordered, Forward
<1>10. CASE CommitAgain
  <2>1. /\ star'.merged = star.merged /\ star'.taken = star.taken /\ star'.took = star.took
        /\ star'.stage = star.stage
        /\ UNCHANGED <<clock, held, upload, outbox, work, history>>
    BY <1>10 DEF CommitAgain, Types, Stars
  <2>2. QED
    BY <1>a, <2>1 DEF Ordered, Forward
<1>d. ASSUME NEW n \in Nodes, Landed(n) \/ NotLanded(n)
      PROVE  /\ star'.merged = star.merged /\ star'.taken = star.taken
             /\ star'.took = star.took /\ star'.stage = star.stage
  <2>1. star \in Stars
    BY DEF Types
  <2>2. QED
    BY <1>d, <2>1 DEF Landed, NotLanded, Stars
<1>e. ASSUME UNCHANGED <<clock, upload, outbox>>, history'.newest = history.newest,
             star'.merged = star.merged, star'.taken = star.taken,
             star'.took = star.took, star'.stage = star.stage,
             \A n \in Nodes : /\ held'[n].pref <= history.newest
                              /\ held[n].pref = history.newest => held'[n].pref = history.newest,
             \A a \in Appliances : \A w \in work'[a] :
                w \in work[a] \/ \E v \in work[a] : w.was = v.was /\ w.now = v.now
      PROVE  Ordered' /\ NewestWordHeld'
  <2>1. \A a \in Appliances : \A w \in work'[a] : Forward(w)'
    BY <1>e DEF Ordered, Forward
  <2>2. QED
    BY <1>e, <2>1 DEF Ordered, Forward, NewestWordHeld
<1>11. ASSUME NEW a \in Appliances, Send(a) PROVE Ordered' /\ NewestWordHeld'
  <2>1. CASE (Landed(a) \/ NotLanded(a)) /\ UNCHANGED <<work, history>>
    BY <1>11, <1>d, <1>e, <2>1 DEF Send, Ordered
  <2>2. ASSUME star' = [star EXCEPT !.waiting = a], NEW w,
               w.was = star.taken[a], w.now = star.merged,
               work' = [work EXCEPT ![a] = @ \cup {w}],
               history' = [history EXCEPT !.halves[a] =
                   IF @.run = star.run THEN @ ELSE Untouched(star.run)]
        PROVE  Ordered' /\ NewestWordHeld'
    <3>1. /\ star'.merged = star.merged /\ star'.taken = star.taken /\ star'.took = star.took
          /\ star'.stage = star.stage /\ history'.newest = history.newest
      BY <2>2 DEF Types, Stars, Histories
    <3>2. star.stage = "shared" /\ a \in star.left /\ UNCHANGED <<clock, held, upload, outbox>>
      BY <1>11 DEF Send
    <3>3. Forward(w)
      BY <2>2, <3>2 DEF Shape, Ordered, Forward
    <3>4. \A b \in Appliances : \A v \in work'[b] : Forward(v)
      BY <2>2, <3>3 DEF Types, Ordered
    <3>5. QED
      BY <1>b, <3>1, <3>2, <3>4 DEF Ordered, Forward
  <2>3. CASE \E id \in 1 .. AtOnce :
               /\ star' = [star EXCEPT !.waiting = a]
               /\ history' = [history EXCEPT !.halves[a] =
                     IF @.run = star.run THEN @ ELSE Untouched(star.run)]
               /\ work' = [work EXCEPT ![a] = @ \cup
                    {[id |-> id, run |-> star.run, step |-> "catalogue", wrote |-> FALSE,
                      was |-> star.taken[a], now |-> star.merged,
                      catWas |-> star.cats[a], catNow |-> star.cats[Hub]]}]
    <3>1. PICK id \in 1 .. AtOnce :
               /\ star' = [star EXCEPT !.waiting = a]
               /\ history' = [history EXCEPT !.halves[a] =
                     IF @.run = star.run THEN @ ELSE Untouched(star.run)]
               /\ work' = [work EXCEPT ![a] = @ \cup
                    {[id |-> id, run |-> star.run, step |-> "catalogue", wrote |-> FALSE,
                      was |-> star.taken[a], now |-> star.merged,
                      catWas |-> star.cats[a], catNow |-> star.cats[Hub]]}]
      BY <2>3
    <3> DEFINE w == [id |-> id, run |-> star.run, step |-> "catalogue", wrote |-> FALSE,
                     was |-> star.taken[a], now |-> star.merged,
                     catWas |-> star.cats[a], catNow |-> star.cats[Hub]]
    <3>2. w.was = star.taken[a] /\ w.now = star.merged
      OBVIOUS
    <3>3. work' = [work EXCEPT ![a] = @ \cup {w}]
      BY <3>1
    <3> HIDE DEF w
    <3>4. QED
      BY <2>2, <3>1, <3>2, <3>3
  <2>4. QED
    BY <1>11, <2>1, <2>3 DEF Send
<1>12. ASSUME NEW p \in Phones, Offer(p) PROVE Ordered' /\ NewestWordHeld'
  <2>1. /\ star.stage = "shared" /\ p \in star.left /\ p \in star.took
        /\ outbox' = [outbox EXCEPT ![p] =
              [run |-> star.run, was |-> star.taken[p], now |-> star.merged]]
        /\ UNCHANGED <<clock, held, upload, work, history>>
    BY <1>12 DEF Offer, Shape
  <2>2. /\ star'.merged = star.merged /\ star'.taken = star.taken
        /\ star'.took = star.took /\ star'.stage = star.stage
    BY <1>12, <1>d DEF Offer
  <2>3. \A q \in Phones : Forward(outbox'[q])
    BY <2>1 DEF Types, Ordered, Forward
  <2>4. QED
    BY <1>a, <2>1, <2>2, <2>3 DEF Ordered, Forward
<1>13. ASSUME NEW a \in Appliances, Unreachable(a) \/ NoAnswer(a)
       PROVE  Ordered' /\ NewestWordHeld'
  BY <1>13, <1>d, <1>e DEF Unreachable, NoAnswer, Ordered
<1>14. ASSUME NEW a \in Appliances, PowerCut(a) PROVE Ordered' /\ NewestWordHeld'
  <2>1. history'.newest = history.newest /\ \A b \in Appliances : work'[b] \subseteq work[b]
    BY <1>14 DEF PowerCut, Types, Histories
  <2>2. QED
    BY <1>14, <1>d, <1>e, <2>1 DEF PowerCut, Ordered
<1>f. ASSUME NEW a \in Appliances, NEW w \in work[a]
      PROVE  /\ \A ok \in BOOLEAN : Answered(a, w, ok) =>
                   /\ star'.merged = star.merged /\ star'.taken = star.taken
                   /\ star'.took = star.took /\ star'.stage = star.stage
             /\ \A s, o : Moves(a, w, s, o) =>
                   \A b \in Appliances : \A v \in work'[b] :
                      v \in work[b] \/ \E x \in work[b] : v.was = x.was /\ v.now = x.now
             /\ work' = [work EXCEPT ![a] = @ \ {w}] =>
                   \A b \in Appliances : work'[b] \subseteq work[b]
  <2>1. \A ok \in BOOLEAN : Answered(a, w, ok) =>
                   /\ star'.merged = star.merged /\ star'.taken = star.taken
                   /\ star'.took = star.took /\ star'.stage = star.stage
    BY <1>d DEF Answered
  <2>2. ASSUME NEW s, NEW o, Moves(a, w, s, o)
        PROVE  \A b \in Appliances : \A v \in work'[b] :
                  v \in work[b] \/ \E x \in work[b] : v.was = x.was /\ v.now = x.now
    <3> DEFINE moved == [w EXCEPT !.step = s, !.wrote = o]
    <3>1. moved.was = w.was /\ moved.now = w.now
      BY DEF Types, Works
    <3>2. \A b \in Appliances : \A v \in work'[b] : v \in work[b] \/ (b = a /\ v = moved)
      BY <2>2 DEF Moves, Types
    <3> HIDE DEF moved
    <3>3. QED
      BY <3>1, <3>2
  <2>3. work' = [work EXCEPT ![a] = @ \ {w}] =>
           \A b \in Appliances : work'[b] \subseteq work[b]
    BY DEF Types
  <2>4. QED
    BY <2>1, <2>2, <2>3
<1>15. ASSUME NEW a \in Appliances, NEW w \in work[a], WriteCatalogue(a, w)
       PROVE  Ordered' /\ NewestWordHeld'
  <2>1. /\ UNCHANGED <<clock, held, upload, outbox>>
        /\ history'.newest = history.newest
        /\ UNCHANGED star \/ Answered(a, w, FALSE)
        /\ work' = [work EXCEPT ![a] = @ \ {w}] \/ \E s, o : Moves(a, w, s, o)
    BY <1>15 DEF WriteCatalogue, Types, Histories
  <2>2. /\ star'.merged = star.merged /\ star'.taken = star.taken
        /\ star'.took = star.took /\ star'.stage = star.stage
    BY <1>f, <2>1
  <2>3. \A b \in Appliances : \A v \in work'[b] :
           v \in work[b] \/ \E x \in work[b] : v.was = x.was /\ v.now = x.now
    BY <1>f, <2>1
  <2>4. QED
    BY <1>e, <2>1, <2>2, <2>3 DEF Ordered
<1>16. ASSUME NEW a \in Appliances, NEW w \in work[a], WriteListener(a, w)
       PROVE  Ordered' /\ NewestWordHeld'
  <2>1. /\ UNCHANGED <<clock, star, upload, outbox>>
        /\ history'.newest = history.newest
        /\ \E s, o : Moves(a, w, s, o)
        /\ held' = [held EXCEPT ![a] = Member(@, w)]
    BY <1>16 DEF WriteListener, Types, Histories
  <2>2. w.was \in Rows /\ w.now \in Rows /\ held[a] \in Rows /\ Forward(w)
    BY DEF Types, Works, Ordered
  <2>3. /\ Member(held[a], w).pref <= history.newest
        /\ held[a].pref = history.newest => Member(held[a], w).pref = history.newest
    BY <2>2, MemberKeepsNewest DEF Ordered
  <2>4. \A n \in Nodes : /\ held'[n].pref <= history.newest
                         /\ held[n].pref = history.newest => held'[n].pref = history.newest
    BY <2>1, <2>3 DEF Types, Ordered
  <2>5. \A b \in Appliances : \A v \in work'[b] :
           v \in work[b] \/ \E x \in work[b] : v.was = x.was /\ v.now = x.now
    BY <1>f, <2>1
  <2>6. QED
    BY <1>e, <2>1, <2>4, <2>5
<1>17. ASSUME NEW a \in Appliances, NEW w \in work[a], ListenerFails(a, w) \/ Record(a, w)
       PROVE  Ordered' /\ NewestWordHeld'
  <2>1. /\ UNCHANGED <<clock, held, upload, outbox>>
        /\ history'.newest = history.newest
        /\ Answered(a, w, FALSE) \/ Answered(a, w, TRUE)
        /\ work' = [work EXCEPT ![a] = @ \ {w}]
    BY <1>17 DEF ListenerFails, Record, Types, Histories
  <2>2. /\ star'.merged = star.merged /\ star'.taken = star.taken
        /\ star'.took = star.took /\ star'.stage = star.stage
    BY <1>f, <2>1
  <2>3. \A b \in Appliances : work'[b] \subseteq work[b]
    BY <1>f, <2>1
  <2>4. QED
    BY <1>e, <2>1, <2>2, <2>3 DEF Ordered
<1>18. ASSUME NEW p \in Phones, Visit(p) PROVE Ordered' /\ NewestWordHeld'
  <2>1. /\ UNCHANGED <<clock, upload, outbox, work>>
        /\ history'.newest = history.newest
        /\ star'.merged = star.merged /\ star'.taken = star.taken
        /\ star'.took = star.took /\ star'.stage = star.stage
    BY <1>18 DEF Visit, Types, Histories, Stars
  <2>2. held' = held \/ held' = [held EXCEPT ![p] = Member(@, outbox[p])]
    BY <1>18 DEF Visit
  <2>3. outbox[p].was \in Rows /\ outbox[p].now \in Rows /\ held[p] \in Rows /\ Forward(outbox[p])
    BY DEF Types, Patches, Ordered
  <2>4. /\ Member(held[p], outbox[p]).pref <= history.newest
        /\ held[p].pref = history.newest =>
              Member(held[p], outbox[p]).pref = history.newest
    BY <2>3, MemberKeepsNewest DEF Ordered
  <2>5. \A n \in Nodes : /\ held'[n].pref <= history.newest
                         /\ held[n].pref = history.newest => held'[n].pref = history.newest
    BY <2>2, <2>4 DEF Types, Ordered
  <2>6. QED
    BY <1>e, <2>1, <2>5
<1>g. ASSUME NEW p \in Phones, Clear(p) PROVE \A q \in Phones : Forward(outbox'[q])
  <2>1. Forward(NoPatch)
    BY Stamps DEF Forward, NoPatch, Blank
  <2>2. QED
    BY <1>g, <2>1 DEF Clear, Types, Ordered
<1>19. ASSUME NEW p \in Phones, Tell(p) \/ BreakOff(p) PROVE Ordered' /\ NewestWordHeld'
  <2>1. UNCHANGED <<clock, held, star, upload, work, history>>
    BY <1>19 DEF Tell, BreakOff
  <2>2. \A q \in Phones : Forward(outbox'[q])
    BY <1>19, <1>g DEF Tell, BreakOff, Ordered
  <2>3. QED
    BY <1>a, <2>1, <2>2 DEF Ordered, Forward
<1>20. ASSUME NEW p \in Phones, Upload(p) PROVE Ordered' /\ NewestWordHeld'
  <2>1. UNCHANGED <<clock, held, star, outbox, work, history>>
    BY <1>20 DEF Upload
  <2>2. \A q \in Phones : upload'[q].row = IF q = p THEN held[p] ELSE upload[q].row
    BY <1>20 DEF Upload, Types
  <2>3. QED
    BY <1>a, <2>1, <2>2 DEF Ordered, Forward
<1>21. QED
  BY <1>1, <1>2, <1>3, <1>4, <1>5, <1>6, <1>7, <1>8, <1>9, <1>10, <1>11, <1>12, <1>13, <1>14,
     <1>15, <1>16, <1>17, <1>18, <1>19, <1>20
     DEF Next, Edits, HubSteps, ApplianceSteps, PhoneSteps

(* However the patches of however many runs cross the edits made           *)
(* meanwhile, are lost, come late or are applied twice, somebody in the    *)
(* household still holds the newest word on a preference: a copy that was  *)
(* merged and sent back never takes the last of it.                        *)
THEOREM NewestWordStays == Spec => []NewestWordHeld
<1>1. Init => Types /\ Shape /\ Ordered /\ NewestWordHeld
  BY InitTyped, InitShaped, InitOrdered
<1>2. Types /\ Shape /\ Ordered /\ NewestWordHeld /\ [Next]_vars
         => (Types /\ Shape /\ Ordered /\ NewestWordHeld)'
  BY TypesKept, ShapeKept, OrderKept
<1>3. QED
  BY <1>1, <1>2, PTL DEF Spec
-----------------------------------------------------------------------------
(* The two halves of a run at an appliance that works on one commit at a time. *)

Whole(h) == /\ h.catalogue = "in" => h.listener = "in"
            /\ h.catalogue = "out" => h.listener # "in"

\* What the row of the catalogue says of the halves of a run that would write
\* `now` over `was`: with the listener's half in, it does not hold the old value
\* again, and with the catalogue's put back, it does not hold the new one.
Settled(a, was, now) ==
    LET h == history.halves[a] IN
    /\ h.listener = "in" /\ was # now => cat[a] # was
    /\ h.catalogue = "out" => was # now /\ cat[a] # now

Halfway(w) == w.step = "listener" /\ w.wrote

\* The one commit of an appliance belongs to the run whose halves are remembered,
\* was made of that run's snapshot, and is where the halves say it is.
AtItsStep(a, w) ==
    LET h == history.halves[a] IN
    /\ work[a] = {w} /\ w.run = h.run
    /\ w.run = star.run => w.catWas = star.cats[a] /\ w.catNow = star.cats[Hub]
    /\ w.step = "catalogue" => Settled(a, w.catWas, w.catNow)
    /\ w.step # "catalogue" /\ w.catWas # w.catNow => cat[a] # w.catWas
    /\ Halfway(w) => h.catalogue = "in" /\ h.listener # "in" /\ w.catWas # w.catNow
    /\ ~Halfway(w) => Whole(h)
    /\ w.step = "listener" => h.catalogue # "out"
    /\ w.step = "record" => h.listener = "in"

InStep(a) ==
    LET h == history.halves[a] IN
    /\ h.run <= star.run /\ (star.stage \in {"taking", "merged"} => h.run < star.run)
    /\ h.run = star.run => Settled(a, star.cats[a], star.cats[Hub])
    /\ work[a] = {} => Whole(h)
    /\ \A w \in work[a] : AtItsStep(a, w)

\* No row of the catalogue, here or in a snapshot or a patch, is of a later second.
Dated ==
    /\ \A n \in Stocked : cat[n] <= clock /\ star.cats[n] <= clock
    /\ \A a \in Appliances : \A w \in work[a] : w.catWas <= clock /\ w.catNow <= clock

Halved == Dated /\ \A a \in Appliances \ history.torn : InStep(a)

LEMMA InitHalved == Init => Halved
BY Bounded DEF Init, Halved, Dated, InStep, Settled, Whole, Untouched, AtItsStep

LEMMA Seconds ==
    ASSUME Types
    PROVE  /\ clock \in Nat /\ star.run \in Nat
           /\ \A n \in Stocked : cat[n] \in Nat /\ star.cats[n] \in Nat
           /\ \A a \in Appliances : /\ history.halves[a].run \in Nat
                                    /\ \A w \in work[a] : /\ w \in Works
                                                          /\ w.catWas \in Nat /\ w.catNow \in Nat
                                                          /\ w.run \in Nat
<1>1. Times \subseteq Nat /\ 0 .. MaxRuns \subseteq Nat /\ Runs \subseteq Nat
  BY DEF Times, Runs
<1>2. clock \in Nat /\ star.run \in Nat
  BY <1>1 DEF Types, Stars
<1>3. \A n \in Stocked : cat[n] \in Nat /\ star.cats[n] \in Nat
  BY <1>1 DEF Types, Stars
<1>4. \A a \in Appliances : history.halves[a].run \in Nat
  BY <1>1 DEF Types, Histories, Halves
<1>5. \A w \in Works : w.catWas \in Nat /\ w.catNow \in Nat /\ w.run \in Nat
  BY <1>1 DEF Works
<1>6. \A a \in Appliances : \A w \in work[a] : w \in Works
  BY DEF Types
<1>7. QED
  BY <1>2, <1>3, <1>4, <1>5, <1>6

\* A step that leaves the appliance, its row and the snapshot alone.
LEMMA LeftAlone ==
    ASSUME NEW a \in Appliances, InStep(a),
           star'.run = star.run, star'.cats = star.cats,
           star'.stage \in {"taking", "merged"} => star.stage \in {"taking", "merged"},
           work'[a] = work[a], cat'[a] = cat[a], history'.halves[a] = history.halves[a]
    PROVE  InStep(a)'
<1>1. \A was, now : Settled(a, was, now)' = Settled(a, was, now)
  BY DEF Settled
<1>2. \A w : AtItsStep(a, w)' = AtItsStep(a, w)
  BY <1>1 DEF AtItsStep
<1>3. QED
  BY <1>1, <1>2 DEF InStep

\* A step that writes no row of the catalogue and starts no commit.
LEMMA NothingDated ==
    ASSUME Dated, cat' = cat, clock' = clock, star'.cats = star.cats,
           \A a \in Appliances : \A v \in work'[a] :
              \E w \in work[a] : v.catWas = w.catWas /\ v.catNow = w.catNow
    PROVE  Dated'
BY DEF Dated

\* The commit of an appliance in step moves on or ends.
LEMMA OneCommit ==
    ASSUME Types, NEW a \in Appliances, InStep(a), NEW w \in work[a]
    PROVE  /\ work[a] = {w} /\ AtItsStep(a, w) /\ w \in Works
           /\ \A s, o : Moves(a, w, s, o) =>
                 /\ work'[a] = {[w EXCEPT !.step = s, !.wrote = o]}
                 /\ \A b \in Appliances \ {a} : work'[b] = work[b]
           /\ work' = [work EXCEPT ![a] = @ \ {w}] =>
                 work'[a] = {} /\ \A b \in Appliances \ {a} : work'[b] = work[b]
<1>1. work \in [Appliances -> SUBSET Works]
  BY DEF Types
<1>2. work[a] = {w} /\ AtItsStep(a, w)
  BY DEF InStep, AtItsStep
<1>3. \A s, o : Moves(a, w, s, o) =>
                 /\ work'[a] = {[w EXCEPT !.step = s, !.wrote = o]}
                 /\ \A b \in Appliances \ {a} : work'[b] = work[b]
  BY <1>1, <1>2 DEF Moves
<1>4. QED
  BY <1>1, <1>2, <1>3

LEMMA HalvesKept ==
    ASSUME Types, Types', Shape, AtOnce = 1, Halved, [Next]_vars
    PROVE  Halved'
<1> USE Bounded
<1>a. ASSUME star'.run = star.run, star'.cats = star.cats,
             star'.stage \in {"taking", "merged"} => star.stage \in {"taking", "merged"},
             UNCHANGED <<work, cat>>, clock <= clock',
             history'.halves = history.halves, history'.torn = history.torn
      PROVE  Halved'
  <2>1. Dated'
    <3>1. /\ \A n \in Stocked : cat[n] <= clock' /\ star.cats[n] <= clock'
          /\ \A a \in Appliances : \A w \in work[a] : w.catWas <= clock' /\ w.catNow <= clock'
      <4>1. clock' \in Nat
        BY DEF Types, Times
      <4>2. \A k \in Nat : k <= clock => k <= clock'
        BY <1>a, <4>1, Seconds
      <4>3. QED
        BY <4>2, Seconds DEF Halved, Dated
    <3>2. QED
      BY <1>a, <3>1 DEF Dated
  <2>2. QED
    BY <1>a, <2>1, LeftAlone DEF Halved
<1>b. history.torn \subseteq Appliances /\ star \in Stars /\ history \in Histories
  BY DEF Types, Histories
<1>1. CASE UNCHANGED vars
  BY <1>1, <1>a, Seconds DEF vars
<1>c. ASSUME Edit
      PROVE  /\ clock <= clock' /\ star'.run = star.run /\ star'.cats = star.cats
             /\ star'.stage = star.stage /\ work' = work
             /\ clock' = clock + 1
  BY <1>b, <1>c, Seconds DEF Edit, Stars
<1>2. ASSUME NEW n \in Nodes, SetPreference(n) PROVE Halved'
  BY <1>2, <1>a, <1>b, <1>c DEF SetPreference, Histories
<1>3. ASSUME NEW n \in Nodes, NEW on \in BOOLEAN, SetFlag(n, on) PROVE Halved'
  BY <1>3, <1>a, <1>b, <1>c DEF SetFlag, Histories
<1>4. ASSUME NEW n \in Stocked, EditCatalogue(n) PROVE Halved'
  <2>1. /\ clock' = clock + 1 /\ star'.run = star.run /\ star'.cats = star.cats
        /\ star'.stage = star.stage /\ UNCHANGED <<work, history>>
        /\ cat' = [cat EXCEPT ![n] = clock']
    BY <1>4, <1>c DEF EditCatalogue
  <2>2. \A m \in Stocked : cat'[m] = IF m = n THEN clock + 1 ELSE cat[m]
    BY <2>1 DEF Types
  <2>3. Dated'
    BY <2>1, <2>2, Seconds DEF Halved, Dated
  <2>4. ASSUME NEW a \in Appliances \ history.torn PROVE InStep(a)'
    <3>1. CASE a # n
      BY <2>1, <2>2, <2>4, <3>1, LeftAlone DEF Halved
    <3>2. CASE a = n
      <4>1. InStep(a) /\ cat'[a] = clock + 1
        BY <2>2, <2>4, <3>2 DEF Halved
      <4>2. star.cats[a] # clock + 1 /\ star.cats[Hub] # clock + 1
        BY <2>4, Seconds DEF Halved, Dated
      <4>3. \A w \in work[a] : w.catWas # clock + 1 /\ w.catNow # clock + 1
        BY <2>4, Seconds DEF Halved, Dated
      <4>4. \A was, now : Settled(a, was, now) /\ was # clock + 1 /\ now # clock + 1
                             => Settled(a, was, now)'
        BY <2>1, <4>1 DEF Settled
      <4>5. ASSUME NEW w \in work[a] PROVE AtItsStep(a, w)'
        BY <2>1, <4>1, <4>3, <4>4 DEF InStep, AtItsStep
      <4>6. QED
        BY <2>1, <4>1, <4>2, <4>4, <4>5 DEF InStep
    <3>3. QED
      BY <3>1, <3>2
  <2>5. QED
    BY <2>1, <2>3, <2>4 DEF Halved
<1>5. CASE BeginRun
  <2>1. /\ star'.run = star.run + 1 /\ star'.stage = "taking"
        /\ star'.cats = [n \in Stocked |-> cat[Hub]]
        /\ history'.halves = history.halves /\ history'.torn = history.torn
        /\ UNCHANGED <<clock, cat, work>>
    BY <1>5, <1>b DEF BeginRun, Histories
  <2>2. Dated'
    BY <2>1 DEF Halved, Dated
  <2>3. ASSUME NEW a \in Appliances \ history.torn PROVE InStep(a)'
    <3>1. InStep(a)
      BY <2>3 DEF Halved
    <3>2. history.halves[a].run < star'.run /\ \A w \in work[a] : w.run # star'.run
      <4>1. history.halves[a].run <= star.run /\ \A w \in work[a] : w.run <= star.run
        BY <3>1 DEF InStep, Shape
      <4>2. QED
        BY <2>1, <4>1, Seconds
    <3>3. \A was, now : Settled(a, was, now)' = Settled(a, was, now)
      BY <2>1 DEF Settled
    <3>4. ASSUME NEW w \in work[a] PROVE AtItsStep(a, w)'
      BY <2>1, <3>1, <3>2, <3>3 DEF InStep, AtItsStep
    <3>5. QED
      BY <2>1, <3>1, <3>2, <3>4, Seconds DEF InStep
  <2>4. QED
    BY <2>1, <2>2, <2>3 DEF Halved
<1>6. ASSUME NEW b \in Appliances, TakeAppliance(b) PROVE Halved'
  <2>1. /\ star.stage = "taking" /\ star'.stage = "taking" /\ star'.run = star.run
        /\ star'.cats = [star.cats EXCEPT ![b] = cat[b]]
        /\ UNCHANGED <<clock, cat, work, history>>
    BY <1>6, <1>b DEF TakeAppliance, Stars
  <2>2. Dated'
    BY <2>1, <1>b DEF Halved, Dated, Stars
  <2>3. ASSUME NEW a \in Appliances \ history.torn PROVE InStep(a)'
    <3>1. InStep(a)
      BY <2>3 DEF Halved
    <3>2. history.halves[a].run < star.run /\ \A w \in work[a] : w.run # star.run
      BY <2>1, <3>1, Seconds DEF InStep, AtItsStep
    <3>3. \A was, now : Settled(a, was, now)' = Settled(a, was, now)
      BY <2>1 DEF Settled
    <3>4. ASSUME NEW w \in work[a] PROVE AtItsStep(a, w)'
      BY <2>1, <3>1, <3>2, <3>3 DEF InStep, AtItsStep
    <3>5. QED
      BY <2>1, <3>1, <3>2, <3>4, Seconds DEF InStep
  <2>4. QED
    BY <2>1, <2>2, <2>3 DEF Halved
<1>7. ASSUME NEW p \in Phones, TakePhone(p) PROVE Halved'
  BY <1>7, <1>a, <1>b, Seconds DEF TakePhone, Stars
<1>8. CASE MergeRun
  BY <1>8, <1>a, <1>b, Seconds DEF MergeRun, Stars
<1>9. CASE HubTakes
  <2>1. \/ star' = [star EXCEPT !.stage = "shared", !.left = star.took \ {Hub}]
        \/ star' = [star EXCEPT !.stage = "refused"]
    BY <1>9 DEF HubTakes
  <2>2. star'.run = star.run /\ star'.cats = star.cats /\ star'.stage \in {"shared", "refused"}
    BY <1>b, <2>1 DEF Stars
  <2>3. history'.halves = history.halves /\ history'.torn = history.torn
    BY <1>9, <1>b DEF HubTakes, Histories
  <2>4. QED
    BY <1>9, <1>a, <2>2, <2>3, Seconds DEF HubTakes
<1>10. CASE CommitAgain
  BY <1>10, <1>a, <1>b, Seconds DEF CommitAgain, Stars
<1>d. ASSUME NEW n, Landed(n) \/ NotLanded(n)
      PROVE  star'.run = star.run /\ star'.cats = star.cats /\ star'.stage = star.stage
  BY <1>b, <1>d DEF Landed, NotLanded, Stars
<1>11. ASSUME NEW a \in Appliances, Send(a) PROVE Halved'
  <2>1. CASE (Landed(a) \/ NotLanded(a)) /\ UNCHANGED <<work, history>>
    BY <1>11, <2>1, <1>a, <1>d, Seconds DEF Send
  <2>2. ASSUME star' = [star EXCEPT !.waiting = a], NEW w,
               Cardinality(work[a]) < AtOnce, star.stage = "shared", UNCHANGED <<clock, cat>>,
               w.run = star.run, w.step = "catalogue", w.wrote = FALSE,
               w.catWas = star.cats[a], w.catNow = star.cats[Hub],
               work' = [work EXCEPT ![a] = @ \cup {w}],
               history' = [history EXCEPT !.halves[a] =
                   IF @.run = star.run THEN @ ELSE Untouched(star.run)]
        PROVE  Halved'
    <3>1. /\ star'.run = star.run /\ star'.cats = star.cats /\ star'.stage = star.stage
          /\ history'.torn = history.torn
          /\ history'.halves[a] = IF history.halves[a].run = star.run THEN history.halves[a]
                                  ELSE Untouched(star.run)
          /\ \A b \in Appliances \ {a} : history'.halves[b] = history.halves[b]
      BY <1>b, <2>2 DEF Stars, Histories
    <3>2. work[a] = {}
      <4>1. IsFiniteSet(work[a]) /\ Cardinality(work[a]) \in Nat
        BY FS_CardinalityType DEF Shape
      <4>2. Cardinality(work[a]) = 0
        BY <2>2, <4>1
      <4>3. QED
        BY <4>1, <4>2, FS_EmptySet
    <3>3. work'[a] = {w} /\ \A b \in Appliances \ {a} : work'[b] = work[b]
      BY <2>2, <3>2 DEF Types
    <3>4. Dated'
      BY <2>2, <3>1, <3>3 DEF Halved, Dated
    <3>5. ASSUME NEW b \in Appliances \ history.torn, b # a PROVE InStep(b)'
      BY <2>2, <3>1, <3>3, <3>5, LeftAlone DEF Halved
    <3>6. ASSUME a \notin history.torn PROVE InStep(a)'
      <4>1. InStep(a)
        BY <3>6 DEF Halved
      <4>2. Settled(a, w.catWas, w.catNow)' /\ Whole(history'.halves[a])
            /\ history'.halves[a].run = star.run
        <5>1. CASE history.halves[a].run = star.run
          BY <2>2, <3>1, <3>2, <4>1, <5>1 DEF InStep, Settled
        <5>2. CASE history.halves[a].run # star.run
          BY <3>1, <5>2 DEF Settled, Whole, Untouched
        <5>3. QED
          BY <5>1, <5>2
      <4>3. AtItsStep(a, w)'
        BY <2>2, <3>1, <3>3, <4>2 DEF AtItsStep, Halfway
      <4>4. QED
        BY <2>2, <3>1, <3>3, <4>2, <4>3, Seconds DEF InStep
    <3>7. QED
      BY <3>1, <3>4, <3>5, <3>6 DEF Halved
  <2>3. CASE \E id \in 1 .. AtOnce :
               /\ Cardinality(work[a]) < AtOnce /\ star' = [star EXCEPT !.waiting = a]
               /\ history' = [history EXCEPT !.halves[a] =
                     IF @.run = star.run THEN @ ELSE Untouched(star.run)]
               /\ work' = [work EXCEPT ![a] = @ \cup
                    {[id |-> id, run |-> star.run, step |-> "catalogue", wrote |-> FALSE,
                      was |-> star.taken[a], now |-> star.merged,
                      catWas |-> star.cats[a], catNow |-> star.cats[Hub]]}]
    <3>1. PICK id \in 1 .. AtOnce :
               work' = [work EXCEPT ![a] = @ \cup
                    {[id |-> id, run |-> star.run, step |-> "catalogue", wrote |-> FALSE,
                      was |-> star.taken[a], now |-> star.merged,
                      catWas |-> star.cats[a], catNow |-> star.cats[Hub]]}]
      BY <2>3
    <3> DEFINE w == [id |-> id, run |-> star.run, step |-> "catalogue", wrote |-> FALSE,
                     was |-> star.taken[a], now |-> star.merged,
                     catWas |-> star.cats[a], catNow |-> star.cats[Hub]]
    <3>2. /\ w.run = star.run /\ w.step = "catalogue" /\ w.wrote = FALSE
          /\ w.catWas = star.cats[a] /\ w.catNow = star.cats[Hub]
      OBVIOUS
    <3>3. work' = [work EXCEPT ![a] = @ \cup {w}]
      BY <3>1
    <3> HIDE DEF w
    <3>4. QED
      BY <1>11, <2>2, <2>3, <3>2, <3>3 DEF Send
  <2>4. QED
    BY <1>11, <2>1, <2>3 DEF Send
<1>12. ASSUME NEW p \in Phones, Offer(p) PROVE Halved'
  BY <1>12, <1>a, <1>d, Seconds DEF Offer
<1>13. ASSUME NEW a \in Appliances, Unreachable(a) \/ NoAnswer(a) PROVE Halved'
  BY <1>13, <1>a, <1>d, Seconds DEF Unreachable, NoAnswer
<1>14. ASSUME NEW p \in Phones, Visit(p) PROVE Halved'
  <2>1. /\ star'.run = star.run /\ star'.cats = star.cats /\ star'.stage = star.stage
        /\ history'.halves = history.halves /\ history'.torn = history.torn
    BY <1>14, <1>b DEF Visit, Stars, Histories
  <2>2. QED
    BY <1>14, <2>1, <1>a, Seconds DEF Visit
<1>15. ASSUME NEW p \in Phones, Tell(p) \/ Upload(p) \/ BreakOff(p) PROVE Halved'
  BY <1>15, <1>a, Seconds DEF Tell, Upload, BreakOff

<1>e. ASSUME NEW a \in Appliances,
             star'.run = star.run, star'.cats = star.cats, star'.stage = star.stage,
             \A b \in Appliances \ {a} : /\ work'[b] = work[b] /\ cat'[b] = cat[b]
                                         /\ history'.halves[b] = history.halves[b],
             history.torn \subseteq history'.torn,
             a \notin history'.torn => InStep(a)', Dated'
      PROVE  Halved'
  <2>1. ASSUME NEW b \in Appliances \ history'.torn, b # a PROVE InStep(b)'
    BY <1>e, <2>1, LeftAlone DEF Halved
  <2>2. QED
    BY <1>e, <2>1 DEF Halved
<1>f. ASSUME NEW a \in Appliances, NEW w \in work[a], NEW ok \in BOOLEAN, Answered(a, w, ok)
      PROVE  star'.run = star.run /\ star'.cats = star.cats /\ star'.stage = star.stage
  BY <1>d, <1>f DEF Answered
<1>16. ASSUME NEW a \in Appliances, PowerCut(a) PROVE Halved'
  <2>1. star'.run = star.run /\ star'.cats = star.cats /\ star'.stage = star.stage
    BY <1>16, <1>d DEF PowerCut
  <2>2. /\ UNCHANGED <<clock, cat>> /\ history'.halves = history.halves
        /\ work'[a] = {} /\ \A b \in Appliances \ {a} : work'[b] = work[b]
        /\ history'.torn = IF \E w \in work[a] : w.step = "listener"
                           THEN history.torn \cup {a} ELSE history.torn
    BY <1>16, <1>b DEF PowerCut, Types, Histories
  <2>3. Dated'
    BY <2>1, <2>2, NothingDated DEF Halved
  <2>4. ASSUME a \notin history'.torn PROVE InStep(a)'
    <3>1. InStep(a) /\ \A w \in work[a] : w.step # "listener"
      BY <2>2, <2>4 DEF Halved
    <3>2. Whole(history.halves[a])
      BY <3>1 DEF InStep, AtItsStep, Halfway
    <3>3. \A was, now : Settled(a, was, now)' = Settled(a, was, now)
      BY <2>2 DEF Settled
    <3>4. QED
      BY <2>1, <2>2, <3>1, <3>2, <3>3 DEF InStep
  <2>5. QED
    BY <1>e, <2>1, <2>2, <2>3, <2>4
<1>17. ASSUME NEW a \in Appliances, NEW w \in work[a], WriteCatalogue(a, w) PROVE Halved'
  <2> DEFINE writes == w.catWas # w.catNow /\ cat[a] = w.catWas
  <2>1. CASE ~Expected(cat[a], w.catWas, w.catNow)
    <3>1. /\ work' = [work EXCEPT ![a] = @ \ {w}] /\ Answered(a, w, FALSE)
          /\ UNCHANGED <<clock, cat, history>> /\ w.step = "catalogue"
      BY <1>17, <2>1 DEF WriteCatalogue
    <3>2. star'.run = star.run /\ star'.cats = star.cats /\ star'.stage = star.stage
      BY <1>f, <3>1
    <3>3. \A b \in Appliances : work'[b] \subseteq work[b]
      BY <3>1 DEF Types
    <3>4. Dated'
      BY <3>1, <3>2, <3>3, NothingDated DEF Halved
    <3>5. ASSUME a \notin history'.torn PROVE InStep(a)'
      <4>1. InStep(a)
        BY <3>1, <3>5 DEF Halved
      <4>2. work'[a] = {} /\ AtItsStep(a, w)
        BY <3>1, <4>1, OneCommit
      <4>3. \A was, now : Settled(a, was, now)' = Settled(a, was, now)
        BY <3>1 DEF Settled
      <4>4. QED
        BY <3>1, <3>2, <4>1, <4>2, <4>3 DEF InStep, AtItsStep, Halfway
    <3>6. \A b \in Appliances \ {a} : work'[b] = work[b]
      BY <3>1 DEF Types
    <3>7. QED
      BY <1>e, <3>1, <3>2, <3>4, <3>5, <3>6
  <2>2. CASE Expected(cat[a], w.catWas, w.catNow)
    <3>1. /\ UNCHANGED <<clock, star>> /\ w.step = "catalogue"
          /\ cat' = [cat EXCEPT ![a] = IF writes THEN w.catNow ELSE @]
          /\ Moves(a, w, "listener", writes)
          /\ history' = [history EXCEPT !.halves[a].catalogue =
                 IF writes /\ w.run = history.halves[a].run THEN "in" ELSE @]
      BY <1>17, <2>2 DEF WriteCatalogue
    <3>2. /\ \A b \in Stocked : cat'[b] = IF b = a /\ writes THEN w.catNow ELSE cat[b]
          /\ \A b \in Appliances \ {a} : history'.halves[b] = history.halves[b]
          /\ history'.torn = history.torn
          /\ history'.halves[a].run = history.halves[a].run
          /\ history'.halves[a].listener = history.halves[a].listener
          /\ history'.halves[a].catalogue = IF writes /\ w.run = history.halves[a].run
                                            THEN "in" ELSE history.halves[a].catalogue
      <4>1. history.halves \in [Appliances -> Halves] /\ history.halves[a] \in Halves
        BY <1>b DEF Histories
      <4>2. history'.halves = [history.halves EXCEPT ![a].catalogue =
                 IF writes /\ w.run = history.halves[a].run THEN "in" ELSE @]
            /\ history'.torn = history.torn
        BY <1>b, <3>1 DEF Histories
      <4>3. QED
        BY <3>1, <4>1, <4>2 DEF Types, Halves
    <3>3. /\ work' = [work EXCEPT ![a] = (@ \ {w})
                         \cup {[w EXCEPT !.step = "listener", !.wrote = writes]}]
          /\ w \in Works
      BY <3>1, Seconds DEF Moves
    <3> HIDE DEF writes
    <3>4. Dated'
      <4>1. \A b \in Appliances : \A v \in work'[b] :
               v.catWas <= clock /\ v.catNow <= clock
        <5> DEFINE x == [w EXCEPT !.step = "listener", !.wrote = writes]
        <5>1. x.catWas = w.catWas /\ x.catNow = w.catNow
          BY <3>3 DEF Works
        <5>2. work' = [work EXCEPT ![a] = (@ \ {w}) \cup {x}]
          BY <3>3
        <5> HIDE DEF x
        <5>3. \A b \in Appliances : \A v \in work'[b] : v \in work[b] \/ (b = a /\ v = x)
          BY <5>2 DEF Types
        <5>4. QED
          BY <5>1, <5>3 DEF Halved, Dated
      <4>2. w.catNow <= clock
        BY DEF Halved, Dated
      <4>3. QED
        BY <3>1, <3>2, <4>1, <4>2 DEF Halved, Dated
    <3>5. ASSUME a \notin history'.torn PROVE InStep(a)'
      <4>1. InStep(a)
        BY <3>2, <3>5 DEF Halved
      <4>2. /\ work[a] = {w} /\ AtItsStep(a, w)
            /\ work'[a] = {[w EXCEPT !.step = "listener", !.wrote = writes]}
        BY <3>1, <4>1, OneCommit
      <4>3. PICK v : /\ work'[a] = {v} /\ v.step = "listener" /\ v.wrote = writes
                     /\ v.run = w.run /\ v.catWas = w.catWas /\ v.catNow = w.catNow
        <5> DEFINE x == [w EXCEPT !.step = "listener", !.wrote = writes]
        <5>1. /\ x.step = "listener" /\ x.wrote = writes /\ x.run = w.run
              /\ x.catWas = w.catWas /\ x.catNow = w.catNow
          BY <3>3 DEF Works
        <5>2. work'[a] = {x}
          BY <4>2
        <5> HIDE DEF x
        <5>3. QED
          BY <5>1, <5>2
      <4>4. w.run = history.halves[a].run /\ Settled(a, w.catWas, w.catNow)
            /\ Whole(history.halves[a])
        BY <3>1, <4>2 DEF AtItsStep, Halfway
      <4>5. /\ writes => /\ history.halves[a].listener # "in" /\ w.catWas # w.catNow
                         /\ cat'[a] = w.catNow /\ history'.halves[a].catalogue = "in"
            /\ ~writes => /\ history'.halves[a].catalogue = history.halves[a].catalogue
                          /\ history.halves[a].catalogue # "out"
                          /\ cat'[a] = cat[a]
                          /\ w.catWas = w.catNow \/ cat[a] = w.catNow
        BY <2>2, <3>2, <4>4 DEF writes, Settled, Expected
      <4>6. AtItsStep(a, v)'
        <5>1. CASE writes
          BY <3>1, <3>2, <4>2, <4>3, <4>4, <4>5, <5>1 DEF AtItsStep, Halfway, Whole
        <5>2. CASE ~writes
          BY <3>1, <3>2, <4>2, <4>3, <4>4, <4>5, <5>2 DEF AtItsStep, Halfway, Whole
        <5>3. QED
          BY <5>1, <5>2
      <4>7. (history.halves[a].run = star.run => Settled(a, star.cats[a], star.cats[Hub]))'
        BY <3>1, <3>2, <4>2, <4>4, <4>5 DEF AtItsStep, Settled
      <4>8. (history.halves[a].run <= star.run
             /\ (star.stage \in {"taking", "merged"} => history.halves[a].run < star.run))'
        BY <3>1, <3>2, <4>1 DEF InStep
      <4>9. QED
        BY <4>3, <4>6, <4>7, <4>8 DEF InStep
    <3>6. \A b \in Appliances \ {a} : work'[b] = work[b]
      BY <3>3 DEF Types
    <3>7. QED
      BY <1>e, <3>1, <3>2, <3>4, <3>5, <3>6
  <2>3. QED
    BY <2>1, <2>2
<1>18. ASSUME NEW a \in Appliances, NEW w \in work[a], WriteListener(a, w) PROVE Halved'
  <2>1. /\ UNCHANGED <<clock, star, cat>> /\ w.step = "listener" /\ w \in Works
        /\ Moves(a, w, "record", w.wrote)
        /\ history' = [history EXCEPT
             !.halves[a].listener = IF w.run = history.halves[a].run THEN "in" ELSE @]
    BY <1>18, Seconds DEF WriteListener
  <2>2. /\ \A b \in Appliances \ {a} : history'.halves[b] = history.halves[b]
        /\ history'.torn = history.torn
        /\ history'.halves[a].run = history.halves[a].run
        /\ history'.halves[a].catalogue = history.halves[a].catalogue
        /\ w.run = history.halves[a].run => history'.halves[a].listener = "in"
    <3>1. history.halves \in [Appliances -> Halves] /\ history.halves[a] \in Halves
      BY <1>b DEF Histories
    <3>2. history'.halves = [history.halves EXCEPT ![a].listener =
               IF w.run = history.halves[a].run THEN "in" ELSE @]
          /\ history'.torn = history.torn
      BY <1>b, <2>1 DEF Histories
    <3>3. QED
      BY <3>1, <3>2 DEF Halves
  <2>3. work' = [work EXCEPT ![a] = (@ \ {w}) \cup {[w EXCEPT !.step = "record", !.wrote = w.wrote]}]
    BY <2>1 DEF Moves
  <2>4. Dated'
    <3>1. \A b \in Appliances : \A v \in work'[b] :
               \E x \in work[b] : v.catWas = x.catWas /\ v.catNow = x.catNow
      BY <2>1, <2>3 DEF Types, Works
    <3>2. QED
      BY <2>1, <3>1, NothingDated DEF Halved
  <2>5. ASSUME a \notin history'.torn PROVE InStep(a)'
    <3>1. InStep(a)
      BY <2>2, <2>5 DEF Halved
    <3>2. work[a] = {w} /\ AtItsStep(a, w)
      BY <3>1, OneCommit
    <3> DEFINE v == [w EXCEPT !.step = "record", !.wrote = w.wrote]
    <3>3. /\ v.step = "record" /\ v.run = w.run
          /\ v.catWas = w.catWas /\ v.catNow = w.catNow
      BY <2>1 DEF Works
    <3>4. work'[a] = {v}
      BY <2>3, <3>2 DEF Types
    <3> HIDE DEF v
    <3>5. /\ history'.halves[a].catalogue # "out" /\ history'.halves[a].listener = "in"
          /\ w.catWas # w.catNow => cat[a] # w.catWas
      BY <2>1, <2>2, <3>2 DEF AtItsStep
    <3>6. AtItsStep(a, v)'
      BY <2>1, <2>2, <3>2, <3>3, <3>4, <3>5 DEF AtItsStep, Halfway, Whole
    <3>7. history.halves[a].run = star.run => Settled(a, star.cats[a], star.cats[Hub])'
      BY <2>1, <3>2, <3>5 DEF AtItsStep, Settled
    <3>8. QED
      BY <2>1, <2>2, <3>1, <3>4, <3>6, <3>7 DEF InStep
  <2>6. \A b \in Appliances \ {a} : work'[b] = work[b]
    BY <2>3 DEF Types
  <2>7. QED
    BY <1>e, <2>1, <2>2, <2>4, <2>5, <2>6
<1>19. ASSUME NEW a \in Appliances, NEW w \in work[a], ListenerFails(a, w) PROVE Halved'
  <2>1. /\ clock' = clock /\ w.step = "listener" /\ w \in Works
        /\ work' = [work EXCEPT ![a] = @ \ {w}]
        /\ cat' = [cat EXCEPT ![a] = Undone(@, w)]
        /\ history' = [history EXCEPT
             !.halves[a].catalogue = IF w.wrote /\ cat'[a] = w.catWas THEN "out" ELSE @,
             !.torn = IF w.wrote /\ cat[a] # w.catNow THEN @ \cup {a} ELSE @]
        /\ Answered(a, w, FALSE)
    BY <1>19, Seconds DEF ListenerFails
  <2>2. /\ \A b \in Appliances \ {a} : history'.halves[b] = history.halves[b]
        /\ history'.torn = IF w.wrote /\ cat[a] # w.catNow
                           THEN history.torn \cup {a} ELSE history.torn
        /\ history'.halves[a].run = history.halves[a].run
        /\ history'.halves[a].listener = history.halves[a].listener
        /\ history'.halves[a].catalogue = IF w.wrote /\ cat'[a] = w.catWas
                                          THEN "out" ELSE history.halves[a].catalogue
    <3>1. history.halves \in [Appliances -> Halves] /\ history.halves[a] \in Halves
      BY <1>b DEF Histories
    <3>2. history'.halves = [history.halves EXCEPT ![a].catalogue =
               IF w.wrote /\ cat'[a] = w.catWas THEN "out" ELSE @]
          /\ history'.torn = IF w.wrote /\ cat[a] # w.catNow
                             THEN history.torn \cup {a} ELSE history.torn
      BY <1>b, <2>1 DEF Histories
    <3>3. QED
      BY <3>1, <3>2 DEF Halves
  <2>3. \A b \in Stocked : cat'[b] = IF b = a /\ w.wrote /\ cat[a] = w.catNow
                                     THEN w.catWas ELSE cat[b]
    BY <2>1 DEF Types, Undone
  <2>4. star'.run = star.run /\ star'.cats = star.cats /\ star'.stage = star.stage
    BY <1>f, <2>1
  <2>5. \A b \in Appliances : work'[b] \subseteq work[b]
    BY <2>1 DEF Types
  <2>6. Dated'
    BY <2>1, <2>3, <2>4, <2>5 DEF Halved, Dated
  <2>7. ASSUME a \notin history'.torn PROVE InStep(a)'
    <3>1. InStep(a) /\ (w.wrote => cat[a] = w.catNow)
      BY <2>2, <2>7 DEF Halved
    <3>2. work'[a] = {} /\ AtItsStep(a, w)
      BY <2>1, <3>1, OneCommit
    <3>3. CASE w.wrote
      <4>1. /\ cat'[a] = w.catWas /\ history'.halves[a].catalogue = "out"
            /\ history'.halves[a].listener # "in" /\ w.catWas # w.catNow
            /\ w.run = history.halves[a].run
        BY <2>1, <2>2, <2>3, <3>1, <3>2, <3>3 DEF AtItsStep, Halfway
      <4>2. history.halves[a].run = star.run => Settled(a, star.cats[a], star.cats[Hub])'
        BY <2>4, <3>2, <4>1 DEF AtItsStep, Settled
      <4>3. QED
        BY <2>2, <2>4, <3>1, <3>2, <4>1, <4>2 DEF InStep, Whole
    <3>4. CASE ~w.wrote
      <4>1. /\ cat'[a] = cat[a] /\ history'.halves[a].catalogue = history.halves[a].catalogue
            /\ Whole(history.halves[a])
        BY <2>2, <2>3, <3>2, <3>4 DEF AtItsStep, Halfway
      <4>2. \A was, now : Settled(a, was, now) => Settled(a, was, now)'
        BY <2>2, <4>1 DEF Settled
      <4>3. QED
        BY <2>2, <2>4, <3>1, <3>2, <4>1, <4>2 DEF InStep, Whole
    <3>5. QED
      BY <3>3, <3>4
  <2>8. \A b \in Appliances \ {a} : work'[b] = work[b] /\ cat'[b] = cat[b]
    BY <2>1, <2>3 DEF Types
  <2>9. QED
    BY <1>e, <2>2, <2>4, <2>6, <2>7, <2>8
<1>20. ASSUME NEW a \in Appliances, NEW w \in work[a], Record(a, w) PROVE Halved'
  <2>1. /\ UNCHANGED <<clock, cat, history>> /\ w.step = "record"
        /\ work' = [work EXCEPT ![a] = @ \ {w}] /\ Answered(a, w, TRUE)
    BY <1>20 DEF Record
  <2>2. star'.run = star.run /\ star'.cats = star.cats /\ star'.stage = star.stage
    BY <1>f, <2>1
  <2>3. \A b \in Appliances : work'[b] \subseteq work[b]
    BY <2>1 DEF Types
  <2>4. Dated'
    BY <2>1, <2>2, <2>3, NothingDated DEF Halved
  <2>5. ASSUME a \notin history'.torn PROVE InStep(a)'
    <3>1. InStep(a)
      BY <2>1, <2>5 DEF Halved
    <3>2. work'[a] = {} /\ AtItsStep(a, w)
      BY <2>1, <3>1, OneCommit
    <3>3. \A was, now : Settled(a, was, now)' = Settled(a, was, now)
      BY <2>1 DEF Settled
    <3>4. QED
      BY <2>1, <2>2, <3>1, <3>2, <3>3 DEF InStep, AtItsStep, Halfway
  <2>6. \A b \in Appliances \ {a} : work'[b] = work[b]
    BY <2>1 DEF Types
  <2>7. QED
    BY <1>e, <2>1, <2>2, <2>4, <2>5, <2>6
<1>21. QED
  BY <1>1, <1>2, <1>3, <1>4, <1>5, <1>6, <1>7, <1>8, <1>9, <1>10, <1>11, <1>12, <1>13, <1>14,
     <1>15, <1>16, <1>17, <1>18, <1>19, <1>20
     DEF Next, Edits, HubSteps, ApplianceSteps, PhoneSteps

(* An appliance that works on one commit at a time never ends up with half *)
(* of a run: whatever order requests, retries, edits and failures come in, *)
(* when nothing is under way it holds both databases' halves or neither,   *)
(* unless it lost its power between them or its catalogue was edited       *)
(* before it could be put back.                                            *)
THEOREM HalvesGoTogether == ASSUME AtOnce = 1 PROVE Spec => []NeverHalfASwitch
<1>1. Init => Types /\ Shape /\ Halved
  BY InitTyped, InitShaped, InitHalved
<1>2. Types /\ Shape /\ Halved /\ [Next]_vars => (Types /\ Shape /\ Halved)'
  BY TypesKept, ShapeKept, HalvesKept
<1>3. Types /\ Halved => NeverHalfASwitch
  BY DEF Halved, InStep, Whole, NeverHalfASwitch
<1>4. QED
  BY <1>1, <1>2, <1>3, PTL DEF Spec

-----------------------------------------------------------------------------
(* A run that goes undisturbed: where everybody is on the way from what    *)
(* was taken of them to what was merged.                                   *)

\* What waits for a phone is of this run only once it was merged and shared.
Boxed ==
    /\ star.stage # "none" => star.run \in Nat \ {0}
    /\ star.stage \in {"taking", "merged"} => star.landed = {}
    /\ \A p \in Phones :
          outbox[p] # NoPatch =>
             /\ outbox[p].run \in 1 .. star.run
             /\ outbox[p].run = star.run =>
                   /\ star.stage = "shared" /\ p \in star.took
                   /\ outbox[p].was = star.taken[p] /\ outbox[p].now = star.merged

\* A node that was taken holds what was taken of it or, once that is shared, what
\* was merged.
Brought(n) ==
    held[n] = star.taken[n] \/ (star.stage = "shared" /\ held[n] = star.merged)

\* The commit of an appliance is the run's, and what it is past is done.
OfThisRun(a, w) ==
    /\ w.run = star.run /\ w.was = star.taken[a] /\ w.now = star.merged
    /\ w.catWas = star.cats[a] /\ w.catNow = star.cats[Hub]
    /\ w.step # "catalogue" => cat[a] = w.catNow
    /\ w.step = "record" => held[a] = star.merged
    /\ w.wrote => w.catWas # w.catNow /\ a \notin star.landed

ApplianceFollows(a) ==
    /\ star.stage # "shared" => work[a] = {}
    /\ Brought(a) /\ cat[a] \in {star.cats[a], star.cats[Hub]}
    /\ \A w \in work[a] : OfThisRun(a, w)
    /\ a \in star.landed => held[a] = star.merged /\ cat[a] = star.cats[Hub]

PhoneFollows(p) ==
    /\ phone[p].step = "tell" =>
          /\ phone[p].run = star.run /\ star.stage = "shared"
          /\ p \in star.took /\ held[p] = star.merged
    /\ p \in star.took => Brought(p)
    /\ p \in star.landed => held[p] = star.merged \/ (outbox[p] # NoPatch /\ outbox[p].run = star.run)

HubFollows ==
    /\ held[Hub] = IF star.stage = "shared" THEN star.merged ELSE star.taken[Hub]
    /\ cat[Hub] = star.cats[Hub]

Undisturbed == star.quiet /\ star.stage \in {"taking", "merged", "shared"}

Followed ==
    Undisturbed => /\ HubFollows
                   /\ \A a \in Appliances \cap star.took : ApplianceFollows(a)
                   /\ \A p \in Phones : PhoneFollows(p)

LEMMA InitFollowed == Init => Boxed /\ Followed
BY DEF Init, Boxed, Followed, Undisturbed

\* The run is what it was, and no less disturbed.
SameRun ==
    /\ star'.run = star.run /\ star'.stage = star.stage /\ star'.took = star.took
    /\ star'.taken = star.taken /\ star'.cats = star.cats /\ star'.merged = star.merged
    /\ star'.quiet => star.quiet

LEMMA RunGoesOn ==
    ASSUME Types
    PROVE  /\ Edit => SameRun /\ ~star'.quiet /\ star'.landed = star.landed
           /\ \A n : Landed(n) => SameRun /\ star'.landed = star.landed \cup {n}
           /\ \A n : NotLanded(n) => SameRun /\ star'.landed = star.landed
           /\ UNCHANGED star => SameRun /\ star'.landed = star.landed
<1>1. star \in Stars
  BY DEF Types
<1>2. QED
  BY <1>1 DEF Edit, Landed, NotLanded, SameRun, Stars

LEMMA BoxedOn ==
    ASSUME Boxed, SameRun, star.stage \in {"taking", "merged"} => star'.landed = {},
           \A p \in Phones : outbox'[p] \in {outbox[p], NoPatch}
    PROVE  Boxed'
BY DEF Boxed, SameRun

\* An appliance and a phone that a step leaves alone.
LEMMA ApplianceAlone ==
    ASSUME NEW a, SameRun, ApplianceFollows(a),
           work'[a] = work[a], held'[a] = held[a], cat'[a] = cat[a],
           a \in star'.landed => a \in star.landed
    PROVE  ApplianceFollows(a)'
BY DEF SameRun, ApplianceFollows, Brought, OfThisRun

LEMMA PhoneAlone ==
    ASSUME NEW p, SameRun, PhoneFollows(p),
           phone'[p] = phone[p], held'[p] = held[p], outbox'[p] = outbox[p],
           p \in star'.landed => p \in star.landed
    PROVE  PhoneFollows(p)'
BY DEF SameRun, PhoneFollows, Brought

LEMMA HubAlone ==
    ASSUME SameRun, HubFollows, held'[Hub] = held[Hub], cat'[Hub] = cat[Hub]
    PROVE  HubFollows'
BY DEF SameRun, HubFollows

\* What a patch makes of what it was made from, or has made already.
LEMMA PatchBrings ==
    ASSUME NEW patch, patch.was \in Rows, patch.now \in Rows,
           NEW cur, cur = patch.was \/ cur = patch.now
    PROVE  Member(cur, patch) = patch.now
BY DEF Member, Rows

LEMMA OneAtATime ==
    ASSUME Shape, AtOnce = 1, NEW a \in Appliances, NEW w \in work[a]
    PROVE  work[a] = {w}
<1>1. IsFiniteSet(work[a]) /\ Cardinality(work[a]) <= 1
  BY DEF Shape
<1>2. /\ IsFiniteSet(work[a] \ {w}) /\ Cardinality(work[a] \ {w}) = Cardinality(work[a]) - 1
      /\ Cardinality(work[a]) \in Nat
  BY <1>1, OneLess
<1>3. Cardinality(work[a] \ {w}) \in Nat
  BY <1>2, FS_CardinalityType
<1>4. Cardinality(work[a] \ {w}) = 0
  BY <1>1, <1>2, <1>3
<1>5. work[a] \ {w} = {}
  BY <1>2, <1>4, FS_EmptySet
<1>6. QED
  BY <1>5

\* A step at one appliance, or of the hub with it.
LEMMA OneApplianceMoves ==
    ASSUME Types, Shape, Followed, SameRun, NEW a \in Appliances,
           Undisturbed /\ a \in star.took => ApplianceFollows(a)',
           UNCHANGED <<outbox, phone>>, held'[Hub] = held[Hub], cat'[Hub] = cat[Hub],
           \A n \in Nodes \ {a} : held'[n] = held[n],
           \A b \in Appliances \ {a} : work'[b] = work[b] /\ cat'[b] = cat[b],
           star'.landed \subseteq star.landed \cup {a}
    PROVE  Followed'
<1>1. SUFFICES ASSUME Undisturbed' PROVE Followed'
  BY DEF Followed
<1>2. Undisturbed
  BY <1>1 DEF Undisturbed, SameRun
<1>3. HubFollows'
  BY <1>2, HubAlone DEF Followed
<1>4. ASSUME NEW b \in Appliances \cap star'.took PROVE ApplianceFollows(b)'
  <2>1. b \in star.took
    BY <1>4 DEF SameRun
  <2>2. CASE b = a
    BY <1>2, <2>1, <2>2
  <2>3. CASE b # a
    BY <1>2, <2>1, <2>3, Bounded, ApplianceAlone DEF Followed
  <2>4. QED
    BY <2>2, <2>3
<1>5. ASSUME NEW p \in Phones PROVE PhoneFollows(p)'
  <2>1. p # a /\ p \in Nodes
    BY Bounded, FleetAssumption
  <2>2. QED
    BY <1>2, <2>1, PhoneAlone DEF Followed
<1>6. QED
  BY <1>3, <1>4, <1>5 DEF Followed

\* A step at one phone, or of the hub with it.
LEMMA OnePhoneMoves ==
    ASSUME Types, Shape, Followed, SameRun, NEW p \in Phones,
           Undisturbed' => PhoneFollows(p)',
           UNCHANGED <<cat, work>>,
           \A n \in Nodes \ {p} : held'[n] = held[n],
           \A q \in Phones \ {p} : outbox'[q] = outbox[q] /\ phone'[q] = phone[q],
           star'.landed \subseteq star.landed \cup {p}
    PROVE  Followed'
<1>1. SUFFICES ASSUME Undisturbed' PROVE Followed'
  BY DEF Followed
<1>2. Undisturbed
  BY <1>1 DEF Undisturbed, SameRun
<1>3. HubFollows'
  BY <1>2, HubAlone, Bounded, FleetAssumption DEF Followed
<1>4. ASSUME NEW b \in Appliances \cap star'.took PROVE ApplianceFollows(b)'
  <2>1. b \in star.took /\ b # p /\ b \in Nodes
    BY <1>4, Bounded, FleetAssumption DEF SameRun
  <2>2. QED
    BY <1>2, <2>1, ApplianceAlone DEF Followed
<1>5. ASSUME NEW q \in Phones PROVE PhoneFollows(q)'
  <2>1. CASE q = p
    BY <1>1, <2>1
  <2>2. CASE q # p
    BY <1>2, <2>2, Bounded, PhoneAlone DEF Followed
  <2>3. QED
    BY <2>1, <2>2
<1>6. QED
  BY <1>3, <1>4, <1>5 DEF Followed

LEMMA BoxedKept == ASSUME Types, Types', Shape, Boxed, [Next]_vars PROVE Boxed'
<1> USE Bounded
<1>a. /\ star \in Stars /\ star.run \in Nat /\ NoOne \notin Nodes
      /\ outbox \in [Phones -> Patches]
      /\ \A p \in Phones : outbox[p].run \in Nat
  BY FleetAssumption DEF Types, Stars, Patches, Nodes
<1>1. CASE UNCHANGED <<star, outbox>>
  BY <1>1, <1>a, RunGoesOn, BoxedOn DEF Boxed
<1>2. CASE Edit
  <2>1. SameRun /\ star'.landed = star.landed /\ UNCHANGED outbox
    BY <1>2, RunGoesOn DEF Edit
  <2>2. QED
    BY <2>1, BoxedOn DEF Boxed
<1>3. CASE BeginRun
  <2>1. /\ star'.run = star.run + 1 /\ star'.landed = {} /\ star'.stage = "taking"
        /\ UNCHANGED outbox
    BY <1>3 DEF BeginRun
  <2>2. \A p \in Phones : outbox[p] # NoPatch => outbox[p].run \in 1 .. star'.run /\ outbox[p].run # star'.run
    BY <1>a, <2>1 DEF Boxed
  <2>3. QED
    BY <1>a, <2>1, <2>2 DEF Boxed
<1>4. ASSUME star.stage = "taking", UNCHANGED outbox,
             star'.run = star.run, star'.landed = star.landed, star'.stage = "taking"
      PROVE Boxed'
  <2>1. \A p \in Phones : outbox[p] # NoPatch => outbox[p].run # star.run
    BY <1>4 DEF Boxed
  <2>2. QED
    BY <1>4, <2>1 DEF Boxed
<1>5. ASSUME NEW a \in Appliances, TakeAppliance(a) PROVE Boxed'
  BY <1>5, <1>4, <1>a DEF TakeAppliance, Stars
<1>6. ASSUME NEW p \in Phones, TakePhone(p) PROVE Boxed'
  BY <1>6, <1>4, <1>a DEF TakePhone, Stars
<1>7. CASE MergeRun
  <2>1. /\ star'.run = star.run /\ star'.landed = star.landed /\ star'.stage = "merged"
        /\ star.stage = "taking" /\ UNCHANGED outbox
    BY <1>7, <1>a DEF MergeRun, Stars
  <2>2. \A p \in Phones : outbox[p] # NoPatch => outbox[p].run # star.run
    BY <2>1 DEF Boxed
  <2>3. QED
    BY <2>1, <2>2 DEF Boxed
<1>8. CASE HubTakes
  <2>1. /\ star'.run = star.run /\ star'.landed = star.landed /\ star'.stage \in {"shared", "refused"}
        /\ star.stage = "merged" /\ UNCHANGED outbox
    BY <1>8, <1>a DEF HubTakes, Stars
  <2>2. \A p \in Phones : outbox[p] # NoPatch => outbox[p].run # star.run
    BY <2>1 DEF Boxed
  <2>3. QED
    BY <2>1, <2>2 DEF Boxed
<1>9. ASSUME NEW p \in Phones, Offer(p) PROVE Boxed'
  <2>1. /\ SameRun /\ star.stage = "shared" /\ p \in star.took
    BY <1>9, RunGoesOn DEF Offer, Shape
  <2>2. /\ outbox'[p] = [run |-> star.run, was |-> star.taken[p], now |-> star.merged]
        /\ \A q \in Phones \ {p} : outbox'[q] = outbox[q]
    BY <1>9, <1>a DEF Offer
  <2>3. star.run \in 1 .. star.run
    BY <1>a, <2>1 DEF Boxed
  <2>4. QED
    BY <2>1, <2>2, <2>3 DEF Boxed, SameRun
<1>10. ASSUME NEW n, Landed(n) \/ NotLanded(n), star.stage = "shared", UNCHANGED outbox
       PROVE  Boxed'
  <2>1. SameRun
    BY <1>10, RunGoesOn
  <2>2. QED
    BY <1>10, <2>1, BoxedOn
<1>11. ASSUME NEW a \in Appliances, Send(a) PROVE Boxed'
  <2>1. star.stage = "shared" /\ UNCHANGED outbox
    BY <1>11 DEF Send
  <2>2. \/ Landed(a) \/ NotLanded(a)
        \/ star' = [star EXCEPT !.waiting = a]
    BY <1>11 DEF Send
  <2>3. CASE star' = [star EXCEPT !.waiting = a]
    <3>1. SameRun
      BY <2>3, <1>a DEF SameRun, Stars
    <3>2. QED
      BY <2>1, <3>1, BoxedOn
  <2>4. QED
    BY <2>1, <2>2, <2>3, <1>10
<1>12. ASSUME NEW a \in Appliances, Unreachable(a) \/ NoAnswer(a) \/ PowerCut(a) PROVE Boxed'
  <2>1. CASE star.waiting = NoOne /\ ~Unreachable(a)
    <3>1. UNCHANGED <<star, outbox>>
      BY <1>12, <1>a, <2>1, FleetAssumption DEF NoAnswer, PowerCut
    <3>2. QED
      BY <3>1, <1>1
  <2>2. CASE star.stage = "shared"
    BY <1>12, <2>2, <1>10, <1>1 DEF Unreachable, NoAnswer, PowerCut
  <2>3. QED
    BY <1>12, <2>1, <2>2 DEF Unreachable, Shape
<1>13. CASE CommitAgain
  <2>1. SameRun /\ star.stage = "shared" /\ UNCHANGED outbox
    BY <1>13, <1>a DEF CommitAgain, SameRun, Stars
  <2>2. QED
    BY <2>1, BoxedOn
<1>14. ASSUME NEW a \in Appliances, NEW w \in work[a], UNCHANGED outbox,
              \/ UNCHANGED star
              \/ \E ok \in BOOLEAN : Answered(a, w, ok)
       PROVE  Boxed'
  <2>1. UNCHANGED star \/ ((Landed(a) \/ NotLanded(a)) /\ star.waiting = a)
    BY <1>14 DEF Answered, Heard
  <2>2. star.waiting = a => star.stage = "shared"
    BY <1>a DEF Shape
  <2>3. QED
    BY <1>14, <2>1, <2>2, <1>1, <1>10
<1>15. ASSUME NEW a \in Appliances, NEW w \in work[a],
              WriteCatalogue(a, w) \/ WriteListener(a, w) \/ ListenerFails(a, w) \/ Record(a, w)
       PROVE  Boxed'
  BY <1>15, <1>14 DEF WriteCatalogue, WriteListener, ListenerFails, Record
<1>16. ASSUME NEW p \in Phones, Visit(p) PROVE Boxed'
  <2>1. SameRun /\ star'.landed = star.landed /\ UNCHANGED outbox
    BY <1>16, <1>a DEF Visit, SameRun, Stars
  <2>2. QED
    BY <2>1, BoxedOn DEF Boxed
<1>17. ASSUME NEW p \in Phones, UNCHANGED star, Clear(p) PROVE Boxed'
  <2>1. \A q \in Phones : outbox'[q] \in {outbox[q], NoPatch}
    BY <1>17, <1>a DEF Clear
  <2>2. QED
    BY <1>17, <2>1, RunGoesOn, BoxedOn DEF Boxed
<1>18. ASSUME NEW p \in Phones, Tell(p) \/ Upload(p) \/ BreakOff(p) PROVE Boxed'
  BY <1>18, <1>17, <1>1 DEF Tell, Upload, BreakOff
<1>19. QED
  BY <1>1, <1>2, <1>3, <1>5, <1>6, <1>7, <1>8, <1>9, <1>11, <1>12, <1>13, <1>15, <1>16, <1>18
     DEF Next, Edits, HubSteps, ApplianceSteps, PhoneSteps, SetPreference, SetFlag, EditCatalogue, vars

\* A step that touches neither databases nor commits nor patches.
LEMMA NothingMoves ==
    ASSUME Types, Followed, SameRun, star'.landed = star.landed,
           UNCHANGED <<held, cat, outbox, phone, work>>
    PROVE  Followed'
<1>1. SUFFICES ASSUME Undisturbed' PROVE Followed'
  BY DEF Followed
<1>2. Undisturbed
  BY <1>1 DEF Undisturbed, SameRun
<1>3. HubFollows'
  BY <1>2, HubAlone DEF Followed
<1>4. \A a \in Appliances \cap star'.took : ApplianceFollows(a)'
  BY <1>2, ApplianceAlone DEF Followed, SameRun
<1>5. \A p \in Phones : PhoneFollows(p)'
  BY <1>2, PhoneAlone DEF Followed
<1>6. QED
  BY <1>3, <1>4, <1>5 DEF Followed

\* The hub's own steps: the run begins, takes a node, is merged, and is shared.
LEMMA HubFollowsItsRun ==
    ASSUME Types, Types', Boxed, Followed,
           \/ BeginRun \/ MergeRun \/ HubTakes
           \/ \E a \in Appliances : TakeAppliance(a)
           \/ \E p \in Phones : TakePhone(p)
    PROVE  Followed'
<1> USE Bounded
<1>a. star \in Stars /\ held \in [Nodes -> Rows] /\ cat \in [Stocked -> Times]
  BY DEF Types
<1>1. SUFFICES ASSUME Undisturbed' PROVE Followed'
  BY DEF Followed
<1>2. CASE BeginRun
  <2>1. /\ star'.stage = "taking" /\ star'.took = {Hub} /\ star'.landed = {}
        /\ star'.taken[Hub] = held[Hub] /\ star'.cats[Hub] = cat[Hub]
        /\ \A p \in Phones : phone[p].step = "away"
        /\ UNCHANGED <<held, cat, phone>>
    BY <1>1, <1>2 DEF BeginRun, Undisturbed
  <2>2. Hub \notin Appliances /\ Hub \notin Phones
    BY FleetAssumption
  <2>3. HubFollows'
    BY <2>1 DEF HubFollows
  <2>4. Appliances \cap star'.took = {}
    BY <2>1, <2>2
  <2>5. ASSUME NEW p \in Phones PROVE PhoneFollows(p)'
    <3>1. p \notin star'.took /\ p \notin star'.landed /\ phone'[p].step # "tell"
      BY <2>1, <2>2
    <3>2. QED
      BY <3>1 DEF PhoneFollows
  <2>6. QED
    BY <2>3, <2>4, <2>5 DEF Followed
<1>3. ASSUME NEW n \in Nodes \ star.took, n # Hub, star.stage = "taking", star.quiet,
             star'.stage = "taking", star'.run = star.run, star'.took = star.took \cup {n},
             star'.landed = star.landed, star'.taken[n] = held[n],
             n \in Stocked => star'.cats[n] = cat[n],
             \A m \in Nodes \ {n} : star'.taken[m] = star.taken[m],
             \A m \in Stocked \ {n} : star'.cats[m] = star.cats[m],
             n \in Appliances => work[n] = {},
             UNCHANGED <<held, cat, outbox, phone, work>>
      PROVE  Followed'
  <2>1. Undisturbed /\ star.landed = {}
    BY <1>3 DEF Undisturbed, Boxed
  <2>2. HubFollows'
    BY <1>3, <2>1 DEF Followed, HubFollows
  <2>3. ASSUME NEW b \in Appliances \cap star'.took PROVE ApplianceFollows(b)'
    <3>1. CASE b = n
      BY <1>3, <2>1, <3>1 DEF ApplianceFollows, Brought
    <3>2. CASE b # n
      <4>1. ApplianceFollows(b) /\ b \in Nodes /\ b \in Stocked
        BY <1>3, <2>1, <2>3, <3>2 DEF Followed
      <4>2. work'[b] = {} /\ b \notin star'.landed
        BY <1>3, <2>1, <4>1 DEF ApplianceFollows
      <4>3. star'.taken[b] = star.taken[b] /\ star'.cats[b] = star.cats[b] /\ held[b] = star.taken[b]
        BY <1>3, <3>2, <4>1 DEF ApplianceFollows, Brought
      <4>4. star'.cats[Hub] = star.cats[Hub] /\ cat[b] \in {star.cats[b], star.cats[Hub]}
        BY <1>3, <4>1 DEF ApplianceFollows
      <4>5. QED
        BY <1>3, <4>2, <4>3, <4>4 DEF ApplianceFollows, Brought
    <3>3. QED
      BY <3>1, <3>2
  <2>4. ASSUME NEW p \in Phones PROVE PhoneFollows(p)'
    <3>1. PhoneFollows(p) /\ p \in Nodes
      BY <2>1 DEF Followed
    <3>2. phone'[p].step # "tell" /\ p \notin star'.landed
      BY <1>3, <2>1, <3>1 DEF PhoneFollows
    <3>3. p \in star'.took => held'[p] = star'.taken[p]
      BY <1>3, <3>1 DEF PhoneFollows, Brought
    <3>4. QED
      BY <3>2, <3>3 DEF PhoneFollows, Brought
  <2>5. QED
    BY <2>2, <2>3, <2>4 DEF Followed
<1>4. ASSUME NEW a \in Appliances, TakeAppliance(a) PROVE Followed'
  <2>1. /\ star'.stage = "taking" /\ star'.run = star.run /\ star'.took = star.took \cup {a}
        /\ star'.landed = star.landed /\ star'.taken[a] = held[a] /\ star'.cats[a] = cat[a]
        /\ \A m \in Nodes \ {a} : star'.taken[m] = star.taken[m]
        /\ \A m \in Stocked \ {a} : star'.cats[m] = star.cats[m]
        /\ star'.quiet = (star.quiet /\ work[a] = {})
        /\ star.stage = "taking" /\ a \notin star.took
    BY <1>4, <1>a DEF TakeAppliance, Stars
  <2>2. UNCHANGED <<held, cat, outbox, phone, work>>
    BY <1>4 DEF TakeAppliance
  <2>3. a # Hub
    BY FleetAssumption
  <2>4. QED
    BY <1>1, <2>1, <2>2, <2>3, <1>3 DEF Undisturbed
<1>5. ASSUME NEW p \in Phones, TakePhone(p) PROVE Followed'
  <2>1. /\ star'.stage = "taking" /\ star'.run = star.run /\ star'.took = star.took \cup {p}
        /\ star'.landed = star.landed /\ star'.taken[p] = upload[p].row
        /\ \A m \in Nodes \ {p} : star'.taken[m] = star.taken[m]
        /\ star'.cats = star.cats
        /\ star'.quiet = (star.quiet /\ upload[p].row = held[p])
        /\ star.stage = "taking" /\ p \notin star.took
    BY <1>5, <1>a DEF TakePhone, Stars
  <2>2. UNCHANGED <<held, cat, outbox, phone, work>>
    BY <1>5 DEF TakePhone
  <2>3. p # Hub /\ p \notin Appliances /\ p \notin Stocked
    BY FleetAssumption DEF Stocked
  <2>4. QED
    BY <1>1, <2>1, <2>2, <2>3, <1>3 DEF Undisturbed
<1>6. ASSUME Undisturbed, star.stage \in {"taking", "merged"}, star'.stage \in {"merged", "shared"},
             star'.run = star.run, star'.took = star.took, star'.landed = star.landed,
             star'.taken = star.taken, star'.cats = star.cats,
             HubFollows', \A n \in Nodes \ {Hub} : held'[n] = held[n],
             UNCHANGED <<cat, outbox, phone, work>>
      PROVE  Followed'
  <2>1. star.landed = {} /\ Hub \notin Appliances /\ Hub \notin Phones
    BY <1>6, FleetAssumption DEF Boxed
  <2>2. ASSUME NEW b \in Appliances \cap star'.took PROVE ApplianceFollows(b)'
    <3>1. ApplianceFollows(b) /\ held'[b] = held[b]
      BY <1>6, <2>1, <2>2 DEF Followed
    <3>2. work'[b] = {} /\ held'[b] = star'.taken[b] /\ b \notin star'.landed
      BY <1>6, <2>1, <3>1 DEF ApplianceFollows, Brought
    <3>3. QED
      BY <1>6, <3>1, <3>2 DEF ApplianceFollows, Brought
  <2>3. ASSUME NEW p \in Phones PROVE PhoneFollows(p)'
    <3>1. PhoneFollows(p) /\ held'[p] = held[p]
      BY <1>6, <2>1 DEF Followed
    <3>2. phone'[p].step # "tell" /\ p \notin star'.landed
      BY <1>6, <2>1, <3>1 DEF PhoneFollows
    <3>3. QED
      BY <1>6, <3>1, <3>2 DEF PhoneFollows, Brought
  <2>4. QED
    BY <1>6, <2>2, <2>3 DEF Followed
<1>7. CASE MergeRun
  <2>1. /\ star.stage = "taking" /\ star'.stage = "merged" /\ star'.run = star.run
        /\ star'.took = star.took /\ star'.landed = star.landed /\ star'.taken = star.taken
        /\ star'.cats = star.cats /\ star'.quiet = star.quiet
        /\ UNCHANGED <<held, cat, outbox, phone, work>>
    BY <1>7, <1>a DEF MergeRun, Stars
  <2>2. Undisturbed
    BY <1>1, <2>1 DEF Undisturbed
  <2>3. HubFollows'
    BY <2>1, <2>2 DEF Followed, HubFollows
  <2>4. QED
    BY <2>1, <2>2, <2>3, <1>6
<1>8. CASE HubTakes
  <2>1. /\ star.stage = "merged" /\ star'.stage \in {"shared", "refused"} /\ star'.run = star.run
        /\ star'.took = star.took /\ star'.landed = star.landed /\ star'.taken = star.taken
        /\ star'.cats = star.cats /\ star'.quiet = star.quiet /\ star'.merged = star.merged
        /\ star'.stage = "shared" => held' = [held EXCEPT ![Hub] =
                 Member(@, [was |-> star.taken[Hub], now |-> star.merged])]
        /\ UNCHANGED <<cat, outbox, phone, work>>
    BY <1>8, <1>a DEF HubTakes, Stars
  <2>2. Undisturbed /\ star'.stage = "shared"
    BY <1>1, <2>1 DEF Undisturbed
  <2>3. held[Hub] = star.taken[Hub] /\ cat[Hub] = star.cats[Hub]
    BY <2>1, <2>2 DEF Followed, HubFollows
  <2>4. star.taken[Hub] \in Rows /\ star.merged \in Rows
    BY <1>a DEF Stars
  <2> DEFINE patch == [was |-> star.taken[Hub], now |-> star.merged]
  <2>5. patch.was = star.taken[Hub] /\ patch.now = star.merged
    OBVIOUS
  <2>6. held'[Hub] = Member(held[Hub], patch)
    BY <1>a, <2>1, <2>2
  <2> HIDE DEF patch
  <2>7. held'[Hub] = star.merged
    BY <2>3, <2>4, <2>5, <2>6, PatchBrings
  <2>8. HubFollows'
    BY <2>1, <2>2, <2>3, <2>7 DEF HubFollows
  <2>9. \A n \in Nodes \ {Hub} : held'[n] = held[n]
    BY <1>a, <2>1, <2>2
  <2>10. QED
    BY <2>1, <2>2, <2>8, <2>9, <1>6
<1>9. QED
  BY <1>2, <1>4, <1>5, <1>7, <1>8

\* What an appliance does, one commit at a time, and the hub with it.
LEMMA AppliancesFollow ==
    ASSUME Types, Types', Shape, AtOnce = 1, Followed, NEW a \in Appliances,
           \/ Send(a) \/ Unreachable(a) \/ NoAnswer(a) \/ PowerCut(a)
           \/ \E w \in work[a] : \/ WriteCatalogue(a, w) \/ WriteListener(a, w)
                               \/ ListenerFails(a, w) \/ Record(a, w)
    PROVE  Followed'
<1> USE Bounded
<1>a. /\ star \in Stars /\ held \in [Nodes -> Rows] /\ cat \in [Stocked -> Times]
      /\ work \in [Appliances -> SUBSET Works] /\ NoOne \notin Nodes
      /\ a \in Nodes /\ a \in Stocked /\ a # Hub
  BY FleetAssumption DEF Types, Nodes
<1>1. CASE Send(a)
  <2>1. UNCHANGED <<held, cat, outbox, phone>>
    BY <1>1 DEF Send
  <2>2. CASE NothingToSend(a) /\ Landed(a) /\ UNCHANGED work
    <3>1. SameRun /\ star'.landed = star.landed \cup {a}
      BY <2>2, RunGoesOn
    <3>2. ASSUME Undisturbed, a \in star.took PROVE ApplianceFollows(a)'
      <4>1. ApplianceFollows(a) /\ star.taken[a] = star.merged /\ star.cats[a] = star.cats[Hub]
        BY <2>2, <3>2 DEF Followed, NothingToSend
      <4>2. held[a] = star.merged /\ cat[a] = star.cats[Hub]
        BY <4>1 DEF ApplianceFollows, Brought
      <4>3. \A w \in work[a] : OfThisRun(a, w) /\ ~w.wrote
        BY <4>1 DEF ApplianceFollows, OfThisRun
      <4>4. \A w \in work'[a] : OfThisRun(a, w)'
        BY <2>1, <2>2, <3>1, <4>3 DEF OfThisRun, SameRun
      <4>5. QED
        BY <2>1, <2>2, <3>1, <4>1, <4>2, <4>4 DEF ApplianceFollows, Brought, SameRun
    <3>3. QED
      BY <1>a, <2>1, <2>2, <3>1, <3>2, OneApplianceMoves
  <2>3. CASE NotLanded(a) /\ UNCHANGED work
    BY <2>1, <2>3, RunGoesOn, NothingMoves
  <2>4. ASSUME star.stage = "shared", star' = [star EXCEPT !.waiting = a], NEW new,
               new.run = star.run, new.was = star.taken[a], new.now = star.merged,
               new.catWas = star.cats[a], new.catNow = star.cats[Hub],
               new.step = "catalogue", new.wrote = FALSE,
               work' = [work EXCEPT ![a] = @ \cup {new}]
        PROVE  Followed'
    <3>1. SameRun /\ star'.landed = star.landed
      BY <1>a, <2>4 DEF SameRun, Stars
    <3>2. work'[a] = work[a] \cup {new} /\ \A b \in Appliances \ {a} : work'[b] = work[b]
      BY <1>a, <2>4
    <3>3. ASSUME Undisturbed, a \in star.took PROVE ApplianceFollows(a)'
      <4>1. ApplianceFollows(a)
        BY <3>3 DEF Followed
      <4>2. \A w \in work[a] : OfThisRun(a, w)'
        BY <2>1, <3>1, <4>1 DEF ApplianceFollows, OfThisRun, SameRun
      <4>3. OfThisRun(a, new)'
        BY <2>4, <3>1 DEF OfThisRun, SameRun
      <4>4. QED
        BY <2>1, <2>4, <3>1, <3>2, <4>1, <4>2, <4>3 DEF ApplianceFollows, Brought, SameRun
    <3>4. QED
      BY <1>a, <2>1, <3>1, <3>2, <3>3, OneApplianceMoves
  <2>5. CASE star' = [star EXCEPT !.waiting = a] /\
             \E id \in 1 .. AtOnce :
               work' = [work EXCEPT ![a] = @ \cup
                    {[id |-> id, run |-> star.run, step |-> "catalogue", wrote |-> FALSE,
                      was |-> star.taken[a], now |-> star.merged,
                      catWas |-> star.cats[a], catNow |-> star.cats[Hub]]}]
    <3>1. star.stage = "shared"
      BY <1>1 DEF Send
    <3>2. PICK id \in 1 .. AtOnce :
               work' = [work EXCEPT ![a] = @ \cup
                    {[id |-> id, run |-> star.run, step |-> "catalogue", wrote |-> FALSE,
                      was |-> star.taken[a], now |-> star.merged,
                      catWas |-> star.cats[a], catNow |-> star.cats[Hub]]}]
      BY <2>5
    <3> DEFINE new == [id |-> id, run |-> star.run, step |-> "catalogue", wrote |-> FALSE,
                      was |-> star.taken[a], now |-> star.merged,
                      catWas |-> star.cats[a], catNow |-> star.cats[Hub]]
    <3>3. /\ new.run = star.run /\ new.was = star.taken[a] /\ new.now = star.merged
          /\ new.catWas = star.cats[a] /\ new.catNow = star.cats[Hub]
          /\ new.step = "catalogue" /\ new.wrote = FALSE
      OBVIOUS
    <3>4. work' = [work EXCEPT ![a] = @ \cup {new}]
      BY <3>2
    <3> HIDE DEF new
    <3>5. QED
      BY <2>4, <2>5, <3>1, <3>3, <3>4
  <2>6. QED
    BY <1>1, <2>2, <2>3, <2>5 DEF Send
<1>2. CASE Unreachable(a) \/ NoAnswer(a)
  BY <1>2, RunGoesOn, NothingMoves DEF Unreachable, NoAnswer
<1>b. ASSUME work' = [work EXCEPT ![a] = {}], SameRun, star'.landed = star.landed,
             UNCHANGED <<held, outbox, phone>>, cat'[Hub] = cat[Hub],
             \A b \in Appliances \ {a} : cat'[b] = cat[b],
             Undisturbed /\ a \in star.took =>
                 /\ cat'[a] \in {star.cats[a], star.cats[Hub]}
                 /\ a \in star.landed => cat'[a] = cat[a]
      PROVE  Followed'
  <2>1. work'[a] = {} /\ \A b \in Appliances \ {a} : work'[b] = work[b]
    BY <1>a, <1>b
  <2>2. ASSUME Undisturbed, a \in star.took PROVE ApplianceFollows(a)'
    <3>1. ApplianceFollows(a)
      BY <2>2 DEF Followed
    <3>2. QED
      BY <1>b, <2>1, <2>2, <3>1 DEF ApplianceFollows, Brought, SameRun
  <2>3. QED
    BY <1>a, <1>b, <2>1, <2>2, OneApplianceMoves
<1>3. CASE PowerCut(a)
  <2>1. work' = [work EXCEPT ![a] = {}] /\ UNCHANGED <<held, cat, outbox, phone>>
    BY <1>3 DEF PowerCut
  <2>2. SameRun /\ star'.landed = star.landed
    BY <1>3, RunGoesOn DEF PowerCut
  <2>3. Undisturbed /\ a \in star.took => cat[a] \in {star.cats[a], star.cats[Hub]}
    BY DEF Followed, ApplianceFollows
  <2>4. QED
    BY <2>1, <2>2, <2>3, <1>b
<1>4. ASSUME NEW w \in work[a], WriteCatalogue(a, w) PROVE Followed'
  <2> DEFINE writes == w.catWas # w.catNow /\ cat[a] = w.catWas
  <2>a. PICK after : after = [w EXCEPT !.step = "listener", !.wrote = writes]
    OBVIOUS
  <2>1. work[a] = {w} /\ w \in Works /\ w.step = "catalogue" /\ UNCHANGED <<held, outbox, phone>>
    BY <1>4, <1>a, OneAtATime DEF WriteCatalogue
  <2>2. /\ after.run = w.run /\ after.was = w.was /\ after.now = w.now
        /\ after.catWas = w.catWas /\ after.catNow = w.catNow
        /\ after.step = "listener" /\ after.wrote = writes
    BY <2>1, <2>a DEF Works
  <2>3. CASE Expected(cat[a], w.catWas, w.catNow)
    <3>1. /\ cat' = [cat EXCEPT ![a] = IF writes THEN w.catNow ELSE @]
          /\ work' = [work EXCEPT ![a] = (@ \ {w}) \cup {after}]
          /\ UNCHANGED star
      BY <1>4, <2>3, <2>a DEF WriteCatalogue, Moves
    <3>2. SameRun /\ star'.landed = star.landed
      BY <3>1, RunGoesOn
    <3>3. /\ cat'[a] = IF writes THEN w.catNow ELSE cat[a]
          /\ \A b \in Stocked \ {a} : cat'[b] = cat[b]
          /\ work'[a] = {after} /\ \A b \in Appliances \ {a} : work'[b] = work[b]
      BY <1>a, <2>1, <3>1
    <3>4. ASSUME Undisturbed, a \in star.took PROVE ApplianceFollows(a)'
      <4>1. ApplianceFollows(a) /\ OfThisRun(a, w)
        BY <3>4, <2>1 DEF Followed, ApplianceFollows
      <4>2. cat[a] \in {w.catWas, w.catNow}
        BY <4>1 DEF ApplianceFollows, OfThisRun
      <4>3. cat'[a] = w.catNow
        BY <3>3, <4>2
      <4>4. writes => a \notin star.landed
        BY <4>1 DEF ApplianceFollows, OfThisRun
      <4>5. OfThisRun(a, after)'
        BY <2>2, <3>2, <4>1, <4>3, <4>4 DEF OfThisRun, SameRun
      <4> HIDE DEF writes
      <4>6. held' = held /\ star.stage = "shared" /\ w.catNow = star.cats[Hub]
        BY <2>1, <4>1 DEF ApplianceFollows, OfThisRun
      <4>7. QED
        BY <3>2, <3>3, <4>1, <4>3, <4>5, <4>6 DEF ApplianceFollows, Brought, SameRun
    <3>5. QED
      BY <1>a, <2>1, <3>2, <3>3, <3>4, OneApplianceMoves
  <2>4. CASE ~Expected(cat[a], w.catWas, w.catNow)
    <3>1. /\ work' = [work EXCEPT ![a] = @ \ {w}] /\ Answered(a, w, FALSE) /\ UNCHANGED cat
      BY <1>4, <2>4 DEF WriteCatalogue
    <3>2. work' = [work EXCEPT ![a] = {}]
      BY <1>a, <2>1, <3>1
    <3>3. SameRun /\ star'.landed = star.landed
      BY <3>1, RunGoesOn DEF Answered
    <3>4. Undisturbed /\ a \in star.took => cat[a] \in {star.cats[a], star.cats[Hub]}
      BY DEF Followed, ApplianceFollows
    <3>5. QED
      BY <2>1, <3>1, <3>2, <3>3, <3>4, <1>b
  <2>5. QED
    BY <2>3, <2>4
<1>5. ASSUME NEW w \in work[a], WriteListener(a, w) PROVE Followed'
  <2> DEFINE after == [w EXCEPT !.step = "record", !.wrote = w.wrote]
  <2>1. /\ work[a] = {w} /\ w \in Works /\ w.step = "listener"
        /\ UNCHANGED <<cat, star, outbox, phone>>
        /\ held' = [held EXCEPT ![a] = Member(@, w)]
        /\ work' = [work EXCEPT ![a] = (@ \ {w}) \cup {after}]
    BY <1>5, <1>a, OneAtATime DEF WriteListener, Moves
  <2>2. /\ after.run = w.run /\ after.was = w.was /\ after.now = w.now
        /\ after.catWas = w.catWas /\ after.catNow = w.catNow
        /\ after.step = "record" /\ after.wrote = w.wrote
        /\ w.was \in Rows /\ w.now \in Rows
    BY <2>1 DEF Works
  <2>3. SameRun /\ star'.landed = star.landed
    BY <2>1, RunGoesOn
  <2>4. /\ held'[a] = Member(held[a], w) /\ \A n \in Nodes \ {a} : held'[n] = held[n]
        /\ work'[a] = {after} /\ \A b \in Appliances \ {a} : work'[b] = work[b]
    BY <1>a, <2>1
  <2> HIDE DEF after
  <2>5. ASSUME Undisturbed, a \in star.took PROVE ApplianceFollows(a)'
    <3>1. ApplianceFollows(a) /\ OfThisRun(a, w) /\ star.stage = "shared"
      BY <2>5, <2>1 DEF Followed, ApplianceFollows
    <3>2. held[a] = w.was \/ held[a] = w.now
      BY <3>1 DEF ApplianceFollows, OfThisRun, Brought
    <3>3. held'[a] = w.now
      BY <2>2, <2>4, <3>2, PatchBrings
    <3>4. w.now = star.merged /\ cat[a] = w.catNow
      BY <2>1, <3>1 DEF OfThisRun
    <3>5. OfThisRun(a, after)'
      BY <2>1, <2>2, <2>3, <3>1, <3>3, <3>4 DEF OfThisRun, SameRun
    <3>6. QED
      BY <2>1, <2>3, <2>4, <3>1, <3>3, <3>4, <3>5 DEF ApplianceFollows, Brought, SameRun
  <2>6. QED
    BY <1>a, <2>1, <2>3, <2>4, <2>5, OneApplianceMoves
<1>6. ASSUME NEW w \in work[a], ListenerFails(a, w) PROVE Followed'
  <2>1. /\ work[a] = {w} /\ UNCHANGED <<held, outbox, phone>>
        /\ cat' = [cat EXCEPT ![a] = Undone(@, w)]
        /\ work' = [work EXCEPT ![a] = @ \ {w}] /\ Answered(a, w, FALSE)
    BY <1>6, <1>a, OneAtATime DEF ListenerFails
  <2>2. work' = [work EXCEPT ![a] = {}]
    BY <1>a, <2>1
  <2>3. SameRun /\ star'.landed = star.landed
    BY <2>1, RunGoesOn DEF Answered
  <2>4. cat'[a] = Undone(cat[a], w) /\ \A b \in Stocked \ {a} : cat'[b] = cat[b]
    BY <1>a, <2>1
  <2>5. ASSUME Undisturbed, a \in star.took
        PROVE  /\ cat'[a] \in {star.cats[a], star.cats[Hub]}
               /\ a \in star.landed => cat'[a] = cat[a]
    <3>1. ApplianceFollows(a) /\ OfThisRun(a, w)
      BY <2>5, <2>1 DEF Followed, ApplianceFollows
    <3>2. QED
      BY <2>4, <3>1 DEF ApplianceFollows, OfThisRun, Undone
  <2>6. QED
    BY <1>a, <2>1, <2>2, <2>3, <2>4, <2>5, <1>b
<1>7. ASSUME NEW w \in work[a], Record(a, w) PROVE Followed'
  <2>1. /\ work[a] = {w} /\ UNCHANGED <<held, cat, outbox, phone>> /\ w.step = "record"
        /\ work' = [work EXCEPT ![a] = @ \ {w}] /\ Answered(a, w, TRUE)
    BY <1>7, <1>a, OneAtATime DEF Record
  <2>2. work'[a] = {} /\ \A b \in Appliances \ {a} : work'[b] = work[b]
    BY <1>a, <2>1
  <2>3. SameRun /\ star'.landed \subseteq star.landed \cup {a}
    BY <2>1, RunGoesOn DEF Answered
  <2>4. ASSUME Undisturbed, a \in star.took PROVE ApplianceFollows(a)'
    <3>1. ApplianceFollows(a) /\ OfThisRun(a, w)
      BY <2>4, <2>1 DEF Followed, ApplianceFollows
    <3>2. held[a] = star.merged /\ cat[a] = star.cats[Hub]
      BY <2>1, <3>1 DEF OfThisRun
    <3>3. QED
      BY <2>1, <2>2, <2>3, <3>1, <3>2 DEF ApplianceFollows, Brought, SameRun
  <2>5. QED
    BY <1>a, <2>1, <2>2, <2>3, <2>4, OneApplianceMoves
<1>8. QED
  BY <1>1, <1>2, <1>3, <1>4, <1>5, <1>6, <1>7

\* What a phone does, and the hub with it.
LEMMA PhonesFollow ==
    ASSUME Types, Types', Shape, Boxed, Followed, NEW p \in Phones,
           Offer(p) \/ Visit(p) \/ Tell(p) \/ Upload(p) \/ BreakOff(p)
    PROVE  Followed'
<1> USE Bounded
<1>a. /\ star \in Stars /\ held \in [Nodes -> Rows]
      /\ outbox \in [Phones -> Patches] /\ phone \in [Phones -> Visits]
      /\ p \in Nodes /\ star.taken[p] \in Rows /\ star.merged \in Rows
  BY DEF Types, Stars
<1>1. CASE Offer(p)
  <2>1. /\ SameRun /\ star'.landed = star.landed \cup {p} /\ star.run \in Nat \ {0}
        /\ UNCHANGED <<cat, work, held, phone>>
    BY <1>1, RunGoesOn DEF Offer, Boxed
  <2>2. outbox' = [outbox EXCEPT ![p] =
         [run |-> star.run, was |-> star.taken[p], now |-> star.merged]]
    BY <1>1 DEF Offer
  <2>3. /\ outbox'[p].run = star.run
        /\ \A q \in Phones \ {p} : outbox'[q] = outbox[q]
    BY <1>a, <2>2
  <2>4. outbox'[p] # NoPatch
    BY <2>1, <2>3 DEF NoPatch
  <2>5. ASSUME Undisturbed' PROVE PhoneFollows(p)'
    <3>1. PhoneFollows(p)
      BY <2>5, <2>1 DEF Followed, Undisturbed, SameRun
    <3>2. QED
      BY <2>1, <2>3, <2>4, <3>1 DEF PhoneFollows, Brought, SameRun
  <2>6. QED
    BY <2>1, <2>3, <2>5, OnePhoneMoves
<1>2. CASE Visit(p)
  <2>1. UNCHANGED <<cat, work, outbox>>
    BY <1>2 DEF Visit
  <2>2. CASE outbox[p] = NoPatch
    <3>1. phone' = [phone EXCEPT ![p].step = "upload"] /\ UNCHANGED <<held, star>>
      BY <1>2, <2>2 DEF Visit
    <3>2. phone'[p].step = "upload" /\ \A q \in Phones \ {p} : phone'[q] = phone[q]
      BY <1>a, <3>1 DEF Visits
    <3>3. SameRun /\ star'.landed = star.landed
      BY <3>1, RunGoesOn
    <3>4. ASSUME Undisturbed' PROVE PhoneFollows(p)'
      <4>1. PhoneFollows(p)
        BY <3>4, <3>3 DEF Followed, Undisturbed, SameRun
      <4>2. QED
        BY <2>1, <3>1, <3>2, <3>3, <4>1 DEF PhoneFollows, Brought, SameRun
    <3>5. QED
      BY <2>1, <3>1, <3>2, <3>3, <3>4, OnePhoneMoves
  <2>3. CASE outbox[p] # NoPatch
    <3>1. /\ phone' = [phone EXCEPT ![p] = [step |-> "tell", run |-> outbox[p].run]]
          /\ held' = [held EXCEPT ![p] = Member(@, outbox[p])]
          /\ star' = [star EXCEPT !.quiet = @ /\ outbox[p].run = star.run]
      BY <1>2, <2>3 DEF Visit
    <3>2. /\ phone'[p].step = "tell" /\ phone'[p].run = outbox[p].run
          /\ \A q \in Phones \ {p} : phone'[q] = phone[q]
          /\ held'[p] = Member(held[p], outbox[p])
          /\ \A n \in Nodes \ {p} : held'[n] = held[n]
      BY <1>a, <3>1
    <3>3. SameRun /\ star'.landed = star.landed /\ (star'.quiet => outbox[p].run = star.run)
      BY <1>a, <3>1 DEF SameRun, Stars
    <3>4. ASSUME Undisturbed' PROVE PhoneFollows(p)'
      <4>1. PhoneFollows(p) /\ outbox[p].run = star.run
        BY <3>4, <3>3 DEF Followed, Undisturbed, SameRun
      <4>2. /\ star.stage = "shared" /\ p \in star.took
            /\ outbox[p].was = star.taken[p] /\ outbox[p].now = star.merged
        BY <2>3, <4>1 DEF Boxed
      <4>3. held[p] = outbox[p].was \/ held[p] = outbox[p].now
        BY <4>1, <4>2 DEF PhoneFollows, Brought
      <4>4. held'[p] = star.merged
        BY <1>a, <3>2, <4>2, <4>3, PatchBrings
      <4>5. QED
        BY <3>2, <3>3, <4>1, <4>2, <4>4 DEF PhoneFollows, Brought, SameRun
    <3>5. QED
      BY <2>1, <3>2, <3>3, <3>4, OnePhoneMoves
  <2>4. QED
    BY <2>2, <2>3
<1>3. ASSUME UNCHANGED <<star, held, cat, work>>, phone'[p].step # "tell",
             \A q \in Phones \ {p} : phone'[q] = phone[q],
             UNCHANGED outbox \/ (phone[p].step = "tell" /\ Clear(p))
      PROVE  Followed'
  <2>1. SameRun /\ star'.landed = star.landed
    BY <1>3, RunGoesOn
  <2>2. \A q \in Phones \ {p} : outbox'[q] = outbox[q]
    BY <1>3, <1>a DEF Clear
  <2>3. ASSUME Undisturbed' PROVE PhoneFollows(p)'
    <3>1. PhoneFollows(p)
      BY <2>1, <2>3 DEF Followed, Undisturbed, SameRun
    <3>2. CASE UNCHANGED outbox
      BY <1>3, <2>1, <3>1, <3>2 DEF PhoneFollows, Brought, SameRun
    <3>3. CASE phone[p].step = "tell"
      BY <1>3, <2>1, <3>1, <3>3 DEF PhoneFollows, Brought, SameRun
    <3>4. QED
      BY <1>3, <3>2, <3>3
  <2>4. QED
    BY <1>3, <2>1, <2>2, <2>3, OnePhoneMoves
<1>4. CASE Tell(p) \/ Upload(p) \/ BreakOff(p)
  <2>1. UNCHANGED <<star, held, cat, work>>
    BY <1>4 DEF Tell, Upload, BreakOff
  <2>2. phone'[p].step # "tell" /\ \A q \in Phones \ {p} : phone'[q] = phone[q]
    BY <1>4, <1>a DEF Tell, Upload, BreakOff, Away
  <2>3. UNCHANGED outbox \/ (phone[p].step = "tell" /\ Clear(p))
    BY <1>4 DEF Tell, Upload, BreakOff
  <2>4. QED
    BY <2>1, <2>2, <2>3, <1>3
<1>5. QED
  BY <1>1, <1>2, <1>4

LEMMA FollowedKept ==
    ASSUME Types, Types', Shape, AtOnce = 1, Boxed, Followed, [Next]_vars PROVE Followed'
<1>1. CASE UNCHANGED vars
  BY <1>1, RunGoesOn, NothingMoves DEF vars
<1>2. CASE Edits
  <2>1. Edit
    BY <1>2 DEF Edits, SetPreference, SetFlag, EditCatalogue
  <2>2. ~star'.quiet
    BY <2>1, RunGoesOn
  <2>3. QED
    BY <2>2 DEF Followed, Undisturbed
<1>3. CASE CommitAgain
  <2>1. /\ SameRun /\ star'.landed = star.landed
        /\ UNCHANGED <<held, cat, outbox, phone, work>>
    BY <1>3 DEF CommitAgain, Types, Stars, SameRun
  <2>2. QED
    BY <2>1, NothingMoves
<1>4. CASE HubSteps \/ ApplianceSteps \/ PhoneSteps
  BY <1>3, <1>4, HubFollowsItsRun, AppliancesFollow, PhonesFollow
     DEF HubSteps, ApplianceSteps, PhoneSteps
<1>5. QED
  BY <1>1, <1>2, <1>4 DEF Next

\* So after such a run everybody holds what was merged.
LEMMA AllHoldTheMerged ==
    ASSUME Followed, Complete
    PROVE  /\ \A n \in Nodes : held[n] = star.merged
           /\ \A a \in Appliances : cat[a] = cat[Hub]
<1>1. /\ Undisturbed /\ star.took = Nodes /\ star.stage = "shared"
      /\ \A n \in Nodes \ {Hub} : n \in star.landed
      /\ \A p \in Phones : outbox[p] = NoPatch
  BY DEF Complete, Undisturbed
<1>2. held[Hub] = star.merged /\ cat[Hub] = star.cats[Hub]
  BY <1>1 DEF Followed, HubFollows
<1>3. \A a \in Appliances : held[a] = star.merged /\ cat[a] = star.cats[Hub]
  BY <1>1, Bounded, FleetAssumption DEF Followed, ApplianceFollows
<1>4. \A p \in Phones : held[p] = star.merged
  BY <1>1, Bounded, FleetAssumption DEF Followed, PhoneFollows
<1>5. QED
  BY <1>2, <1>3, <1>4 DEF Nodes

(* After a run that reached everybody, while nobody edited anything and    *)
(* nobody was taken in the middle of an earlier run, every node holds the  *)
(* same: the newest preference, one catalogue, and the flag everywhere or  *)
(* nowhere, for any household, through retries, lost answers, failures and *)
(* power cuts, when an appliance works on one commit at a time.            *)
THEOREM RunLeavesAllAlike == ASSUME AtOnce = 1 PROVE Spec => []InStepAfterARun
<1> DEFINE Inv == Types /\ Shape /\ Ordered /\ NewestWordHeld /\ Boxed /\ Followed
<1>1. Init => Inv
  BY InitTyped, InitShaped, InitOrdered, InitFollowed
<1>2. Inv /\ [Next]_vars => Inv'
  BY TypesKept, ShapeKept, OrderKept, BoxedKept, FollowedKept
<1>3. Inv => InStepAfterARun
  <2> SUFFICES ASSUME Inv, Complete PROVE InStepAfterARun
    BY DEF InStepAfterARun
  <2>1. /\ \A n \in Nodes : held[n] = star.merged
        /\ \A a \in Appliances : cat[a] = cat[Hub]
    BY AllHoldTheMerged
  <2>2. \A n \in Nodes : held[n].pref = history.newest
    BY <2>1 DEF NewestWordHeld
  <2>3. QED
    BY <2>1, <2>2 DEF InStepAfterARun
<1>4. QED
  BY <1>1, <1>2, <1>3, PTL DEF Spec

-----------------------------------------------------------------------------
(* A flag one node alone has had a word on.                                *)

\* No evidence is from later than now.
Evidenced ==
    /\ \A n \in Nodes : sent[n] <= clock /\ star.seen[n] <= clock
    /\ \A p \in Phones : upload[p].at <= clock /\ upload[p].seen <= clock

TakenNow(n) == star.stage \in {"taking", "merged"} /\ n \in star.took

\* The flag as a node has it, as it uploaded it, and as it was taken of it.
Says(n, stamp) ==
    \/ stamp = held[n].flag
    \/ n \in Phones /\ stamp = upload[n].row.flag
    \/ TakenNow(n) /\ stamp = star.taken[n].flag

\* When it is last known to have held it.
SeenOn(n, at) ==
    \/ n \in Stocked /\ at = sent[n]
    \/ n \in Phones /\ at = upload[n].seen
    \/ n \in Phones /\ TakenNow(n) /\ at = star.seen[n]

\* The others have no flag, and the node's own is from after they last did.
OnlyThere(n) ==
    \A m \in Nodes \ {n} :
      /\ \A x \in Times : Says(m, x) => x = 0
      /\ \A x \in Times : Says(n, x) /\ x # 0 => \A at \in Times : SeenOn(m, at) => at < x

\* The node is known to have held a flag from after that stamp.
HeldSince(n, stamp) ==
    /\ stamp <= clock
    /\ n \in Stocked => stamp <= sent[n]
    /\ n \in Phones =>
          /\ stamp <= IF Flagged(upload[n].row) THEN upload[n].at ELSE upload[n].seen
          /\ TakenNow(n) /\ ~Flagged(star.taken[n]) => stamp <= star.seen[n]

\* The others all have the flag, and the node had it when they did.
EverywhereElse(n) ==
    \A m \in Nodes \ {n} : \A x \in Times : Says(m, x) => x # 0 /\ HeldSince(n, x)

NothingWaits ==
    /\ \A p \in Phones : outbox[p] = NoPatch /\ phone[p].step # "tell"
    /\ \A a \in Appliances : work[a] = {}
    /\ star.stage = "shared" => star.left = {} /\ Unreached = {}

\* Until a run is shared, the word of the one node that had any is its own.
Alone(n) == NothingWaits /\ (OnlyThere(n) \/ EverywhereElse(n))

SpokenAlone ==
    history.shared = 0 => \A n \in Nodes : history.actors \subseteq {n} => Alone(n)

\* A merge of everybody takes that word.
MergedAs(n) == Flagged(star.merged) = Flagged(star.taken[n])
FirstMerge ==
    /\ star.took = Nodes
    /\ \/ star.stage = "merged" /\ history.shared = 0
       \/ star.stage = "shared" /\ history.shared = 1
WordTaken == FirstMerge => \A n \in Nodes : history.actors \subseteq {n} => MergedAs(n)

LEMMA InitSpokenAlone == Init => Evidenced /\ SpokenAlone /\ WordTaken
<1> SUFFICES ASSUME Init PROVE Evidenced /\ SpokenAlone /\ WordTaken
  OBVIOUS
<1> USE Bounded
<1>1. Evidenced
  BY DEF Init, Evidenced, Times
<1>2. star.stage = "none" /\ Phones \subseteq Nodes
  BY DEF Init
<1>3. ASSUME NEW n \in Nodes PROVE Alone(n)
  <2>1. NothingWaits
    BY DEF Init, NothingWaits, Away
  <2>2. \A m \in Nodes : \A x \in Times : Says(m, x) => x = 0
    BY <1>2 DEF Init, Says, TakenNow, Blank
  <2>3. QED
    BY <2>1, <2>2 DEF Alone, OnlyThere
<1>4. QED
  BY <1>1, <1>2, <1>3 DEF SpokenAlone, WordTaken, FirstMerge

\* What a step leaves of the run but for those that make one, of what is remembered
\* of a flag but for an edit of it and a run shared, and of the evidence.
Making ==
    \/ BeginRun \/ MergeRun \/ HubTakes
    \/ \E a \in Appliances : TakeAppliance(a)
    \/ \E p \in Phones : TakePhone(p)

Flagging == \E n \in Nodes, on \in BOOLEAN : SetFlag(n, on)

LEMMA RunsAreMade == ASSUME Types, [Next]_vars PROVE SameRun \/ Making
<1>a. star \in Stars
  BY DEF Types
<1>1. CASE UNCHANGED star \/ Edit
  BY <1>1, RunGoesOn
<1>2. ASSUME NEW a \in Appliances,
             \/ UNCHANGED star \/ Landed(a) \/ NotLanded(a) \/ star' = [star EXCEPT !.waiting = a]
      PROVE  SameRun
  <2>1. CASE star' = [star EXCEPT !.waiting = a]
    BY <2>1, <1>a DEF SameRun, Stars
  <2>2. QED
    BY <1>2, <2>1, RunGoesOn
<1>3. ASSUME NEW a \in Appliances,
             \/ Send(a) \/ Unreachable(a) \/ NoAnswer(a) \/ PowerCut(a)
             \/ \E w \in work[a] : \/ WriteCatalogue(a, w) \/ WriteListener(a, w)
                                   \/ ListenerFails(a, w) \/ Record(a, w)
      PROVE  SameRun
  <2>1. ASSUME NEW w \in work[a], \/ WriteCatalogue(a, w) \/ WriteListener(a, w)
                                 \/ ListenerFails(a, w) \/ Record(a, w)
        PROVE  UNCHANGED star \/ Landed(a) \/ NotLanded(a)
    BY <2>1 DEF WriteCatalogue, WriteListener, ListenerFails, Record, Answered
  <2>2. CASE Send(a) \/ Unreachable(a) \/ NoAnswer(a) \/ PowerCut(a)
    <3>1. \/ UNCHANGED star \/ Landed(a) \/ NotLanded(a)
          \/ star' = [star EXCEPT !.waiting = a]
      BY <2>2 DEF Send, Unreachable, NoAnswer, PowerCut
    <3>2. QED
      BY <1>2, <3>1
  <2>3. CASE \E w \in work[a] : \/ WriteCatalogue(a, w) \/ WriteListener(a, w)
                               \/ ListenerFails(a, w) \/ Record(a, w)
    <3>1. \/ UNCHANGED star \/ Landed(a) \/ NotLanded(a)
      BY <2>1, <2>3
    <3>2. QED
      BY <1>2, <3>1
  <2>4. QED
    BY <1>3, <2>2, <2>3
<1>4. CASE CommitAgain
  BY <1>4, <1>a DEF CommitAgain, SameRun, Stars
<1>5. ASSUME NEW p \in Phones, Offer(p) \/ Visit(p) \/ Tell(p) \/ Upload(p) \/ BreakOff(p)
      PROVE  SameRun
  BY <1>5, <1>a, <1>1, RunGoesOn DEF Offer, Visit, Tell, Upload, BreakOff, SameRun, Stars
<1>6. CASE Edits
  BY <1>6, <1>1 DEF Edits, SetPreference, SetFlag, EditCatalogue
<1>7. QED
  BY <1>1, <1>3, <1>4, <1>5, <1>6
     DEF Next, HubSteps, ApplianceSteps, PhoneSteps, Making, vars

LEMMA WordsAreKept ==
    ASSUME Types, [Next]_vars
    PROVE  \/ history'.actors = history.actors /\ history'.shared = history.shared
           \/ HubTakes \/ Flagging
<1>a. history \in Histories
  BY DEF Types
<1>1. CASE UNCHANGED history
  BY <1>1
<1>2. ASSUME NEW n \in Nodes, SetPreference(n) PROVE UNCHANGED <<history.actors, history.shared>>
  BY <1>2, <1>a DEF SetPreference, Histories
<1>3. ASSUME NEW a \in Appliances,
             \/ Send(a) \/ Unreachable(a) \/ NoAnswer(a) \/ PowerCut(a)
             \/ \E w \in work[a] : \/ WriteCatalogue(a, w) \/ WriteListener(a, w)
                                   \/ ListenerFails(a, w) \/ Record(a, w)
      PROVE  UNCHANGED <<history.actors, history.shared>>
  BY <1>3, <1>a DEF Send, Unreachable, NoAnswer, PowerCut, WriteCatalogue, WriteListener,
     ListenerFails, Record, Histories
<1>4. CASE Edits
  BY <1>1, <1>2, <1>4 DEF Edits, EditCatalogue, Flagging
<1>5. CASE HubSteps \/ PhoneSteps
  BY <1>1, <1>3, <1>5 DEF HubSteps, PhoneSteps, BeginRun, MergeRun, CommitAgain, TakeAppliance,
     TakePhone, Offer, Visit, Tell, Upload, BreakOff
<1>6. QED
  BY <1>1, <1>3, <1>4, <1>5 DEF Next, ApplianceSteps, vars

LEMMA EvidencedKept == ASSUME Types, Types', Evidenced, [Next]_vars PROVE Evidenced'
<1> USE Bounded
<1>a. /\ clock \in Nat /\ clock' \in Nat /\ star \in Stars /\ upload \in [Phones -> Uploads]
      /\ sent \in [Nodes -> Times]
      /\ \A n \in Nodes : /\ sent[n] \in Nat /\ star.seen[n] \in Nat
                          /\ sent'[n] \in Nat /\ star'.seen[n] \in Nat
      /\ \A p \in Phones : /\ upload[p].at \in Nat /\ upload[p].seen \in Nat
                           /\ upload'[p].at \in Nat /\ upload'[p].seen \in Nat
  BY DEF Types, Stars, Uploads, Times
<1>1. clock' = clock \/ clock' = clock + 1
  <2>1. CASE Edits
    BY <2>1 DEF Edits, SetPreference, SetFlag, EditCatalogue, Edit
  <2>2. CASE HubSteps
    BY <2>2 DEF HubSteps, BeginRun, MergeRun, HubTakes, CommitAgain, TakeAppliance, TakePhone,
       Send, Unreachable, NoAnswer, Offer
  <2>3. CASE ApplianceSteps
    <3>1. ASSUME NEW a \in Appliances, NEW w \in work[a],
                 WriteCatalogue(a, w) \/ WriteListener(a, w)
          PROVE  clock' = clock
      BY <3>1 DEF WriteCatalogue, WriteListener
    <3>2. ASSUME NEW a \in Appliances, NEW w \in work[a],
                 ListenerFails(a, w) \/ Record(a, w)
          PROVE  clock' = clock
      BY <3>2 DEF ListenerFails, Record
    <3>3. ASSUME NEW a \in Appliances, PowerCut(a) PROVE clock' = clock
      BY <3>3 DEF PowerCut
    <3>4. QED
      BY <2>3, <3>1, <3>2, <3>3 DEF ApplianceSteps
  <2>4. CASE PhoneSteps
    BY <2>4 DEF PhoneSteps, Visit, Tell, Upload, BreakOff
  <2>5. QED
    BY <2>1, <2>2, <2>3, <2>4 DEF Next, vars
<1>2. \A n \in Nodes : sent'[n] \in {sent[n], 0, clock}
  <2>1. \A row : SeenAt(row) \in {0, clock}
    BY DEF SeenAt
  <2>2. CASE UNCHANGED sent
    BY <2>2
  <2>3. ASSUME NEW n \in Nodes, Landed(n) \/ NotLanded(n)
        PROVE  \A m \in Nodes : sent'[m] \in {sent[m], 0, clock}
    BY <1>a, <2>1, <2>3 DEF Landed, NotLanded
  <2>4. CASE Edits
    BY <2>2, <2>4 DEF Edits, SetPreference, SetFlag, EditCatalogue, Edit
  <2>5. CASE HubSteps
    <3>1. CASE HubTakes \/ CommitAgain
      BY <1>a, <2>1, <3>1 DEF HubTakes, CommitAgain
    <3>2. QED
      BY <2>2, <2>3, <2>5, <3>1 DEF HubSteps, BeginRun, MergeRun, TakeAppliance, TakePhone,
         Send, Unreachable, NoAnswer, Offer
  <2>6. CASE ApplianceSteps
    <3>1. ASSUME NEW a \in Appliances, NEW w \in work[a],
                 \/ WriteCatalogue(a, w) \/ WriteListener(a, w)
                 \/ ListenerFails(a, w) \/ Record(a, w)
          PROVE  UNCHANGED sent \/ Landed(a) \/ NotLanded(a)
      BY <3>1 DEF WriteCatalogue, WriteListener, ListenerFails, Record, Answered
    <3>2. ASSUME NEW a \in Appliances, PowerCut(a)
          PROVE  UNCHANGED sent \/ Landed(a) \/ NotLanded(a)
      BY <3>2 DEF PowerCut
    <3>3. PICK a \in Appliances : UNCHANGED sent \/ Landed(a) \/ NotLanded(a)
      BY <2>6, <3>1, <3>2 DEF ApplianceSteps
    <3>4. a \in Nodes
      OBVIOUS
    <3>5. QED
      BY <2>2, <2>3, <3>3, <3>4
  <2>7. CASE PhoneSteps
    BY <2>2, <2>7 DEF PhoneSteps, Visit, Tell, Upload, BreakOff
  <2>8. QED
    BY <2>2, <2>4, <2>5, <2>6, <2>7 DEF Next, vars
<1>3. \A n \in Nodes : star'.seen[n] \in {star.seen[n], 0} \cup {upload[p].seen : p \in Phones}
  <2>1. CASE UNCHANGED star.seen
    BY <2>1
  <2>2. ASSUME NEW n, \/ Edit \/ Landed(n) \/ NotLanded(n) \/ UNCHANGED star
                      \/ star' = [star EXCEPT !.waiting = n]
        PROVE  UNCHANGED star.seen
    BY <1>a, <2>2 DEF Edit, Landed, NotLanded, Stars
  <2>3. CASE Edits
    BY <2>1, <2>2, <2>3 DEF Edits, SetPreference, SetFlag, EditCatalogue
  <2>4. CASE HubSteps
    <3>1. CASE BeginRun
      BY <3>1 DEF BeginRun
    <3>2. ASSUME NEW p \in Phones, TakePhone(p)
          PROVE  \A n \in Nodes : star'.seen[n] \in {star.seen[n], 0} \cup {upload[q].seen : q \in Phones}
      BY <1>a, <3>2 DEF TakePhone, Stars
    <3>3. CASE MergeRun \/ HubTakes \/ CommitAgain \/ \E a \in Appliances : TakeAppliance(a)
      BY <1>a, <2>1, <3>3 DEF MergeRun, HubTakes, CommitAgain, TakeAppliance, Stars
    <3>4. QED
      BY <2>1, <2>2, <2>4, <3>1, <3>2, <3>3 DEF HubSteps, Send, Unreachable, NoAnswer, Offer
  <2>5. CASE ApplianceSteps
    <3>1. ASSUME NEW a \in Appliances, NEW w \in work[a],
                 \/ WriteCatalogue(a, w) \/ WriteListener(a, w)
                 \/ ListenerFails(a, w) \/ Record(a, w)
          PROVE  UNCHANGED star \/ Landed(a) \/ NotLanded(a)
      BY <3>1 DEF WriteCatalogue, WriteListener, ListenerFails, Record, Answered
    <3>2. ASSUME NEW a \in Appliances, PowerCut(a)
          PROVE  UNCHANGED star \/ Landed(a) \/ NotLanded(a)
      BY <3>2 DEF PowerCut
    <3>3. QED
      BY <2>1, <2>2, <2>5, <3>1, <3>2 DEF ApplianceSteps
  <2>6. CASE PhoneSteps
    BY <1>a, <2>1, <2>2, <2>6 DEF PhoneSteps, Visit, Tell, Upload, BreakOff, Stars
  <2>7. QED
    BY <2>1, <2>3, <2>4, <2>5, <2>6 DEF Next, vars
<1>4. \A p \in Phones : /\ upload'[p].at \in {upload[p].at, 0, clock}
                        /\ upload'[p].seen \in {upload[p].seen, upload[p].at}
  <2>1. CASE UNCHANGED upload
    BY <2>1
  <2>2. ASSUME NEW p \in Phones, Upload(p)
        PROVE  \A q \in Phones : /\ upload'[q].at \in {upload[q].at, 0, clock}
                                 /\ upload'[q].seen \in {upload[q].seen, upload[q].at}
    BY <1>a, <2>2 DEF Upload, SeenAt, Uploads
  <2>3. CASE Edits
    BY <2>1, <2>3 DEF Edits, SetPreference, SetFlag, EditCatalogue, Edit
  <2>4. CASE HubSteps
    BY <2>1, <2>4 DEF HubSteps, BeginRun, MergeRun, HubTakes, CommitAgain, TakeAppliance, TakePhone,
       Send, Unreachable, NoAnswer, Offer
  <2>5. CASE ApplianceSteps
    <3>1. ASSUME NEW a \in Appliances, NEW w \in work[a],
                 WriteCatalogue(a, w) \/ WriteListener(a, w)
          PROVE  UNCHANGED upload
      BY <3>1 DEF WriteCatalogue, WriteListener
    <3>2. ASSUME NEW a \in Appliances, NEW w \in work[a],
                 ListenerFails(a, w) \/ Record(a, w)
          PROVE  UNCHANGED upload
      BY <3>2 DEF ListenerFails, Record
    <3>3. ASSUME NEW a \in Appliances, PowerCut(a) PROVE UNCHANGED upload
      BY <3>3 DEF PowerCut
    <3>4. QED
      BY <2>1, <2>5, <3>1, <3>2, <3>3 DEF ApplianceSteps
  <2>6. CASE PhoneSteps
    BY <2>1, <2>2, <2>6 DEF PhoneSteps, Visit, Tell, BreakOff
  <2>7. QED
    BY <2>1, <2>3, <2>4, <2>5, <2>6 DEF Next, vars
<1>5. \A n \in Nodes : sent'[n] <= clock' /\ star'.seen[n] <= clock'
  BY <1>a, <1>1, <1>2, <1>3 DEF Evidenced
<1>6. \A p \in Phones : upload'[p].at <= clock' /\ upload'[p].seen <= clock'
  BY <1>a, <1>1, <1>4 DEF Evidenced
<1>7. QED
  BY <1>5, <1>6 DEF Evidenced

\* A step that changes no flag, no upload and no evidence, and takes of a node what
\* it holds, or has uploaded.
Repeats(m) ==
    TakenNow(m)' =>
      \/ /\ TakenNow(m)
         /\ star'.taken[m].flag = star.taken[m].flag /\ star'.seen[m] = star.seen[m]
      \/ m \notin Phones /\ star'.taken[m].flag = held[m].flag
      \/ /\ m \in Phones
         /\ star'.taken[m].flag = upload[m].row.flag /\ star'.seen[m] = upload[m].seen

LEMMA NothingIsSaid ==
    ASSUME Types, Types', NEW n \in Nodes, Alone(n), NothingWaits', UNCHANGED <<upload, sent>>,
           clock <= clock', \A m \in Nodes : held'[m].flag = held[m].flag /\ Repeats(m)
    PROVE  Alone(n)'
<1> USE Bounded
<1>1. ASSUME NEW m \in Nodes, NEW x, Says(m, x)' PROVE Says(m, x)
  BY <1>1 DEF Says, Repeats
<1>2. ASSUME NEW m \in Nodes, NEW at, SeenOn(m, at)' PROVE SeenOn(m, at)
  BY <1>2, FleetAssumption DEF SeenOn, Repeats
<1>3. ASSUME NEW x \in Times, HeldSince(n, x) PROVE HeldSince(n, x)'
  <2>1. x \in Nat /\ clock \in Nat /\ clock' \in Nat
    BY DEF Types, Times
  <2>2. x <= clock'
    BY <1>3, <2>1 DEF HeldSince
  <2>3. ASSUME n \in Phones, TakenNow(n)', ~Flagged(star.taken[n])'
        PROVE  x <= star'.seen[n]
    <3>1. CASE TakenNow(n) /\ star'.taken[n].flag = star.taken[n].flag /\ star'.seen[n] = star.seen[n]
      BY <1>3, <2>3, <3>1 DEF HeldSince, Flagged
    <3>2. CASE star'.taken[n].flag = upload[n].row.flag /\ star'.seen[n] = upload[n].seen
      BY <1>3, <2>3, <3>2 DEF HeldSince, Flagged
    <3>3. QED
      BY <2>3, <3>1, <3>2 DEF Repeats
  <2>4. QED
    BY <1>3, <2>2, <2>3 DEF HeldSince
<1>4. OnlyThere(n) => OnlyThere(n)'
  BY <1>1, <1>2 DEF OnlyThere
<1>5. EverywhereElse(n) => EverywhereElse(n)'
  BY <1>1, <1>3 DEF EverywhereElse
<1>6. QED
  BY <1>4, <1>5 DEF Alone

\* The first word since everybody agreed, and any further one of the same node.
LEMMA FirstWord ==
    ASSUME Types, Types', Evidenced, NEW n \in Nodes, NEW on \in BOOLEAN, SetFlag(n, on), Agreed
    PROVE  Alone(n)'
<1> USE Bounded
<1>a. /\ clock \in Nat /\ clock' = clock + 1 /\ star \in Stars
      /\ held' = [held EXCEPT ![n].flag = IF on THEN clock' ELSE 0]
      /\ star' = [star EXCEPT !.quiet = FALSE] /\ held \in [Nodes -> Rows]
      /\ UNCHANGED <<sent, upload, outbox, phone, work>>
      /\ upload \in [Phones -> Uploads] /\ sent \in [Nodes -> Times]
  BY DEF SetFlag, Edit, Types, Times
<1>b. /\ star'.stage = star.stage /\ star'.left = star.left /\ star'.took = star.took
      /\ star'.landed = star.landed /\ star'.taken = star.taken /\ star'.seen = star.seen
      /\ held'[n].flag \in {0, clock + 1} /\ \A m \in Nodes \ {n} : held'[m] = held[m]
  BY <1>a DEF Stars, Rows
<1>c. /\ \A m \in Nodes : ~TakenNow(m)'
      /\ \A m \in Nodes : held[m].flag \in Flags
      /\ \A p \in Phones : upload[p].row.flag \in Flags
  BY <1>b DEF Agreed, TakenNow, Flags
<1>1. NothingWaits'
  BY <1>a, <1>b DEF Agreed, NothingWaits, Unreached
<1>2. CASE Flags = {0}
  <2>1. \A m \in Nodes \ {n} : \A x \in Times : Says(m, x)' => x = 0
    BY <1>a, <1>b, <1>c, <1>2 DEF Says
  <2>2. \A x \in Times : Says(n, x)' => x \in {0, clock + 1}
    BY <1>a, <1>b, <1>c, <1>2 DEF Says
  <2>3. ASSUME NEW m \in Nodes, NEW at \in Times, SeenOn(m, at)' PROVE at <= clock
    BY <1>a, <1>c, <2>3 DEF SeenOn, Evidenced
  <2>4. \A at \in Times : at <= clock => at < clock + 1
    BY <1>a DEF Times
  <2>5. OnlyThere(n)'
    BY <2>1, <2>2, <2>3, <2>4 DEF OnlyThere
  <2>6. QED
    BY <1>1, <2>5 DEF Alone
<1>3. CASE 0 \notin Flags /\ \A m \in Nodes : \A stamp \in Flags : stamp <= Evidence(m)
  <2>1. ASSUME NEW m \in Nodes \ {n}, NEW x \in Times, Says(m, x)' PROVE x \in Flags /\ x # 0
    BY <1>a, <1>b, <1>c, <1>3, <2>1 DEF Says
  <2>2. ASSUME NEW x \in Times, x \in Flags PROVE HeldSince(n, x)'
    <3>1. x \in Nat /\ x <= Evidence(n)
      BY <1>3, <2>2 DEF Times
    <3>2. n \notin Phones => x <= sent[n] /\ sent[n] \in Nat /\ sent[n] <= clock
      BY <1>a, <3>1 DEF Evidence, Evidenced, Times
    <3>3. n \in Phones => /\ x <= upload[n].at /\ upload[n].at \in Nat /\ upload[n].at <= clock
                          /\ Flagged(upload[n].row) /\ n \notin Stocked
      BY <1>a, <1>c, <1>3, <3>1, FleetAssumption
         DEF Evidence, Evidenced, Uploads, Times, Flagged, Stocked
    <3>4. x <= clock'
      BY <1>a, <3>1, <3>2, <3>3
    <3>5. n \in Stocked => n \notin Phones
      BY <3>3
    <3>6. QED
      BY <1>a, <1>c, <3>2, <3>3, <3>4, <3>5 DEF HeldSince
  <2>3. EverywhereElse(n)'
    BY <2>1, <2>2 DEF EverywhereElse
  <2>4. QED
    BY <1>1, <2>3 DEF Alone
<1>4. QED
  BY <1>2, <1>3 DEF Agreed

LEMMA FurtherWord ==
    ASSUME Types, Types', Evidenced, NEW n \in Nodes, NEW on \in BOOLEAN, SetFlag(n, on), Alone(n)
    PROVE  Alone(n)'
<1> USE Bounded
<1>a. /\ clock \in Nat /\ clock' = clock + 1 /\ star \in Stars
      /\ held' = [held EXCEPT ![n].flag = IF on THEN clock' ELSE 0]
      /\ star' = [star EXCEPT !.quiet = FALSE] /\ held \in [Nodes -> Rows]
      /\ UNCHANGED <<sent, upload, outbox, phone, work>>
  BY DEF SetFlag, Edit, Types, Times
<1>b. /\ star'.stage = star.stage /\ star'.left = star.left /\ star'.took = star.took
      /\ star'.landed = star.landed /\ star'.taken = star.taken /\ star'.seen = star.seen
      /\ held'[n].flag \in {0, clock + 1} /\ \A m \in Nodes \ {n} : held'[m] = held[m]
  BY <1>a DEF Stars, Rows
<1>1. NothingWaits'
  BY <1>a, <1>b DEF Alone, NothingWaits, Unreached
<1>2. \A m \in Nodes \ {n} : \A x : Says(m, x)' => Says(m, x)
  BY <1>a, <1>b DEF Says, TakenNow
<1>3. \A x : Says(n, x)' => Says(n, x) \/ x \in {0, clock + 1}
  BY <1>a, <1>b DEF Says, TakenNow
<1>4. \A m \in Nodes, at \in Times : SeenOn(m, at)' => SeenOn(m, at) /\ at < clock + 1
  <2> TAKE m \in Nodes, at \in Times
  <2>1. SeenOn(m, at)' => SeenOn(m, at)
    BY <1>a, <1>b DEF SeenOn, TakenNow
  <2>2. SeenOn(m, at) => at <= clock
    BY DEF SeenOn, Evidenced
  <2>3. QED
    BY <1>a, <2>1, <2>2 DEF Times
<1>5. \A x \in Times : HeldSince(n, x) => HeldSince(n, x)'
  <2> TAKE x \in Times
  <2>1. x <= clock => x <= clock'
    BY <1>a DEF Times
  <2>2. QED
    BY <1>a, <1>b, <2>1 DEF HeldSince, TakenNow
<1>6. OnlyThere(n) => OnlyThere(n)'
  BY <1>2, <1>3, <1>4 DEF OnlyThere
<1>7. EverywhereElse(n) => EverywhereElse(n)'
  BY <1>2, <1>5 DEF EverywhereElse
<1>8. QED
  BY <1>1, <1>6, <1>7 DEF Alone

\* A phone that uploads says what it holds.
LEMMA UploadSaysNothingNew ==
    ASSUME Types, Types', Evidenced, NEW n \in Nodes, Alone(n), NEW p \in Phones, Upload(p)
    PROVE  Alone(n)'
<1> USE Bounded
<1>a. /\ clock \in Nat /\ UNCHANGED <<clock, held, star, sent, outbox, work>>
      /\ upload \in [Phones -> Uploads] /\ held \in [Nodes -> Rows]
      /\ phone' = [phone EXCEPT ![p] = Away] /\ phone \in [Phones -> Visits]
  BY DEF Upload, Types, Times
<1>b. /\ upload'[p].row = held[p] /\ upload'[p].at = SeenAt(held[p])
      /\ upload'[p].seen = IF Flagged(upload[p].row) THEN upload[p].at ELSE upload[p].seen
      /\ \A q \in Phones \ {p} : upload'[q] = upload[q]
  BY <1>a DEF Upload, Uploads
<1>1. NothingWaits'
  BY <1>a DEF Alone, NothingWaits, Unreached, Away
<1>2. \A m \in Nodes : \A x : Says(m, x)' => Says(m, x)
  BY <1>a, <1>b DEF Says, TakenNow
<1>3. CASE OnlyThere(n)
  <2>1. ASSUME NEW m \in Nodes \ {n}, NEW at, SeenOn(m, at)' PROVE SeenOn(m, at)
    <3>1. CASE m = p
      <4>1. Says(p, upload[p].row.flag) /\ upload[p].row.flag \in Times
        BY <1>a DEF Says, Uploads, Rows
      <4>2. ~Flagged(upload[p].row)
        BY <1>3, <3>1, <4>1 DEF OnlyThere, Flagged
      <4>3. upload'[p].seen = upload[p].seen
        BY <1>b, <4>2
      <4>4. QED
        BY <1>a, <2>1, <3>1, <4>3 DEF SeenOn, TakenNow
    <3>2. CASE m # p
      BY <1>a, <1>b, <2>1, <3>2 DEF SeenOn, TakenNow
    <3>3. QED
      BY <3>1, <3>2
  <2>2. OnlyThere(n)'
    BY <1>2, <1>3, <2>1 DEF OnlyThere
  <2>3. QED
    BY <1>1, <2>2 DEF Alone
<1>4. CASE EverywhereElse(n)
  <2>1. ASSUME NEW x \in Times, x # 0, HeldSince(n, x) PROVE HeldSince(n, x)'
    <3>1. CASE n = p
      <4>1. x <= IF Flagged(upload[p].row) THEN upload[p].at ELSE upload[p].seen
        BY <2>1, <3>1 DEF HeldSince
      <4>2. x <= IF Flagged(upload'[p].row) THEN upload'[p].at ELSE upload'[p].seen
        BY <1>b, <2>1, <4>1 DEF HeldSince, SeenAt
      <4>3. QED
        BY <1>a, <2>1, <3>1, <4>2 DEF HeldSince, TakenNow, Flagged
    <3>2. CASE n # p
      <4>1. n \in Phones => upload'[n] = upload[n]
        BY <1>b, <3>2
      <4>2. QED
        BY <1>a, <2>1, <4>1 DEF HeldSince, TakenNow, Flagged
    <3>3. QED
      BY <3>1, <3>2
  <2>2. EverywhereElse(n)'
    BY <1>2, <1>4, <2>1 DEF EverywhereElse
  <2>3. QED
    BY <1>1, <2>2 DEF Alone
<1>5. QED
  BY <1>3, <1>4 DEF Alone

LEMMA SpokenAloneKept ==
    ASSUME Types, Types', Shape, Evidenced, SpokenAlone, [Next]_vars PROVE SpokenAlone'
<1> USE Bounded
<1>a. /\ clock \in Nat /\ star \in Stars /\ held \in [Nodes -> Rows] /\ history \in Histories
      /\ NoOne \notin Nodes /\ history.shared \in Nat
  BY FleetAssumption DEF Types, Times, Nodes, Histories
<1>1. SUFFICES ASSUME history'.shared = 0, NEW n \in Nodes, history'.actors \subseteq {n}
      PROVE  Alone(n)'
  BY DEF SpokenAlone
<1>2. ASSUME NEW m \in Nodes, NEW on \in BOOLEAN, SetFlag(m, on) PROVE Alone(n)'
  <2>1. /\ history'.actors = IF Agreed THEN {m} ELSE history.actors \cup {m}
        /\ history'.shared = IF Agreed THEN 0 ELSE history.shared
    BY <1>a, <1>2 DEF SetFlag, Histories
  <2>2. m = n
    BY <1>1, <2>1
  <2>3. CASE Agreed
    BY <1>2, <2>2, <2>3, FirstWord
  <2>4. CASE ~Agreed
    <3>1. Alone(n)
      BY <1>1, <2>1, <2>4 DEF SpokenAlone
    <3>2. QED
      BY <1>2, <2>2, <3>1, FurtherWord
  <2>5. QED
    BY <2>3, <2>4
<1>3. CASE Flagging
  BY <1>2, <1>3 DEF Flagging
<1>4. SUFFICES ASSUME ~Flagging PROVE Alone(n)'
  BY <1>3
<1>5. Alone(n)
  <2>1. CASE HubTakes
    BY <1>1, <1>a, <2>1 DEF HubTakes, Histories, SpokenAlone
  <2>2. CASE ~HubTakes
    BY <1>1, <1>4, <2>2, WordsAreKept DEF SpokenAlone
  <2>3. QED
    BY <2>1, <2>2
<1>6. /\ \A p \in Phones : outbox[p] = NoPatch /\ phone[p].step # "tell"
      /\ \A a \in Appliances : work[a] = {}
      /\ star.stage = "shared" => star.left = {} /\ Unreached = {}
      /\ star.waiting = NoOne
  BY <1>5 DEF Alone, NothingWaits, Shape
\* What leaves the run, the flags, the uploads and the evidence as they are.
<1>7. ASSUME UNCHANGED <<upload, sent, outbox, work>>, clock <= clock',
             \A p \in Phones : phone'[p].step # "tell",
             \A m \in Nodes : held'[m].flag = held[m].flag,
             star'.stage = star.stage, star'.left = star.left, star'.took = star.took,
             star'.landed = star.landed, star'.taken = star.taken, star'.seen = star.seen
      PROVE  Alone(n)'
  <2>1. NothingWaits'
    BY <1>6, <1>7 DEF NothingWaits, Unreached
  <2>2. \A m \in Nodes : Repeats(m)
    BY <1>7 DEF Repeats, TakenNow
  <2>3. QED
    BY <1>5, <1>7, <2>1, <2>2, NothingIsSaid
<1>8. CASE UNCHANGED vars
  BY <1>6, <1>7, <1>8, <1>a DEF vars
<1>9. CASE Edits
  <2>1. ASSUME NEW m \in Nodes, SetPreference(m) PROVE Alone(n)'
    <3>1. \A k \in Nodes : held'[k].flag = held[k].flag
      BY <1>a, <2>1 DEF SetPreference, Rows
    <3>2. QED
      BY <1>a, <1>6, <1>7, <2>1, <3>1 DEF SetPreference, Edit, Stars
  <2>2. ASSUME NEW m \in Stocked, EditCatalogue(m) PROVE Alone(n)'
    BY <1>a, <1>6, <1>7, <2>2 DEF EditCatalogue, Edit, Stars
  <2>3. QED
    BY <1>4, <1>9, <2>1, <2>2 DEF Edits, Flagging
<1>10. ASSUME UNCHANGED <<upload, sent, outbox, work, phone, held, clock>>,
              star'.stage # "shared", \A m \in Nodes : Repeats(m)
       PROVE  Alone(n)'
  <2>1. NothingWaits'
    BY <1>6, <1>10 DEF NothingWaits
  <2>2. QED
    BY <1>5, <1>10, <1>a, <2>1, NothingIsSaid
<1>11. CASE Making
  <2>1. CASE BeginRun
    <3>1. /\ star'.stage = "taking" /\ star'.took = {Hub} /\ star'.taken[Hub] = held[Hub]
          /\ UNCHANGED <<upload, sent, outbox, work, phone, held, clock>>
      BY <2>1 DEF BeginRun
    <3>2. \A m \in Nodes : Repeats(m)
      BY <3>1, FleetAssumption DEF Repeats, TakenNow
    <3>3. QED
      BY <1>10, <3>1, <3>2
  <2>2. ASSUME NEW a \in Appliances, TakeAppliance(a) PROVE Alone(n)'
    <3>1. /\ star'.stage = "taking" /\ star.stage = "taking" /\ star'.took = star.took \cup {a}
          /\ star'.taken[a] = held[a] /\ star'.seen = star.seen /\ a \notin star.took
          /\ \A m \in Nodes \ {a} : star'.taken[m] = star.taken[m]
          /\ UNCHANGED <<upload, sent, outbox, work, phone, held, clock>>
      BY <1>a, <2>2 DEF TakeAppliance, Stars
    <3>2. \A m \in Nodes : Repeats(m)
      BY <3>1, FleetAssumption DEF Repeats, TakenNow
    <3>3. QED
      BY <1>10, <3>1, <3>2
  <2>3. ASSUME NEW p \in Phones, TakePhone(p) PROVE Alone(n)'
    <3>1. /\ star'.stage = "taking" /\ star.stage = "taking" /\ star'.took = star.took \cup {p}
          /\ star'.taken[p] = upload[p].row /\ star'.seen[p] = upload[p].seen /\ p \notin star.took
          /\ \A m \in Nodes \ {p} : star'.taken[m] = star.taken[m] /\ star'.seen[m] = star.seen[m]
          /\ UNCHANGED <<upload, sent, outbox, work, phone, held, clock>>
      BY <1>a, <2>3 DEF TakePhone, Stars
    <3>2. \A m \in Nodes : Repeats(m)
      BY <3>1, FleetAssumption DEF Repeats, TakenNow
    <3>3. QED
      BY <1>10, <3>1, <3>2
  <2>4. CASE MergeRun \/ HubTakes
    <3>1. /\ star'.stage \in {"merged", "refused"} /\ star'.took = star.took
          /\ star.stage \in {"taking", "merged"}
          /\ star'.taken = star.taken /\ star'.seen = star.seen
          /\ UNCHANGED <<upload, sent, outbox, work, phone, held, clock>>
      <4>1. CASE MergeRun
        BY <1>a, <4>1 DEF MergeRun, Stars
      <4>2. CASE HubTakes
        <5>1. history'.shared # history.shared + 1
          BY <1>1, <1>a
        <5>2. star' = [star EXCEPT !.stage = "refused"] /\ UNCHANGED <<held, sent>>
          BY <1>a, <4>2, <5>1 DEF HubTakes, Histories
        <5>3. QED
          BY <1>a, <4>2, <5>2 DEF HubTakes, Stars
      <4>3. QED
        BY <2>4, <4>1, <4>2
    <3>2. \A m \in Nodes : Repeats(m)
      BY <3>1 DEF Repeats, TakenNow
    <3>3. QED
      BY <1>10, <3>1, <3>2
  <2>5. QED
    BY <1>11, <2>1, <2>2, <2>3, <2>4 DEF Making
<1>12. CASE HubSteps
  <2>1. ~CommitAgain
    BY <1>6 DEF CommitAgain
  <2>2. \A a \in Appliances : ~Send(a) /\ ~Unreachable(a) /\ ~NoAnswer(a)
    BY <1>6, <1>a DEF Send, Unreachable, NoAnswer
  <2>3. \A p \in Phones : ~Offer(p)
    BY <1>6 DEF Offer
  <2>4. QED
    BY <1>11, <1>12, <2>1, <2>2, <2>3 DEF HubSteps, Making
<1>13. ~ApplianceSteps
  BY <1>6 DEF ApplianceSteps, PowerCut
<1>14. ASSUME NEW p \in Phones, Visit(p) PROVE Alone(n)'
  <2>1. /\ phone' = [phone EXCEPT ![p].step = "upload"]
        /\ UNCHANGED <<held, star, clock, upload, sent, outbox, work>>
    BY <1>6, <1>14 DEF Visit
  <2>2. \A q \in Phones : phone'[q].step # "tell"
    BY <1>6, <2>1 DEF Types, Visits
  <2>3. QED
    BY <1>a, <1>7, <2>1, <2>2
<1>15. ASSUME NEW p \in Phones, BreakOff(p) PROVE Alone(n)'
  <2>1. /\ phone' = [phone EXCEPT ![p] = Away]
        /\ UNCHANGED <<held, star, clock, upload, sent, outbox, work>>
    BY <1>6, <1>15 DEF BreakOff
  <2>2. \A q \in Phones : phone'[q].step # "tell"
    BY <1>6, <2>1 DEF Types, Away
  <2>3. QED
    BY <1>a, <1>7, <2>1, <2>2
<1>16. CASE PhoneSteps
  <2>1. \A p \in Phones : ~Tell(p)
    BY <1>6 DEF Tell
  <2>2. QED
    BY <1>5, <1>14, <1>15, <1>16, <2>1, UploadSaysNothingNew DEF PhoneSteps
<1>17. QED
  BY <1>8, <1>9, <1>12, <1>13, <1>16 DEF Next

\* What the merge of everybody makes of the word of one.
LEMMA WordMerged ==
    ASSUME Types, Shape, NEW n \in Nodes, Alone(n), MergeRun, star.took = Nodes
    PROVE  MergedAs(n)'
<1> USE Bounded
<1>a. /\ star \in Stars /\ star.taken \in [Nodes -> Rows] /\ sent \in [Nodes -> Times]
      /\ star.seen \in [Nodes -> Times] /\ star.stage = "taking"
      /\ \A m \in Nodes : TakenNow(m) /\ star.taken[m].flag \in Times
                          /\ Says(m, star.taken[m].flag)
  BY DEF Types, Stars, MergeRun, Rows, TakenNow, Says
<1>1. PICK stamp \in Unions :
         star' = [star EXCEPT !.stage = "merged", !.merged = Merge(stamp)]
  BY DEF MergeRun
<1>2. star'.taken = star.taken /\ star'.merged.flag = IF Removed(stamp) THEN 0 ELSE stamp
  BY <1>a, <1>1 DEF Stars, Merge
<1>3. \/ stamp = 0 /\ \A m \in Nodes : star.taken[m].flag = 0
      \/ stamp # 0 /\ \E m \in Nodes : stamp = star.taken[m].flag
  BY DEF Unions
<1>4. PICK other \in Nodes : other # n
  BY DEF MergeRun
<1>5. \A m \in Nodes : /\ LastSeen(m) \in Times
                       /\ m \notin Phones => m \in Stocked /\ LastSeen(m) = sent[m]
                       /\ m \in Phones => LastSeen(m) = star.seen[m]
  BY <1>a DEF LastSeen, Nodes, Stocked
<1>6. CASE OnlyThere(n)
  <2>1. \A m \in Nodes \ {n} : star.taken[m].flag = 0
    BY <1>a, <1>6 DEF OnlyThere
  <2>2. stamp = star.taken[n].flag
    BY <1>3, <2>1
  <2>3. ASSUME stamp # 0 PROVE ~Removed(stamp)
    <3>1. SUFFICES ASSUME NEW m \in Nodes, ~Flagged(star.taken[m]), stamp <= LastSeen(m)
          PROVE  FALSE
      BY DEF Removed
    <3>2. m # n
      BY <2>2, <2>3, <3>1 DEF Flagged
    <3>3. SeenOn(m, LastSeen(m))
      BY <1>a, <1>5 DEF SeenOn
    <3>4. LastSeen(m) < stamp
      BY <1>a, <1>5, <1>6, <2>2, <2>3, <3>2, <3>3 DEF OnlyThere
    <3>5. LastSeen(m) \in Nat /\ stamp \in Nat
      BY <1>5, <1>a, <2>2 DEF Times
    <3>6. QED
      BY <3>1, <3>4, <3>5
  <2>4. star'.merged.flag = star.taken[n].flag
    BY <1>2, <2>2, <2>3
  <2>5. QED
    BY <1>2, <2>4 DEF MergedAs, Flagged
<1>7. CASE EverywhereElse(n)
  <2>1. \A m \in Nodes \ {n} : star.taken[m].flag # 0 /\ HeldSince(n, star.taken[m].flag)
    BY <1>a, <1>7 DEF EverywhereElse
  <2>2. stamp # 0
    BY <1>3, <1>4, <2>1
  <2>3. CASE Flagged(star.taken[n])
    <3>1. ~Removed(stamp)
      BY <2>1, <2>3 DEF Removed, Flagged
    <3>2. QED
      BY <1>2, <2>2, <2>3, <3>1 DEF MergedAs, Flagged
  <2>4. CASE ~Flagged(star.taken[n])
    <3>1. PICK m \in Nodes \ {n} : stamp = star.taken[m].flag
      BY <1>3, <2>2, <2>4 DEF Flagged
    <3>2. HeldSince(n, stamp)
      BY <2>1, <3>1
    <3>3. stamp <= LastSeen(n)
      BY <1>5, <1>a, <2>4, <3>2 DEF HeldSince
    <3>4. Removed(stamp)
      BY <2>4, <3>3 DEF Removed
    <3>5. QED
      BY <1>2, <2>4, <3>4 DEF MergedAs, Flagged
  <2>5. QED
    BY <2>3, <2>4
<1>8. QED
  BY <1>6, <1>7 DEF Alone

LEMMA WordTakenKept ==
    ASSUME Types, Types', Shape, SpokenAlone, WordTaken, [Next]_vars PROVE WordTaken'
<1>a. star \in Stars /\ history \in Histories /\ history.shared \in Nat
  BY DEF Types, Histories
<1>1. SUFFICES ASSUME FirstMerge', NEW n \in Nodes, history'.actors \subseteq {n}
      PROVE  MergedAs(n)'
  BY DEF WordTaken
<1>2. ASSUME star'.took = star.took, star'.taken = star.taken, star'.merged = star.merged,
             history.actors \subseteq {n},
             FirstMerge' /\ star.took = Nodes => FirstMerge
      PROVE  MergedAs(n)'
  BY <1>1, <1>2 DEF WordTaken, MergedAs, FirstMerge, Flagged
<1>3. CASE Flagging
  <2>1. PICK m \in Nodes, on \in BOOLEAN : SetFlag(m, on)
    BY <1>3 DEF Flagging
  <2>2. /\ history'.actors = IF Agreed THEN {m} ELSE history.actors \cup {m}
        /\ history'.shared = IF Agreed THEN 0 ELSE history.shared
    BY <1>a, <2>1 DEF SetFlag, Histories
  <2>3. SameRun
    BY <2>1, RunGoesOn DEF SetFlag
  <2>4. ~Agreed
    BY <1>1, <2>2, <2>3 DEF Agreed, FirstMerge, SameRun
  <2>5. QED
    BY <1>1, <1>2, <2>2, <2>3, <2>4 DEF FirstMerge, SameRun
<1>4. CASE HubTakes
  <2>1. /\ star.stage = "merged" /\ star'.took = star.took /\ star'.taken = star.taken
        /\ star'.merged = star.merged /\ star'.stage \in {"shared", "refused"}
        /\ star'.stage = "shared" => history'.shared = history.shared + 1
        /\ history'.actors = history.actors
    BY <1>a, <1>4 DEF HubTakes, Stars, Histories
  <2>2. FirstMerge
    BY <1>1, <1>a, <2>1 DEF FirstMerge
  <2>3. QED
    BY <1>1, <1>2, <2>1, <2>2
<1>5. CASE ~HubTakes /\ ~Flagging
  <2>1. history'.actors = history.actors /\ history'.shared = history.shared
    BY <1>5, WordsAreKept
  <2>2. CASE SameRun
    BY <1>1, <1>2, <2>1, <2>2 DEF SameRun, FirstMerge
  <2>3. CASE MergeRun
    <3>1. star.took = Nodes /\ history.shared = 0
      BY <1>1, <1>a, <2>1, <2>3 DEF MergeRun, FirstMerge, Stars
    <3>2. Alone(n)
      BY <1>1, <2>1, <3>1 DEF SpokenAlone
    <3>3. QED
      BY <2>3, <3>1, <3>2, WordMerged
  <2>4. ~BeginRun /\ (\A a \in Appliances : ~TakeAppliance(a)) /\ (\A p \in Phones : ~TakePhone(p))
    <3>1. star'.stage # "taking"
      BY <1>1 DEF FirstMerge
    <3>2. BeginRun => star'.stage = "taking"
      BY DEF BeginRun
    <3>3. ASSUME NEW a \in Appliances, TakeAppliance(a) PROVE star'.stage = "taking"
      BY <1>a, <3>3 DEF TakeAppliance, Stars
    <3>4. ASSUME NEW p \in Phones, TakePhone(p) PROVE star'.stage = "taking"
      BY <1>a, <3>4 DEF TakePhone, Stars
    <3>5. QED
      BY <3>1, <3>2, <3>3, <3>4
  <2>5. QED
    BY <1>5, <2>2, <2>3, <2>4, RunsAreMade DEF Making
<1>6. QED
  BY <1>3, <1>4, <1>5

(* A flag that one node alone has had a word on since everybody agreed is, *)
(* after the first run shared since, as that node has it, if the run       *)
(* reached everybody: whoever that node is, however often it changed its   *)
(* mind, and whatever runs were begun and let go of or refused before, what *)
(* it added is everywhere and what it took away is nowhere.                *)
THEOREM OnlyWordPrevails == ASSUME AtOnce = 1 PROVE Spec => []TheOnlyWordStands
<1> DEFINE Inv == /\ Types /\ Shape /\ Boxed /\ Followed
                  /\ Evidenced /\ SpokenAlone /\ WordTaken
<1>1. Init => Inv
  BY InitTyped, InitShaped, InitFollowed, InitSpokenAlone
<1>2. Inv /\ [Next]_vars => Inv'
  BY TypesKept, ShapeKept, BoxedKept, FollowedKept, EvidencedKept, SpokenAloneKept, WordTakenKept
<1>3. Inv => TheOnlyWordStands
  <2> SUFFICES ASSUME Inv, Complete, history.shared = 1, NEW n \in Nodes, history.actors = {n}
               PROVE  \A m \in Nodes : Flagged(held[m]) = Flagged(star.taken[n])
    BY DEF TheOnlyWordStands
  <2>1. \A m \in Nodes : held[m] = star.merged
    BY AllHoldTheMerged
  <2>2. MergedAs(n)
    BY DEF WordTaken, FirstMerge, Complete
  <2>3. QED
    BY <2>1, <2>2 DEF MergedAs
<1>4. QED
  BY <1>1, <1>2, <1>3, PTL DEF Spec

=============================================================================
