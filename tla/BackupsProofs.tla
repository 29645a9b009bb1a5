---------------------------- MODULE BackupsProofs ---------------------------
(***************************************************************************)
(* Snapshots and restores, for any number of tables, any calendar and any  *)
(* bounds: what is never half, never lost and never done twice.            *)
(***************************************************************************)
EXTENDS Backups, SequenceTheorems, FiniteSetTheorems, TLAPS

Kinds == {"listener", "prerestore"}
Values == 0..MaxWrites
Steps == {"down", "read", "taken", "saving", "saved", "restored", "up"}
Holdings == Values \cup {LeftOut}
Contents == {s \in Seq(Holdings) : Len(s) <= Tables}
KindOf(c) == IF c = "safety" THEN "prerestore" ELSE "listener"

-----------------------------------------------------------------------------
(* The shape of the state, one part for each variable.                     *)

ListenerOK == listener \in [1..Tables -> Values]
Snapshots == [kind : Kinds, at : 1..clock, holds : Contents]
FilesOK == files \subseteq Snapshots
Copies == [step : {"idle", "copying", "named"}, place : {"part", "dir", "gone"},
           at : 0..clock, holds : Contents, kind : Kinds]
CopiesOK ==
    /\ copies \in [Copiers -> Copies]
    /\ \A c \in Copiers : /\ copies[c].kind = KindOf(c)
                          /\ copies[c].step = "copying" => copies[c].at # 0
Staged == [kind : Kinds, at : 1..clock, nth : Nat]
StagedOK == staged = Nothing \/ staged \in Staged
PlayerOK ==
    player \in [step : Steps, by : {"start", "hand"},
                name : [kind : Kinds \cup {"nothing"}, at : Nat, nth : Nat], before : Nat]
HistoryOK ==
    history \in [writes : 0..MaxWrites, exports : Nat, stages : 0..MaxStages, stops : Nat,
                 faults : Nat, clashed : BOOLEAN, taken : SUBSET Nat,
                 unread : SUBSET ((Kinds \X Nat) \X Nat),
                 overwritten : SUBSET [was : [1..Tables -> Values], before : Nat],
                 putBack : [0..MaxStages -> Nat]]
Shape ==
    /\ clock \in 1..MaxClock /\ outcome \in {"none", "restored", "not restored"}
    /\ ListenerOK /\ FilesOK /\ CopiesOK /\ StagedOK /\ PlayerOK /\ HistoryOK

LEMMA Bounds ==
    /\ MaxClock \in Nat /\ MaxClock >= 1 /\ Tables \in Nat /\ Tables >= 1
    /\ MaxWrites \in Nat /\ MaxExports \in Nat /\ MaxStages \in Nat
    /\ MaxStops \in Nat /\ MaxFaults \in Nat /\ MaxEvents \in Nat
BY BoundsAssumption, CalendarAssumption

LEMMA EmptyContents == <<>> \in Contents
BY Bounds DEF Contents

(* A copier started, or set to rest, or told where its file is, is a       *)
(* copier still.                                                           *)
LEMMA InitShape == Init => Shape
<1> USE Bounds, EmptyContents
<1> SUFFICES ASSUME Init PROVE Shape
  OBVIOUS
<1>1. clock \in 1..MaxClock
  BY BoundsAssumption DEF Init
<1>2. CopiesOK
  BY <1>1 DEF Init, CopiesOK, Copies, Kinds, KindOf
<1>3. HistoryOK
  BY DEF Init, HistoryOK, Values
<1>4. ListenerOK /\ FilesOK /\ StagedOK
  BY DEF Init, ListenerOK, FilesOK, StagedOK, Values
<1>5. PlayerOK
  BY DEF Init, PlayerOK, Steps, Nothing
<1>6. QED
  BY <1>1, <1>2, <1>3, <1>4, <1>5 DEF Init, Shape

LEMMA IdleTyped ==
    ASSUME CopiesOK, NEW c \in Copiers
    PROVE  /\ Idle(c) \in Copies /\ Idle(c).kind = KindOf(c)
           /\ Idle(c).step = "idle" /\ Idle(c).place = "part" /\ Idle(c).at = copies[c].at
BY EmptyContents DEF CopiesOK, Copies, Idle

LEMMA BegunTyped ==
    ASSUME Shape, NEW c \in Copiers, copies' = Begun(c), clock' = clock
    PROVE  CopiesOK'
<1>1. clock \in Nat /\ clock # 0 /\ clock \in 0..clock
  <2>1. clock \in 1..MaxClock
    BY DEF Shape
  <2>2. QED
    BY <2>1, Bounds
<1>2. copies \in [Copiers -> Copies] /\ CopiesOK
  BY DEF Shape, CopiesOK
<1>3. ASSUME NEW d \in Copiers
      PROVE  copies'[d] \in Copies /\ copies'[d].kind = copies[d].kind
             /\ (copies'[d].step = "copying" => copies'[d].at # 0)
  BY <1>1, <1>2 DEF Begun, CopiesOK, Copies
<1>4. QED
  BY <1>2, <1>3 DEF CopiesOK, Copies, Begun

LEMMA HeldTyped ==
    ASSUME Shape
    PROVE  Held \subseteq Snapshots
<1>1. ASSUME NEW c \in Renamed PROVE FileOf(copies[c]) \in Snapshots
  <2>1. /\ copies[c] \in Copies /\ copies[c].at # 0
    BY DEF Shape, CopiesOK, Renamed
  <2>2. clock \in Nat
    <3>1. clock \in 1..MaxClock
      BY DEF Shape
    <3>2. QED
      BY <3>1, Bounds
  <2>3. copies[c].at \in 1..clock
    BY <2>1, <2>2 DEF Copies
  <2>4. QED
    BY <2>1, <2>3 DEF FileOf, Snapshots, Copies
<1>2. QED
  BY <1>1 DEF Shape, FilesOK, Held

LEMMA Counters ==
    ASSUME HistoryOK
    PROVE  /\ history.exports + 1 \in Nat /\ history.stops + 1 \in Nat
           /\ history.faults + 1 \in Nat
           /\ history.writes < MaxWrites => history.writes + 1 \in 0..MaxWrites
           /\ history.stages < MaxStages => history.stages + 1 \in 0..MaxStages
           /\ history.stages + 1 \in Nat /\ history.stages \in Nat
           /\ \A n \in 0..MaxStages : history.putBack[n] + 1 \in Nat
<1>1. /\ history.exports \in Nat /\ history.stops \in Nat /\ history.faults \in Nat
      /\ history.writes \in 0..MaxWrites /\ history.stages \in 0..MaxStages
      /\ \A n \in 0..MaxStages : history.putBack[n] \in Nat
  BY DEF HistoryOK
<1>2. QED
  BY <1>1, Bounds

(* What an action leaves alone keeps its shape.                            *)
LEMMA StepShape == Shape /\ [Next]_vars => Shape'
<1> SUFFICES ASSUME Shape, [Next]_vars PROVE Shape'
  OBVIOUS
<1> USE Bounds
<1>0. /\ clock \in 1..MaxClock /\ HistoryOK
  BY DEF Shape
<1>C. clock \in Nat /\ clock + 1 \in Nat /\ clock # 0 /\ clock \in 1..clock /\ clock \in 0..clock
  BY <1>0
<1>1. /\ clock \in 1..MaxClock /\ outcome \in {"none", "restored", "not restored"}
      /\ ListenerOK /\ FilesOK /\ CopiesOK /\ StagedOK /\ PlayerOK /\ HistoryOK
  BY DEF Shape
<1>H. history \in [writes : 0..MaxWrites, exports : Nat, stages : 0..MaxStages, stops : Nat,
                 faults : Nat, clashed : BOOLEAN, taken : SUBSET Nat,
                 unread : SUBSET ((Kinds \X Nat) \X Nat),
                 overwritten : SUBSET [was : [1..Tables -> Values], before : Nat],
                 putBack : [0..MaxStages -> Nat]]
  BY <1>0 DEF HistoryOK
<1>N. \A c \in Copiers : /\ copies[c] \in Copies /\ copies[c].at \in Nat
                           /\ copies[c].kind \in Kinds
  <2>1. \A c \in Copiers : copies[c] \in Copies
    BY <1>1 DEF CopiesOK
  <2>2. QED
    BY <1>C, <2>1 DEF Copies
<1>2. CASE ThreadBegins
  <2>1. CopiesOK'
    BY <1>2, BegunTyped DEF ThreadBegins, Copiers
  <2>2. HistoryOK'
    BY <1>1, <1>2 DEF ThreadBegins, Clashing, HistoryOK
  <2>3. QED
    BY <1>1, <1>2, <2>1, <2>2 DEF ThreadBegins, Shape, ListenerOK, FilesOK, StagedOK, Staged, PlayerOK, Snapshots
<1>3. CASE ExportBegins
  <2>1. CopiesOK'
    BY <1>3, BegunTyped DEF ExportBegins, Copiers
  <2>2. HistoryOK'
    <3>1. history.exports + 1 \in Nat
      BY <1>0, Counters
    <3>2. QED
      BY <1>H, <1>3, <3>1 DEF ExportBegins, Clashing, HistoryOK
  <2>3. QED
    BY <1>1, <1>3, <2>1, <2>2 DEF ExportBegins, Shape, ListenerOK, FilesOK, StagedOK, Staged, PlayerOK, Snapshots
<1>4. ASSUME NEW c \in Copiers, CopyTable(c) PROVE Shape'
  <2>1. copies[c].holds \in Seq(Holdings) /\ Len(copies[c].holds) \in Nat /\ Len(copies[c].holds) < Tables
    BY <1>1, <1>4, LenProperties DEF CopyTable, CopiesOK, Copies, Contents
  <2>2. listener[Len(copies[c].holds) + 1] \in Holdings
    <3>1. Len(copies[c].holds) + 1 \in 1..Tables
      BY <2>1
    <3>2. QED
      BY <1>1, <3>1 DEF ListenerOK, Holdings
  <2>3. Append(copies[c].holds, listener[Len(copies[c].holds) + 1]) \in Contents
    BY <2>1, <2>2, AppendProperties DEF Contents
  <2>4. CopiesOK'
    BY <1>1, <1>4, <2>3 DEF CopyTable, CopiesOK, Copies
  <2>5. QED
    BY <1>1, <1>4, <2>4 DEF CopyTable, Shape, ListenerOK, FilesOK, StagedOK, Staged, PlayerOK, HistoryOK, Snapshots
<1>P. ASSUME NEW c \in Copiers, PassOver(c) PROVE Shape'
  <2>1. /\ copies[c].holds \in Seq(Holdings) /\ Len(copies[c].holds) \in Nat
        /\ Len(copies[c].holds) < Tables
    BY <1>N, <1>P, LenProperties DEF PassOver, Copies, Contents
  <2>2. Append(copies[c].holds, LeftOut) \in Contents
    BY <2>1, AppendProperties DEF Contents, Holdings
  <2>3. CopiesOK'
    BY <1>1, <1>P, <2>2 DEF PassOver, CopiesOK, Copies
  <2>4. HistoryOK'
    <3>1. history.faults + 1 \in Nat
      BY <1>0, Counters
    <3>2. <<Name(copies[c]), Len(copies[c].holds) + 1>> \in (Kinds \X Nat) \X Nat
      BY <1>N, <2>1 DEF Name
    <3>3. QED
      BY <1>H, <1>P, <3>1, <3>2 DEF PassOver, HistoryOK
  <2>5. QED
    BY <1>1, <1>P, <2>3, <2>4 DEF PassOver, Shape, ListenerOK, FilesOK, StagedOK, Staged, PlayerOK, Snapshots
<1>5. ASSUME NEW c \in Copiers, CopyNamed(c) PROVE Shape'
  <2>1. FileOf(copies[c]) \in Snapshots
    <3>1. copies[c] \in Copies /\ copies[c].at # 0
      BY <1>1, <1>5 DEF CopyNamed, Through, CopiesOK
    <3>2. copies[c].at \in 1..clock
      BY <3>1, <1>C DEF Copies
    <3>3. QED
      BY <3>1, <3>2 DEF FileOf, Snapshots, Copies
  <2>2. PICK d \in UnderItsName(c) :
           /\ files' = {f \in files : Name(f) # Name(copies[c])}
                       \cup (IF d = c THEN {FileOf(copies[c])} ELSE {})
           /\ copies' = [(IF d = c THEN copies ELSE [copies EXCEPT ![d].place = "dir"])
                          EXCEPT ![c] = IF c = "safety" THEN Idle(c) ELSE [@ EXCEPT !.step = "named"]]
    BY <1>5 DEF CopyNamed
  <2>3. FilesOK'
    BY <1>1, <1>5, <2>1, <2>2 DEF CopyNamed, FilesOK, Snapshots
  <2>4. CopiesOK'
    <3> DEFINE left == IF d = c THEN copies ELSE [copies EXCEPT ![d].place = "dir"]
    <3>1. /\ left \in [Copiers -> Copies]
          /\ \A e \in Copiers : /\ left[e].kind = KindOf(e)
                                /\ left[e].step = "copying" => left[e].at # 0
      BY <1>1, <2>2 DEF UnderItsName, CopiesOK, Copies
    <3>2. copies' = [left EXCEPT ![c] = IF c = "safety" THEN Idle(c) ELSE [@ EXCEPT !.step = "named"]]
      BY <2>2
    <3>3. clock' = clock
      BY <1>5 DEF CopyNamed
    <3> HIDE DEF left
    <3>4. /\ (IF c = "safety" THEN Idle(c) ELSE [left[c] EXCEPT !.step = "named"]) \in Copies
          /\ (IF c = "safety" THEN Idle(c) ELSE [left[c] EXCEPT !.step = "named"]).kind = KindOf(c)
          /\ (IF c = "safety" THEN Idle(c) ELSE [left[c] EXCEPT !.step = "named"]).step # "copying"
      BY <1>1, <3>1, IdleTyped DEF Copies
    <3>5. \A e \in Copiers :
             copies'[e] = IF e = c THEN IF c = "safety" THEN Idle(c) ELSE [left[c] EXCEPT !.step = "named"]
                          ELSE left[e]
      BY <3>1, <3>2
    <3>6. Copies' = Copies
      BY <3>3 DEF Copies
    <3>7. copies' \in [Copiers -> Copies]
      BY <3>1, <3>2, <3>4
    <3>8. QED
      BY <3>1, <3>4, <3>5, <3>6, <3>7 DEF CopiesOK
  <2>5. HistoryOK'
    <3>1. copies[c].at \in Nat
      <4>1. copies[c] \in Copies
        BY <1>1 DEF CopiesOK
      <4>2. QED
        BY <4>1, <1>C DEF Copies
    <3>2. QED
      BY <1>H, <1>5, <3>1 DEF CopyNamed, HistoryOK
  <2>6. PlayerOK'
    BY <1>1, <1>5, <1>N DEF CopyNamed, AfterSafety, PlayerOK, Steps
  <2>7. QED
    BY <1>1, <1>5, <2>3, <2>4, <2>5, <2>6 DEF CopyNamed, Shape, ListenerOK, StagedOK, Staged
<1>6. ASSUME NEW c \in Copiers, CopyNameless(c) PROVE Shape'
  <2>1. FilesOK'
    <3>1. files' \subseteq Held
      BY <1>6 DEF CopyNameless, LeftBy, Held
    <3>2. clock' = clock
      BY <1>6 DEF CopyNameless
    <3>3. QED
      BY <3>1, <3>2, HeldTyped DEF FilesOK, Snapshots
  <2>2. CopiesOK'
    BY <1>1, <1>6, IdleTyped DEF CopyNameless, CopiesOK, Copies
  <2>3. QED
    BY <1>1, <1>6, <2>1, <2>2 DEF CopyNameless, Shape, ListenerOK, StagedOK, Staged, PlayerOK, HistoryOK
<1>7. ASSUME NEW c \in Copiers, Prune(c) PROVE Shape'
  <2>1. FilesOK'
    BY <1>1, <1>7 DEF Prune, Pruned, FilesOK, Snapshots
  <2>2. CopiesOK'
    BY <1>1, <1>7, IdleTyped DEF Prune, CopiesOK, Copies
  <2>3. QED
    BY <1>1, <1>7, <2>1, <2>2 DEF Prune, Shape, ListenerOK, StagedOK, Staged, PlayerOK, HistoryOK
<1>G. ASSUME NEW c \in Copiers, GivesUp(c), clock' = clock
      PROVE  FilesOK' /\ PlayerOK' /\ outcome' \in {"none", "restored", "not restored"}
  <2>1. FilesOK'
    <3>1. files' \subseteq Held
      BY <1>G DEF GivesUp, LeftBy, Held
    <3>2. QED
      BY <1>G, <3>1, HeldTyped DEF FilesOK, Snapshots
  <2>2. PlayerOK'
    BY <1>1, <1>G, <1>N DEF GivesUp, AfterSafety, Afterwards, PlayerOK, Steps
  <2>3. QED
    BY <1>1, <1>G, <2>1, <2>2 DEF GivesUp
<1>8. ASSUME NEW c \in Copiers, CopyFails(c) PROVE Shape'
  <2>1. CopiesOK'
    BY <1>1, <1>8, IdleTyped DEF CopyFails, CopiesOK, Copies
  <2>2. HistoryOK'
    <3>1. history.faults + 1 \in Nat
      BY <1>0, Counters
    <3>2. QED
      BY <1>H, <1>8, <3>1 DEF CopyFails, HistoryOK
  <2>3. QED
    BY <1>1, <1>8, <1>G, <2>1, <2>2 DEF CopyFails, Shape, ListenerOK, StagedOK, Staged
<1>E. ASSUME NEW c \in Copiers, CopyEmpty(c) PROVE Shape'
  <2>1. CopiesOK'
    <3>1. ASSUME NEW d \in Copiers
          PROVE  /\ copies'[d] \in Copies /\ copies'[d].kind = KindOf(d)
                 /\ copies'[d].step = "copying" => copies'[d].at # 0
      <4>1. /\ copies[d] \in Copies /\ copies[d].kind = KindOf(d)
            /\ copies[d].step = "copying" => copies[d].at # 0
        BY <1>1 DEF CopiesOK
      <4>2. copies'[d] = IF d = c THEN Idle(c)
                         ELSE IF d \in UnderItsName(c) THEN [copies[d] EXCEPT !.place = "gone"]
                         ELSE copies[d]
        BY <1>E DEF CopyEmpty
      <4>3. CASE d = c
        BY <1>1, <4>2, <4>3, IdleTyped
      <4>4. CASE d # c
        BY <4>1, <4>2, <4>4 DEF Copies
      <4>5. QED
        BY <4>3, <4>4
    <3>2. clock' = clock
      BY <1>E DEF CopyEmpty
    <3>3. QED
      BY <1>E, <3>1, <3>2 DEF CopyEmpty, CopiesOK, Copies
  <2>2. QED
    BY <1>1, <1>E, <1>G, <2>1 DEF CopyEmpty, Shape, ListenerOK, StagedOK, Staged, HistoryOK
<1>9. ASSUME NEW f \in Held, Stage(f) PROVE Shape'
  <2>1. f \in Snapshots
    BY HeldTyped
  <2>2. HistoryOK' /\ StagedOK'
    <3>1. history.stages < MaxStages
      BY <1>9 DEF Stage, May
    <3>2. history.stages + 1 \in 0..MaxStages /\ history.stages + 1 \in Nat
      BY <1>0, <3>1, Counters
    <3>3. HistoryOK'
      BY <1>H, <1>9, <3>2 DEF Stage, HistoryOK
    <3>4. StagedOK'
      BY <1>1, <1>9, <2>1, <3>2 DEF Stage, StagedOK, Staged, Snapshots
    <3>5. QED
      BY <3>3, <3>4
  <2>3. QED
    BY <1>1, <1>9, <2>2 DEF Stage, Shape, ListenerOK, FilesOK, Snapshots, CopiesOK, Copies, PlayerOK
<1>10. ASSUME NEW f \in Held, ByHand(f) PROVE Shape'
  <2>1. f \in Snapshots
    BY HeldTyped
  <2>2. CopiesOK'
    BY <1>10, BegunTyped DEF ByHand, Copiers
  <2>3. HistoryOK' /\ PlayerOK'
    <3>1. history.stages < MaxStages
      BY <1>10 DEF ByHand, May
    <3>2. history.stages + 1 \in 0..MaxStages /\ history.stages + 1 \in Nat
      BY <1>0, <3>1, Counters
    <3>3. HistoryOK'
      BY <1>H, <1>10, <3>2 DEF ByHand, HistoryOK
    <3>4. f.kind \in Kinds /\ f.at \in Nat
      BY <2>1, <1>C DEF Snapshots
    <3>5. PlayerOK'
      BY <1>10, <3>2, <3>4 DEF ByHand, PlayerOK, Steps
    <3>6. QED
      BY <3>3, <3>5
  <2>4. QED
    BY <1>1, <1>10, <2>2, <2>3 DEF ByHand, Shape, ListenerOK, FilesOK, Snapshots, StagedOK, Staged
<1>11. CASE Unstage
  BY <1>1, <1>11 DEF Unstage, Shape, ListenerOK, FilesOK, Snapshots, CopiesOK, Copies, StagedOK, PlayerOK, HistoryOK
<1>12. CASE Start
  <2>1. PlayerOK'
    <3>1. staged \in [kind : Kinds \cup {"nothing"}, at : Nat, nth : Nat]
      <4>1. CASE staged = Nothing
        BY <4>1 DEF Nothing
      <4>2. CASE staged \in Staged
        <5>1. \A n \in 1..clock : n \in Nat
          BY <1>C
        <5>2. QED
          BY <4>2, <5>1 DEF Staged
      <4>3. QED
        BY <1>1, <4>1, <4>2 DEF StagedOK
    <3>2. QED
      BY <1>12, <3>1 DEF Start, PlayerOK, Steps
  <2>2. QED
    BY <1>1, <1>12, <2>1 DEF Start, Shape, ListenerOK, FilesOK, Snapshots, CopiesOK, Copies, StagedOK, Staged, HistoryOK
<1>13. CASE TakeDown
  BY <1>1, <1>13 DEF TakeDown, Shape, ListenerOK, FilesOK, Snapshots, CopiesOK, Copies, StagedOK, PlayerOK, Steps, HistoryOK
<1>14. CASE CannotTakeDown
  <2>1. HistoryOK'
    <3>1. history.faults + 1 \in Nat
      BY <1>0, Counters
    <3>2. QED
      BY <1>H, <1>14, <3>1 DEF CannotTakeDown, HistoryOK
  <2>2. QED
    BY <1>1, <1>14, <2>1 DEF CannotTakeDown, Shape, ListenerOK, FilesOK, Snapshots, CopiesOK, Copies, StagedOK, Staged, PlayerOK, Steps
<1>15. CASE SaveFirst
  <2>1. CopiesOK'
    BY <1>15, BegunTyped DEF SaveFirst, Copiers
  <2>2. QED
    BY <1>1, <1>15, <2>1 DEF SaveFirst, Shape, ListenerOK, FilesOK, Snapshots, StagedOK, Staged, PlayerOK, Steps, HistoryOK
<1>16. CASE NoLongerThere
  BY <1>1, <1>16 DEF NoLongerThere, Shape, ListenerOK, FilesOK, Snapshots, CopiesOK, Copies, StagedOK, Staged, PlayerOK, Steps, HistoryOK
<1>17. CASE Restore
  <2>1. PICK f \in Held :
           listener' = [t \in 1..Tables |->
                          IF t <= Len(f.holds) /\ f.holds[t] # LeftOut THEN f.holds[t]
                          ELSE listener[t]]
    BY <1>17 DEF Restore, Find
  <2>2. f.holds \in Seq(Holdings) /\ Len(f.holds) \in Nat
    BY HeldTyped, LenProperties DEF Snapshots, Contents
  <2>3. \A t \in 1..Tables : t <= Len(f.holds) /\ f.holds[t] # LeftOut => f.holds[t] \in Values
    BY <2>2, ElementOfSeq DEF Holdings
  <2>4. ListenerOK'
    BY <1>1, <2>1, <2>3 DEF ListenerOK
  <2>5. HistoryOK'
    <3>1. \A n \in 0..MaxStages : history.putBack[n] + 1 \in Nat
      BY <1>0, Counters
    <3>2. history' = [history EXCEPT
                        !.overwritten = @ \cup {[was |-> listener, before |-> player.before]},
                        !.putBack[player.name.nth] = @ + 1]
      BY <1>17 DEF Restore
    <3>3. [was |-> listener, before |-> player.before] \in [was : [1..Tables -> Values], before : Nat]
      BY <1>1 DEF ListenerOK, PlayerOK
    <3>4. QED
      BY <1>H, <3>1, <3>2, <3>3 DEF HistoryOK
  <2>6. PlayerOK'
    BY <1>1, <1>17 DEF Restore, PlayerOK, Steps
  <2>7. QED
    BY <1>1, <1>17, <2>4, <2>5, <2>6 DEF Restore, Shape, FilesOK, Snapshots, CopiesOK, Copies, StagedOK, Staged
<1>18. CASE RestoreFails
  <2>1. HistoryOK'
    <3>1. history.faults + 1 \in Nat
      BY <1>0, Counters
    <3>2. QED
      BY <1>H, <1>18, <3>1 DEF RestoreFails, HistoryOK
  <2>2. PlayerOK'
    BY <1>1, <1>18 DEF RestoreFails, Afterwards, PlayerOK, Steps
  <2>3. QED
    BY <1>1, <1>18, <2>1, <2>2 DEF RestoreFails, Shape, ListenerOK, FilesOK, Snapshots, CopiesOK, Copies, StagedOK, Staged
<1>19. CASE Say
  BY <1>1, <1>19 DEF Say, Shape, ListenerOK, FilesOK, Snapshots, CopiesOK, Copies, StagedOK, Staged, PlayerOK, Steps, HistoryOK
<1>20. CASE Tick
  <2>0. clock' = clock + 1 /\ clock < MaxClock
    BY <1>20 DEF Tick
  <2>1. clock' \in 1..MaxClock
    BY <1>C, <2>0
  <2>2. 1..clock \subseteq 1..clock' /\ 0..clock \subseteq 0..clock' /\ 0 \in 0..clock'
    BY <1>C, <2>0
  <2>3. FilesOK' /\ StagedOK'
    BY <1>1, <1>20, <2>2 DEF Tick, FilesOK, Snapshots, StagedOK, Staged
  <2>4. CopiesOK'
    <3>1. ASSUME NEW c \in Copiers
          PROVE  /\ copies'[c] \in Copies' /\ copies'[c].kind = KindOf(c)
                 /\ copies'[c].step = "copying" => copies'[c].at # 0
      <4>1. /\ copies[c] \in Copies /\ copies[c].kind = KindOf(c)
            /\ copies[c].step = "copying" => copies[c].at # 0
        BY <1>1 DEF CopiesOK
      <4>2. copies'[c] = IF copies[c].step = "idle" THEN [copies[c] EXCEPT !.at = 0] ELSE copies[c]
        BY <1>20 DEF Tick
      <4>3. copies[c].at \in 0..clock'
        BY <4>1, <2>2 DEF Copies
      <4>4. CASE copies[c].step = "idle"
        BY <4>1, <4>2, <4>4, <2>2 DEF Copies
      <4>5. CASE copies[c].step # "idle"
        BY <4>1, <4>2, <4>3, <4>5 DEF Copies
      <4>6. QED
        BY <4>4, <4>5
    <3>2. QED
      BY <1>20, <3>1 DEF Tick, CopiesOK
  <2>5. QED
    BY <1>1, <1>20, <2>1, <2>3, <2>4 DEF Tick, Shape, ListenerOK, PlayerOK, HistoryOK
<1>21. CASE Stop
  <2>1. FilesOK'
    BY <1>21, HeldTyped DEF Stop, FilesOK, Snapshots
  <2>2. CopiesOK'
    BY <1>1, <1>21, IdleTyped DEF Stop, CopiesOK, Copies
  <2>3. HistoryOK'
    <3>1. history.stops + 1 \in Nat
      BY <1>0, Counters
    <3>2. QED
      BY <1>H, <1>21, <3>1 DEF Stop, HistoryOK
  <2>4. QED
    BY <1>1, <1>21, <2>1, <2>2, <2>3 DEF Stop, Shape, ListenerOK, StagedOK, Staged, PlayerOK, Steps
<1>22. ASSUME NEW t \in 1..Tables, Listen(t) PROVE Shape'
  <2>1. ListenerOK' /\ HistoryOK'
    <3>1. history.writes < MaxWrites
      BY <1>22 DEF Listen, May
    <3>2. history.writes + 1 \in 0..MaxWrites
      BY <1>0, <3>1, Counters
    <3>3. HistoryOK'
      BY <1>H, <1>22, <3>2 DEF Listen, HistoryOK
    <3>4. ListenerOK'
      BY <1>1, <1>22, <3>2 DEF Listen, ListenerOK, Values
    <3>5. QED
      BY <3>3, <3>4
  <2>2. QED
    BY <1>1, <1>22, <2>1 DEF Listen, Shape, FilesOK, Snapshots, CopiesOK, Copies, StagedOK, Staged, PlayerOK
<1>23. CASE UNCHANGED vars
  BY <1>1, <1>23 DEF vars, Shape, ListenerOK, FilesOK, Snapshots, CopiesOK, Copies, StagedOK, Staged, PlayerOK, HistoryOK
<1>24. QED
  BY <1>2, <1>3, <1>4, <1>P, <1>5, <1>6, <1>7, <1>8, <1>E, <1>9, <1>10, <1>11, <1>12, <1>13,
     <1>14, <1>15, <1>16, <1>17, <1>18, <1>19, <1>20, <1>21, <1>22, <1>23 DEF Next

(***************************************************************************)
(* A start or a restore by hand, and the copy it waits for.                *)
(***************************************************************************)
Waits ==
    /\ copies["safety"].step \in {"idle", "copying"} /\ copies["safety"].place = "part"
    /\ (player.step = "saving") = (copies["safety"].step = "copying")

\* What a restore is under way for has been put back by none.
Pending == {"taken", "saving", "saved"}
Once ==
    /\ \A n \in 0..MaxStages : history.putBack[n] \in {0, 1}
    /\ \A n \in 0..MaxStages : n > history.stages => history.putBack[n] = 0
    /\ staged # Nothing => staged.nth \in 1..history.stages /\ history.putBack[staged.nth] = 0
    /\ player.step = "read" => player.name = staged /\ staged # Nothing
    /\ player.step \in Pending => /\ player.name.nth \in 1..history.stages
                                  /\ history.putBack[player.name.nth] = 0
                                  /\ staged # Nothing => staged.nth # player.name.nth

LEMMA InitWaits == Init => Waits
BY DEF Init, Waits, Copiers

(* The temporary name of a copy made before a restore is nobody else's.    *)
LEMMA SafetyAlone ==
    ASSUME Shape, NEW c \in Copiers
    PROVE  /\ "safety" \in UnderItsName(c) => c = "safety"
           /\ UnderItsName("safety") \subseteq {"safety"}
           /\ "safety" \in Before(c) => c = "safety"
           /\ Before("safety") = {}
BY DEF Shape, CopiesOK, KindOf, UnderItsName, Before, Name, Copiers

LEMMA StepWaits == Shape /\ Waits /\ [Next]_vars => Waits'
<1> SUFFICES ASSUME Shape, Waits, [Next]_vars PROVE Waits'
  OBVIOUS
<1>1. /\ copies \in [Copiers -> Copies] /\ "safety" \in Copiers
      /\ player.step \in Steps
  BY DEF Shape, CopiesOK, PlayerOK, Copiers
<1>2. player \in [step : Steps, by : {"start", "hand"},
                  name : [kind : Kinds \cup {"nothing"}, at : Nat, nth : Nat], before : Nat]
  BY DEF Shape, PlayerOK
<1>3. ASSUME NEW c \in Copiers, c # "safety", copies' = Begun(c), player' = player PROVE Waits'
  BY <1>1, <1>3, SafetyAlone DEF Begun, Waits
<1>4. ASSUME copies' = Begun("safety"), player'.step = "saving" PROVE Waits'
  BY <1>1, <1>4, SafetyAlone DEF Begun, Waits, Copies
<1>5. ASSUME copies' = copies, player.step # "saving", player'.step # "saving" PROVE Waits'
  BY <1>5 DEF Waits
<1>6. CASE ThreadBegins
  BY <1>3, <1>6 DEF ThreadBegins, Copiers
<1>7. CASE ExportBegins
  BY <1>3, <1>7 DEF ExportBegins, Copiers
<1>8. ASSUME NEW c \in Copiers, CopyTable(c) PROVE Waits'
  BY <1>1, <1>8 DEF CopyTable, Waits, Copies
<1>P. ASSUME NEW c \in Copiers, PassOver(c) PROVE Waits'
  BY <1>1, <1>P DEF PassOver, Waits, Copies
<1>9. ASSUME NEW c \in Copiers, CopyNamed(c) PROVE Waits'
  <2>1. PICK d \in UnderItsName(c) :
           copies' = [(IF d = c THEN copies ELSE [copies EXCEPT ![d].place = "dir"])
                          EXCEPT ![c] = IF c = "safety" THEN Idle(c) ELSE [@ EXCEPT !.step = "named"]]
    BY <1>9 DEF CopyNamed
  <2>2. CASE c = "safety"
    <3>1. copies'["safety"] = Idle("safety")
      BY <1>1, <2>1, <2>2, SafetyAlone
    <3>2. player'.step = "saved"
      BY <1>2, <1>9, <2>2 DEF CopyNamed, AfterSafety
    <3>3. QED
      BY <1>1, <3>1, <3>2, IdleTyped DEF Waits, Shape
  <2>3. CASE c # "safety"
    <3>1. d # "safety"
      BY <2>3, SafetyAlone
    <3>2. copies'["safety"] = copies["safety"]
      BY <1>1, <2>1, <2>3, <3>1
    <3>3. player' = player
      BY <1>9, <2>3 DEF CopyNamed, AfterSafety
    <3>4. QED
      BY <3>2, <3>3 DEF Waits
  <2>4. QED
    BY <2>2, <2>3
<1>10. ASSUME NEW c \in Copiers, CopyNameless(c) PROVE Waits'
  <2>1. c # "safety"
    BY <1>10 DEF CopyNameless, Through, UnderItsName, Waits, Copiers
  <2>2. QED
    BY <1>1, <1>10, <2>1 DEF CopyNameless, Waits
<1>11. ASSUME NEW c \in Copiers, Prune(c) PROVE Waits'
  <2>1. c # "safety"
    BY <1>11 DEF Prune, Waits
  <2>2. QED
    BY <1>1, <1>11, <2>1 DEF Prune, Waits
<1>G. ASSUME NEW c \in Copiers, GivesUp(c), copies'[c] = Idle(c),
             c # "safety" => copies'["safety"] = copies["safety"]
      PROVE  Waits'
  <2>1. CASE c = "safety"
    <3>1. player'.step \in {"down", "up"}
      BY <1>2, <1>G, <2>1 DEF GivesUp, AfterSafety, Afterwards
    <3>2. QED
      BY <1>1, <1>G, <2>1, <3>1, IdleTyped DEF Waits, Shape
  <2>2. CASE c # "safety"
    BY <1>G, <2>2 DEF GivesUp, AfterSafety, Waits
  <2>3. QED
    BY <2>1, <2>2
<1>12. ASSUME NEW c \in Copiers, CopyFails(c) PROVE Waits'
  BY <1>1, <1>12, <1>G DEF CopyFails
<1>E. ASSUME NEW c \in Copiers, CopyEmpty(c) PROVE Waits'
  BY <1>1, <1>E, <1>G, SafetyAlone DEF CopyEmpty
<1>13. ASSUME NEW f \in Held, Stage(f) PROVE Waits'
  BY <1>13, <1>5 DEF Stage
<1>14. ASSUME NEW f \in Held, ByHand(f) PROVE Waits'
  BY <1>14, <1>4 DEF ByHand
<1>15. CASE Unstage
  BY <1>15, <1>5 DEF Unstage
<1>16. CASE Start
  BY <1>2, <1>16, <1>5 DEF Start
<1>17. CASE TakeDown \/ CannotTakeDown \/ NoLongerThere
  BY <1>2, <1>17, <1>5 DEF TakeDown, CannotTakeDown, NoLongerThere
<1>18. CASE SaveFirst
  BY <1>2, <1>18, <1>4 DEF SaveFirst
<1>19. CASE Restore \/ RestoreFails \/ Say
  BY <1>2, <1>19, <1>5 DEF Restore, RestoreFails, Say, Afterwards
<1>20. CASE Tick
  BY <1>1, <1>20 DEF Tick, Waits, Copies
<1>21. CASE Stop
  <2>1. copies'["safety"] = Idle("safety") /\ player'.step = "down"
    BY <1>1, <1>2, <1>21 DEF Stop
  <2>2. QED
    BY <1>1, <2>1, IdleTyped DEF Waits, Shape
<1>22. ASSUME NEW t \in 1..Tables, Listen(t) PROVE Waits'
  BY <1>22 DEF Listen, Waits
<1>23. CASE UNCHANGED vars
  BY <1>23 DEF vars, Waits
<1>24. QED
  BY <1>6, <1>7, <1>8, <1>P, <1>9, <1>10, <1>11, <1>12, <1>E, <1>13, <1>14, <1>15, <1>16, <1>17,
     <1>18, <1>19, <1>20, <1>21, <1>22, <1>23 DEF Next

(* The type invariant, for any tables, calendar and bounds: and a start    *)
(* waits for its copy exactly while that is being made (put_back).         *)
THEOREM TypeCorrect == Spec => []TypeOK
<1>1. Init => Shape /\ Waits
  BY InitShape, InitWaits
<1>2. Shape /\ Waits /\ [Next]_vars => (Shape /\ Waits)'
  BY StepShape, StepWaits
<1>3. Shape /\ Waits => TypeOK
  <2> SUFFICES ASSUME Shape, Waits PROVE TypeOK
    OBVIOUS
  <2>1. \A f \in files : /\ f.kind \in {"listener", "prerestore"} /\ f.at \in 1..clock
                         /\ f.holds \in Seq((0..MaxWrites) \cup {LeftOut})
                         /\ Len(f.holds) <= Tables
    BY DEF Shape, FilesOK, Snapshots, Contents, Holdings, Values, Kinds
  <2>2. \A c \in Copiers : /\ copies[c].step \in {"idle", "copying", "named"}
                           /\ copies[c].place \in {"part", "dir", "gone"}
    BY DEF Shape, CopiesOK, Copies
  <2>3. staged = Nothing \/ Name(staged) \in {"listener", "prerestore"} \X (1..clock)
    BY DEF Shape, StagedOK, Staged, Name, Kinds
  <2>4. player.step \in {"down", "read", "taken", "saving", "saved", "restored", "up"}
    BY DEF Shape, PlayerOK, Steps
  <2>5. QED
    BY <2>1, <2>2, <2>3, <2>4 DEF Shape, ListenerOK, Values, Waits, TypeOK
<1>4. QED
  BY <1>1, <1>2, <1>3, PTL DEF Spec

-----------------------------------------------------------------------------
(* Put back at most once.                                                  *)

LEMMA InitOnce == Init => Once
BY Bounds DEF Init, Once, Pending, Nothing

LEMMA StepOnce == Shape /\ Waits /\ Once /\ [Next]_vars => Once'
<1> SUFFICES ASSUME Shape, Waits, Once, [Next]_vars PROVE Once'
  OBVIOUS
<1>1. /\ player \in [step : Steps, by : {"start", "hand"},
                     name : [kind : Kinds \cup {"nothing"}, at : Nat, nth : Nat], before : Nat]
      /\ HistoryOK /\ (staged = Nothing \/ staged \in Staged)
  BY DEF Shape, PlayerOK, StagedOK
<1>2. /\ history.stages \in 0..MaxStages /\ history.stages \in Nat
      /\ history.putBack \in [0..MaxStages -> Nat]
  BY <1>1, Counters DEF HistoryOK
<1>3. ASSUME history'.putBack = history.putBack, history'.stages = history.stages,
             staged' = staged, player' = player
      PROVE  Once'
  BY <1>3 DEF Once
<1>4. ASSUME history'.putBack = history.putBack, history'.stages = history.stages,
             staged' = staged \/ staged' = Nothing, player'.step \in {"down", "restored", "up"}
      PROVE  Once'
  BY <1>4 DEF Once, Pending
<1>5. ASSUME history'.putBack = history.putBack, history'.stages = history.stages,
             staged' = staged, player.step \in Pending, player'.step \in Pending,
             player'.name = player.name
      PROVE  Once'
  BY <1>5 DEF Once, Pending
<1>6. ASSUME NEW n \in Nat, n > history.stages, history.stages < MaxStages, n = history.stages + 1
      PROVE  n \in 1..n /\ n \in 0..MaxStages /\ history.putBack[n] = 0
             /\ \A m \in 0..MaxStages : m > n => m > history.stages
  BY <1>2, <1>6, Bounds DEF Once
<1>7. CASE ThreadBegins \/ ExportBegins
  <2>1. history'.putBack = history.putBack /\ history'.stages = history.stages
    BY <1>1, <1>7 DEF ThreadBegins, ExportBegins, Clashing, HistoryOK
  <2>2. QED
    BY <1>7, <1>3, <2>1 DEF ThreadBegins, ExportBegins
<1>8. ASSUME NEW c \in Copiers, CopyTable(c) \/ CopyNameless(c) \/ Prune(c) PROVE Once'
  BY <1>3, <1>8 DEF CopyTable, CopyNameless, Prune
<1>P. ASSUME NEW c \in Copiers, PassOver(c) PROVE Once'
  <2>1. history'.putBack = history.putBack /\ history'.stages = history.stages
    BY <1>1, <1>P DEF PassOver, HistoryOK
  <2>2. QED
    BY <1>3, <1>P, <2>1 DEF PassOver
<1>9. ASSUME NEW c \in Copiers, CopyNamed(c) PROVE Once'
  <2>1. history'.putBack = history.putBack /\ history'.stages = history.stages
    BY <1>1, <1>9 DEF CopyNamed, HistoryOK
  <2>2. staged' = staged
    BY <1>9 DEF CopyNamed
  <2>3. CASE c = "safety"
    <3>1. copies["safety"].step = "copying"
      BY <1>9, <2>3 DEF CopyNamed, Through
    <3>2. player.step = "saving"
      BY <3>1 DEF Waits
    <3>3. player' = [player EXCEPT !.step = "saved", !.before = copies["safety"].at]
      BY <1>9, <2>3 DEF CopyNamed, AfterSafety
    <3>4. QED
      BY <1>1, <1>5, <2>1, <2>2, <3>2, <3>3 DEF Pending
  <2>4. CASE c # "safety"
    BY <1>3, <1>9, <2>1, <2>2, <2>4 DEF CopyNamed, AfterSafety
  <2>5. QED
    BY <2>3, <2>4
<1>10. ASSUME NEW c \in Copiers, CopyFails(c) \/ CopyEmpty(c) PROVE Once'
  <2>1. history'.putBack = history.putBack /\ history'.stages = history.stages
    BY <1>1, <1>10 DEF CopyFails, CopyEmpty, HistoryOK
  <2>2. GivesUp(c) /\ staged' = staged
    BY <1>10 DEF CopyFails, CopyEmpty
  <2>3. CASE c = "safety"
    <3>1. player'.step \in {"down", "up"}
      BY <1>1, <2>2, <2>3 DEF GivesUp, AfterSafety, Afterwards
    <3>2. QED
      BY <1>4, <2>1, <2>2, <3>1
  <2>4. CASE c # "safety"
    BY <1>3, <2>1, <2>2, <2>4 DEF GivesUp, AfterSafety
  <2>5. QED
    BY <2>3, <2>4
<1>11. ASSUME NEW f \in Held, Stage(f) PROVE Once'
  <2> DEFINE n == history.stages + 1
  <2>1. history.stages < MaxStages /\ player' = player /\ player.step = "up"
    BY <1>11 DEF Stage, May
  <2>2. n \in Nat /\ n > history.stages
    BY <1>2
  <2>3. history'.putBack = history.putBack /\ history'.stages = n /\ staged'.nth = n
    BY <1>1, <1>11 DEF Stage, HistoryOK
  <2> HIDE DEF n
  <2>4. n = history.stages + 1
    BY DEF n
  <2>5. /\ n \in 1..n /\ history.putBack[n] = 0
        /\ \A m \in 0..MaxStages : m > n => m > history.stages
    BY <1>6, <2>1, <2>2, <2>4
  <2>6. QED
    BY <2>1, <2>3, <2>5 DEF Once, Pending
<1>12. ASSUME NEW f \in Held, ByHand(f) PROVE Once'
  <2> DEFINE n == history.stages + 1
  <2>1. history.stages < MaxStages /\ player'.step = "saving" /\ player'.name.nth = n
    BY <1>12 DEF ByHand, May
  <2>2. n \in Nat /\ n > history.stages
    BY <1>2
  <2>3. history'.putBack = history.putBack /\ history'.stages = n /\ staged' = staged
    BY <1>1, <1>12 DEF ByHand, HistoryOK
  <2> HIDE DEF n
  <2>4. n = history.stages + 1
    BY DEF n
  <2>5. /\ n \in 1..n /\ history.putBack[n] = 0
        /\ \A m \in 0..MaxStages : m > n => m > history.stages
    BY <1>6, <2>1, <2>2, <2>4
  <2>6. \A m \in 1..history.stages : m \in 1..n /\ m # n
    BY <1>2, <2>2, <2>4
  <2>7. QED
    BY <2>1, <2>3, <2>5, <2>6 DEF Once, Pending
<1>13. CASE Unstage
  BY <1>13, <1>3 DEF Unstage, Once, Pending
<1>14. CASE Start
  <2>1. player'.step \in {"up", "read"} /\ player'.name = staged
        /\ (player'.step = "read" => staged # Nothing)
    BY <1>14 DEF Start
  <2>2. QED
    BY <1>14, <2>1 DEF Start, Once, Pending
<1>15. CASE TakeDown
  <2>1. player.step = "read" /\ player'.step = "taken" /\ player'.name = player.name
    BY <1>1, <1>15 DEF TakeDown
  <2>2. staged' = Nothing /\ history' = history
    BY <1>15 DEF TakeDown
  <2>3. QED
    BY <2>1, <2>2 DEF Once, Pending
<1>16. CASE CannotTakeDown
  <2>1. history'.putBack = history.putBack /\ history'.stages = history.stages
    BY <1>1, <1>16 DEF CannotTakeDown, HistoryOK
  <2>2. player'.step = "up" /\ staged' = staged
    BY <1>1, <1>16 DEF CannotTakeDown
  <2>3. QED
    BY <1>4, <2>1, <2>2
<1>17. CASE SaveFirst
  BY <1>1, <1>17, <1>5 DEF SaveFirst, Pending
<1>18. CASE NoLongerThere \/ Say
  BY <1>1, <1>18, <1>4 DEF NoLongerThere, Say
<1>19. CASE Restore
  <2> DEFINE n == player.name.nth
  <2>1. player.step = "saved" /\ player'.step \in {"down", "restored"} /\ staged' = staged
    BY <1>1, <1>19 DEF Restore
  <2>2. n \in 1..history.stages /\ history.putBack[n] = 0 /\ (staged # Nothing => staged.nth # n)
    BY <2>1 DEF Once, Pending
  <2>3. n \in 0..MaxStages /\ ~(n > history.stages)
    BY <1>2, <2>2, Bounds
  <2>4. history'.putBack = [history.putBack EXCEPT ![n] = @ + 1] /\ history'.stages = history.stages
    BY <1>1, <1>19 DEF Restore, HistoryOK
  <2> HIDE DEF n
  <2>5. \A m \in 0..MaxStages : history'.putBack[m] = IF m = n THEN 1 ELSE history.putBack[m]
    <3>1. history.putBack[n] + 1 = 1
      BY <2>2
    <3>2. history'.putBack = [history.putBack EXCEPT ![n] = 1]
      BY <2>4, <3>1
    <3>3. QED
      BY <1>2, <2>3, <3>2
  <2>6. staged # Nothing => staged.nth \in 0..MaxStages
    BY <1>2, Bounds DEF Once
  <2>7. QED
    BY <2>1, <2>2, <2>3, <2>4, <2>5, <2>6 DEF Once, Pending
<1>20. CASE RestoreFails
  <2>1. history'.putBack = history.putBack /\ history'.stages = history.stages
    BY <1>1, <1>20 DEF RestoreFails, HistoryOK
  <2>2. player'.step \in {"down", "up"} /\ staged' = staged
    BY <1>1, <1>20 DEF RestoreFails, Afterwards
  <2>3. QED
    BY <1>4, <2>1, <2>2
<1>21. CASE Tick
  BY <1>3, <1>21 DEF Tick
<1>22. CASE Stop
  <2>1. history'.putBack = history.putBack /\ history'.stages = history.stages
    BY <1>1, <1>22 DEF Stop, HistoryOK
  <2>2. player'.step = "down" /\ staged' = staged
    BY <1>1, <1>22 DEF Stop
  <2>3. QED
    BY <1>4, <2>1, <2>2
<1>23. ASSUME NEW t \in 1..Tables, Listen(t) PROVE Once'
  <2>1. history'.putBack = history.putBack /\ history'.stages = history.stages
    BY <1>1, <1>23 DEF Listen, HistoryOK
  <2>2. QED
    BY <1>3, <1>23, <2>1 DEF Listen
<1>24. CASE UNCHANGED vars
  BY <1>3, <1>24 DEF vars
<1>25. QED
  BY <1>7, <1>8, <1>P, <1>9, <1>10, <1>11, <1>12, <1>13, <1>14, <1>15, <1>16, <1>17, <1>18,
     <1>19, <1>20, <1>21, <1>22, <1>23, <1>24 DEF Next

(* Wherever the process stops, a snapshot that was staged is put back at   *)
(* most once, and so never over what was heard since (apply_staged).       *)
THEOREM PutBackAtMostOnce == Spec => []PutBackOnce
<1>1. Init => Shape /\ Waits /\ Once
  BY InitShape, InitWaits, InitOnce
<1>2. Shape /\ Waits /\ Once /\ [Next]_vars => (Shape /\ Waits /\ Once)'
  BY StepShape, StepWaits, StepOnce
<1>3. Once => PutBackOnce
  BY Bounds DEF Once, PutBackOnce
<1>4. QED
  BY <1>1, <1>2, <1>3, PTL DEF Spec

-----------------------------------------------------------------------------
(* What a copier has of a table, or why it has none.                       *)

AskedBy(c) ==
    /\ copies[c].step = "idle" => copies[c].holds = <<>>
    /\ copies[c].step = "copying" =>
          \A i \in 1..Len(copies[c].holds) :
              copies[c].holds[i] # LeftOut \/ <<Name(copies[c]), i>> \in history.unread
Asked == \A c \in Copiers : AskedBy(c)

LEMMA InitAsked == Init => Asked
BY DEF Init, Asked, AskedBy

(* No question that failed is forgotten.                                   *)
LEMMA UnreadGrows ==
    ASSUME Shape, [Next]_vars
    PROVE  history.unread \subseteq history'.unread
<1>1. HistoryOK
  BY DEF Shape
<1>2. CASE UNCHANGED history
  BY <1>2
<1>3. CASE ThreadBegins \/ ExportBegins
  BY <1>1, <1>3 DEF ThreadBegins, ExportBegins, Clashing, HistoryOK
<1>4. ASSUME NEW c \in Copiers, PassOver(c) PROVE history.unread \subseteq history'.unread
  BY <1>1, <1>4 DEF PassOver, HistoryOK
<1>5. ASSUME NEW c \in Copiers, CopyNamed(c) PROVE history.unread \subseteq history'.unread
  BY <1>1, <1>5 DEF CopyNamed, HistoryOK
<1>6. ASSUME NEW c \in Copiers, CopyFails(c) PROVE history.unread \subseteq history'.unread
  BY <1>1, <1>6 DEF CopyFails, HistoryOK
<1>7. ASSUME NEW f \in Held, Stage(f) \/ ByHand(f) PROVE history.unread \subseteq history'.unread
  BY <1>1, <1>7 DEF Stage, ByHand, HistoryOK
<1>8. CASE CannotTakeDown \/ RestoreFails \/ Stop
  BY <1>1, <1>8 DEF CannotTakeDown, RestoreFails, Stop, HistoryOK
<1>9. CASE Restore
  BY <1>1, <1>9 DEF Restore, HistoryOK
<1>10. ASSUME NEW t \in 1..Tables, Listen(t) PROVE history.unread \subseteq history'.unread
  BY <1>1, <1>10 DEF Listen, HistoryOK
<1>11. QED
  BY <1>2, <1>3, <1>4, <1>5, <1>6, <1>7, <1>8, <1>9, <1>10 DEF Next, vars, CopyTable, CopyNameless,
     CopyEmpty, Prune, Unstage, Start, TakeDown, SaveFirst, NoLongerThere, Say, Tick

LEMMA WholeStays ==
    ASSUME NEW f, Whole(f), history.unread \subseteq history'.unread
    PROVE  Whole(f)'
BY DEF Whole, Holds

(* A copier through with its tables leaves a whole snapshot.               *)
LEMMA ThroughIsWhole ==
    ASSUME Asked, NEW c \in Copiers, Through(c)
    PROVE  Whole(FileOf(copies[c]))
BY DEF Asked, AskedBy, Through, Whole, Holds, FileOf, Name

LEMMA StepAsked == Shape /\ Asked /\ [Next]_vars => Asked'
<1> SUFFICES ASSUME Shape, Asked, [Next]_vars, NEW d \in Copiers PROVE AskedBy(d)'
  BY DEF Asked
<1>1. /\ copies \in [Copiers -> Copies] /\ copies[d] \in Copies /\ CopiesOK
      /\ history.unread \subseteq history'.unread
  BY UnreadGrows DEF Shape, CopiesOK
<1>2. ASSUME copies'[d].step = copies[d].step, copies'[d].holds = copies[d].holds,
             copies[d].step = "copying" => Name(copies'[d]) = Name(copies[d])
      PROVE  AskedBy(d)'
  BY <1>1, <1>2 DEF Asked, AskedBy
<1>3. ASSUME copies'[d] = Idle(d) PROVE AskedBy(d)'
  BY <1>1, <1>3 DEF Idle, Copies, AskedBy
<1>4. ASSUME copies' = copies PROVE AskedBy(d)'
  BY <1>2, <1>4
<1>5. ASSUME NEW c \in Copiers, copies' = Begun(c), MayBegin(c) PROVE AskedBy(d)'
  <2>1. CASE d = c
    <3>1. copies[d].holds = <<>>
      BY <1>5, <2>1 DEF MayBegin, Asked, AskedBy
    <3>2. copies'[d].step = "copying" /\ copies'[d].holds = <<>>
      BY <1>1, <1>5, <2>1, <3>1 DEF Begun, Copies
    <3>3. Len(copies'[d].holds) = 0
      BY <3>2
    <3>4. QED
      BY <3>2, <3>3 DEF AskedBy
  <2>2. CASE d # c
    <3>1. copies'[d] = IF d \in Before(c) THEN [copies[d] EXCEPT !.place = "gone"] ELSE copies[d]
      BY <1>5, <2>2 DEF Begun
    <3>2. copies'[d].step = copies[d].step /\ copies'[d].holds = copies[d].holds
          /\ Name(copies'[d]) = Name(copies[d])
      BY <1>1, <3>1 DEF Copies, Name
    <3>3. QED
      BY <1>2, <3>2
  <2>3. QED
    BY <2>1, <2>2
<1>6. ASSUME NEW c \in Copiers, copies' = [copies EXCEPT ![c] = Idle(c)] PROVE AskedBy(d)'
  BY <1>1, <1>2, <1>3, <1>6
<1>7. ASSUME NEW c \in Copiers, CopyTable(c) \/ PassOver(c) PROVE AskedBy(d)'
  <2>1. CASE d # c
    BY <1>1, <1>2, <1>7, <2>1 DEF CopyTable, PassOver
  <2>2. CASE d = c
    <3> DEFINE h == copies[d].holds
    <3>1. h \in Seq(Holdings) /\ Len(h) \in Nat
      BY <1>1, LenProperties DEF Copies, Contents
    <3>2. PICK x \in Holdings :
             /\ x # LeftOut \/ <<Name(copies[d]), Len(h) + 1>> \in history'.unread
             /\ copies' = [copies EXCEPT ![d].holds = Append(@, x)]
      <4>1. CASE CopyTable(c)
        <5>1. Len(h) + 1 \in 1..Tables
          BY <2>2, <3>1, <4>1, Bounds DEF CopyTable
        <5>2. listener[Len(h) + 1] \in Values
          BY <5>1 DEF Shape, ListenerOK
        <5>3. listener[Len(h) + 1] # LeftOut
          BY <5>2, LeftOutAssumption, Bounds DEF Values
        <5>4. QED
          BY <2>2, <4>1, <5>2, <5>3 DEF CopyTable, Holdings
      <4>2. CASE PassOver(c)
        <5>1. <<Name(copies[d]), Len(h) + 1>> \in history'.unread
          BY <2>2, <4>2 DEF PassOver, Shape, HistoryOK
        <5>2. QED
          BY <2>2, <4>2, <5>1 DEF PassOver, Holdings
      <4>3. QED
        BY <1>7, <4>1, <4>2
    <3>3. /\ copies'[d].holds = Append(h, x) /\ copies'[d].step = copies[d].step
          /\ Name(copies'[d]) = Name(copies[d]) /\ copies[d].step = "copying"
      BY <1>1, <1>7, <2>2, <3>2 DEF Copies, Name, CopyTable, PassOver
    <3>4. \A i \in 1..Len(h) : h[i] # LeftOut \/ <<Name(copies[d]), i>> \in history'.unread
      BY <1>1, <3>3 DEF Asked, AskedBy
    <3> HIDE DEF h
    <3>5. /\ Len(Append(h, x)) = Len(h) + 1
          /\ \A i \in 1..Len(h) : Append(h, x)[i] = h[i]
          /\ Append(h, x)[Len(h) + 1] = x
      BY <3>1, AppendProperties
    <3>6. \A i \in 1..(Len(h) + 1) : i \in 1..Len(h) \/ i = Len(h) + 1
      BY <3>1
    <3>7. QED
      BY <3>2, <3>3, <3>4, <3>5, <3>6 DEF AskedBy
  <2>3. QED
    BY <2>1, <2>2
<1>8. ASSUME NEW c \in Copiers, CopyNamed(c) PROVE AskedBy(d)'
  <2>1. PICK e \in UnderItsName(c) :
           copies' = [(IF e = c THEN copies ELSE [copies EXCEPT ![e].place = "dir"])
                          EXCEPT ![c] = IF c = "safety" THEN Idle(c) ELSE [@ EXCEPT !.step = "named"]]
    BY <1>8 DEF CopyNamed
  <2>2. CASE d # c
    <3>1. /\ copies'[d].step = copies[d].step /\ copies'[d].holds = copies[d].holds
          /\ Name(copies'[d]) = Name(copies[d])
      BY <1>1, <2>1, <2>2 DEF Copies, Name
    <3>2. QED
      BY <1>2, <3>1
  <2>3. CASE d = c /\ c = "safety"
    BY <1>1, <1>3, <2>1, <2>3
  <2>4. CASE d = c /\ c # "safety"
    <3>1. copies'[d].step = "named"
      BY <1>1, <2>1, <2>4 DEF Copies
    <3>2. QED
      BY <3>1 DEF AskedBy
  <2>5. QED
    BY <2>2, <2>3, <2>4
<1>9. ASSUME NEW c \in Copiers, CopyEmpty(c) PROVE AskedBy(d)'
  <2>1. copies'[d] = IF d = c THEN Idle(c)
                     ELSE IF d \in UnderItsName(c) THEN [copies[d] EXCEPT !.place = "gone"]
                     ELSE copies[d]
    BY <1>9 DEF CopyEmpty
  <2>2. CASE d = c
    BY <1>3, <2>1, <2>2
  <2>3. CASE d # c
    <3>1. /\ copies'[d].step = copies[d].step /\ copies'[d].holds = copies[d].holds
          /\ Name(copies'[d]) = Name(copies[d])
      BY <1>1, <2>1, <2>3 DEF Copies, Name
    <3>2. QED
      BY <1>2, <3>1
  <2>4. QED
    BY <2>2, <2>3
<1>10. CASE Tick
  <2>1. copies'[d] = IF copies[d].step = "idle" THEN [copies[d] EXCEPT !.at = 0] ELSE copies[d]
    BY <1>10 DEF Tick
  <2>2. /\ copies'[d].step = copies[d].step /\ copies'[d].holds = copies[d].holds
        /\ copies[d].step = "copying" => Name(copies'[d]) = Name(copies[d])
    BY <1>1, <2>1 DEF Copies, Name
  <2>3. QED
    BY <1>2, <2>2
<1>11. CASE Stop
  BY <1>1, <1>3, <1>11 DEF Stop
<1>12. CASE ThreadBegins \/ ExportBegins \/ SaveFirst
  BY <1>5, <1>12 DEF ThreadBegins, ExportBegins, SaveFirst, Copiers
<1>13. ASSUME NEW f \in Held, Stage(f) \/ ByHand(f) PROVE AskedBy(d)'
  BY <1>4, <1>5, <1>13 DEF Stage, ByHand, Copiers
<1>14. ASSUME NEW c \in Copiers, CopyNameless(c) \/ Prune(c) \/ CopyFails(c) PROVE AskedBy(d)'
  BY <1>6, <1>14 DEF CopyNameless, Prune, CopyFails
<1>15. ASSUME NEW t \in 1..Tables, Listen(t) PROVE AskedBy(d)'
  BY <1>4, <1>15 DEF Listen
<1>16. CASE \/ Unstage \/ Start \/ TakeDown \/ CannotTakeDown \/ NoLongerThere
            \/ Restore \/ RestoreFails \/ Say \/ UNCHANGED vars
  BY <1>4, <1>16 DEF Unstage, Start, TakeDown, CannotTakeDown, NoLongerThere, Restore, RestoreFails,
     Say, vars
<1>17. QED
  BY <1>7, <1>8, <1>9, <1>10, <1>11, <1>12, <1>13, <1>14, <1>15, <1>16 DEF Next

-----------------------------------------------------------------------------
(* What a restore writes over is kept.                                     *)

Safe(f) == f.kind = "prerestore"

\* The name the next such copy takes is a new one.
Fresh ==
    \A f \in files : Safe(f) =>
        IF copies["safety"].step = "copying" THEN f.at < copies["safety"].at
        ELSE f.at < clock \/ copies["safety"].at = clock

\* What stands is in the copy, as far as that has come, or was passed over.
Verbatim ==
    copies["safety"].step = "copying" =>
        \A i \in 1..Len(copies["safety"].holds) :
            copies["safety"].holds[i] \in {listener[i], LeftOut}

Saves(f, at, was) ==
    /\ Safe(f) /\ f.at = at /\ Whole(f)
    /\ \A t \in 1..Tables : f.holds[t] \in {was[t], LeftOut}

Preserved ==
    /\ player.step = "saved" => \E f \in files : Saves(f, player.before, listener)
    /\ \A o \in history.overwritten : \E f \in files : Saves(f, o.before, o.was)

(* Nothing removes a copy made before a restore.                           *)
LEMMA SafeStays ==
    ASSUME Shape, Waits, Fresh, [Next]_vars
    PROVE  \A f \in files : Safe(f) => f \in files'
<1> SUFFICES ASSUME NEW f \in files, Safe(f) PROVE f \in files'
  OBVIOUS
<1>1. ASSUME NEW c \in Copiers, CopyNamed(c) PROVE f \in files'
  <2>1. Name(f) # Name(copies[c])
    <3>1. CASE c = "safety"
      <4>1. copies["safety"].step = "copying"
        BY <1>1, <3>1 DEF CopyNamed, Through
      <4>2. f.at < copies["safety"].at
        BY <4>1 DEF Fresh
      <4>3. f.at \in Int /\ copies["safety"].at \in Int
        <5>1. clock \in 1..MaxClock
          BY DEF Shape
        <5>2. f \in Snapshots /\ copies["safety"] \in Copies
          BY DEF Shape, FilesOK, CopiesOK, Copiers
        <5>3. QED
          BY <5>1, <5>2, Bounds DEF Snapshots, Copies
      <4>4. QED
        BY <3>1, <4>2, <4>3 DEF Name
    <3>2. CASE c # "safety"
      <4>1. copies[c].kind = "listener"
        BY <3>2 DEF Shape, CopiesOK, KindOf
      <4>2. QED
        BY <4>1 DEF Safe, Name
    <3>3. QED
      BY <3>1, <3>2
  <2>2. QED
    BY <1>1, <2>1 DEF CopyNamed
<1>2. ASSUME NEW c \in Copiers, CopyNameless(c) \/ CopyFails(c) \/ CopyEmpty(c) PROVE f \in files'
  BY <1>2 DEF CopyNameless, CopyFails, CopyEmpty, GivesUp, LeftBy
<1>3. ASSUME NEW c \in Copiers, Prune(c) PROVE f \in files'
  BY <1>3 DEF Prune, Pruned, InRotation, Safe
<1>4. CASE Stop
  BY <1>4 DEF Stop, Held
<1>5. ASSUME files' = files PROVE f \in files'
  BY <1>5
<1>6. QED
  BY <1>1, <1>2, <1>3, <1>4, <1>5 DEF Next, vars, ThreadBegins, ExportBegins, CopyTable, PassOver,
     Stage, ByHand, Unstage, Start, TakeDown, CannotTakeDown, SaveFirst, NoLongerThere, Restore,
     RestoreFails, Say, Tick, Listen

(* A copier that begins, for the copy made before a restore.               *)
LEMMA BegunKept ==
    ASSUME Shape, Waits, Asked, Fresh, Verbatim, NEW c \in Copiers, MayBegin(c),
           copies' = Begun(c), clock' = clock, files' = files, listener' = listener
    PROVE  Fresh' /\ Verbatim'
<1>1. copies \in [Copiers -> Copies] /\ "safety" \in Copiers
  BY DEF Shape, CopiesOK, Copiers
<1>2. CASE c = "safety"
  <2>1. /\ copies'["safety"].step = "copying" /\ copies'["safety"].at = clock
        /\ copies'["safety"].holds = copies["safety"].holds
    BY <1>1, <1>2 DEF Begun, Copies
  <2>2. copies["safety"].step = "idle" /\ copies["safety"].at < clock
    BY <1>2 DEF MayBegin
  <2>3. ~(copies["safety"].at = clock)
    <3>1. clock \in 1..MaxClock /\ copies["safety"].at \in 0..clock
      BY <1>1 DEF Shape, Copies
    <3>2. QED
      BY <2>2, <3>1, Bounds
  <2>4. Fresh'
    BY <2>1, <2>2, <2>3 DEF Fresh, Safe
  <2>5. Verbatim'
    <3>1. copies["safety"].holds = <<>>
      BY <1>1, <2>2 DEF Asked, AskedBy
    <3>2. Len(copies'["safety"].holds) = 0
      BY <2>1, <3>1
    <3>3. QED
      BY <2>1, <3>2 DEF Verbatim
  <2>6. QED
    BY <2>4, <2>5
<1>3. CASE c # "safety"
  <2>1. copies'["safety"] = copies["safety"]
    BY <1>1, <1>3, SafetyAlone DEF Begun
  <2>2. QED
    BY <2>1 DEF Fresh, Verbatim, Safe
<1>4. QED
  BY <1>2, <1>3

LEMMA InitKept == Init => Fresh /\ Verbatim /\ Preserved
BY DEF Init, Fresh, Verbatim, Preserved, Copiers

LEMMA SavesStays ==
    ASSUME NEW f, NEW at, NEW was, Saves(f, at, was), history.unread \subseteq history'.unread
    PROVE  /\ Safe(f) /\ f.at = at /\ Whole(f)'
           /\ \A t \in 1..Tables : f.holds[t] \in {was[t], LeftOut}
BY WholeStays DEF Saves

LEMMA StepKept ==
    Shape /\ Waits /\ Asked /\ Fresh /\ Verbatim /\ Preserved /\ [Next]_vars
        => (Fresh /\ Verbatim /\ Preserved)'
<1> SUFFICES ASSUME Shape, Waits, Asked, Fresh, Verbatim, Preserved, [Next]_vars
             PROVE  Fresh' /\ Verbatim' /\ Preserved'
  OBVIOUS
<1>1. /\ copies \in [Copiers -> Copies] /\ "safety" \in Copiers
      /\ copies["safety"] \in Copies
      /\ \A c \in Copiers : copies[c].kind = KindOf(c)
  BY DEF Shape, CopiesOK, Copiers
<1>2. clock \in Nat /\ copies["safety"].at \in 0..clock
  <2>1. clock \in 1..MaxClock
    BY DEF Shape
  <2>2. QED
    BY <1>1, <2>1, Bounds DEF Copies
<1>3. \A f \in files : f.at \in Nat /\ f.at <= clock
  <2>1. \A n \in 1..clock : n \in Nat /\ n <= clock
    BY <1>2
  <2>2. QED
    BY <2>1 DEF Shape, FilesOK, Snapshots
<1>4. player \in [step : Steps, by : {"start", "hand"},
                  name : [kind : Kinds \cup {"nothing"}, at : Nat, nth : Nat], before : Nat]
      /\ HistoryOK
  BY DEF Shape, PlayerOK
<1>K. \A o \in history.overwritten : \E f \in files' : Saves(f, o.before, o.was)'
  <2> TAKE o \in history.overwritten
  <2>1. PICK f \in files : Saves(f, o.before, o.was)
    BY DEF Preserved
  <2>2. f \in files'
    BY <2>1, SafeStays DEF Saves
  <2>3. Saves(f, o.before, o.was)'
    BY <2>1, SavesStays, UnreadGrows DEF Saves, Safe
  <2>4. QED
    BY <2>2, <2>3
<1>5. ASSUME listener' = listener, history'.overwritten = history.overwritten,
             player'.step = "saved" => player.step = "saved" /\ player'.before = player.before
      PROVE  Preserved'
  <2>1. ASSUME player'.step = "saved"
        PROVE  \E f \in files' : Saves(f, player.before, listener)'
    <3>1. PICK f \in files : Saves(f, player.before, listener)
      BY <1>5, <2>1 DEF Preserved
    <3>2. f \in files'
      BY <3>1, SafeStays DEF Saves
    <3>3. Saves(f, player.before, listener)'
      BY <1>5, <2>1, <3>1, SavesStays, UnreadGrows DEF Saves, Safe
    <3>4. QED
      BY <3>2, <3>3
  <2>2. QED
    BY <1>5, <1>K, <2>1 DEF Preserved
<1>6. ASSUME clock' = clock, listener' = listener, copies'["safety"] = copies["safety"],
             \A f \in files' : Safe(f) => f \in files
      PROVE  Fresh' /\ Verbatim'
  BY <1>6 DEF Fresh, Verbatim
<1>7. ASSUME clock' = clock, copies'["safety"] = Idle("safety"),
             \A f \in files' : Safe(f) => f \in files
      PROVE  Fresh' /\ Verbatim'
  <2>1. copies'["safety"].step = "idle" /\ copies'["safety"].at = copies["safety"].at
    BY <1>1, <1>7 DEF Idle, Copies
  <2>2. ASSUME NEW f \in files, Safe(f) PROVE f.at < clock \/ copies["safety"].at = clock
    <3>1. CASE copies["safety"].step = "copying"
      BY <1>2, <1>3, <2>2, <3>1 DEF Fresh
    <3>2. CASE copies["safety"].step # "copying"
      BY <2>2, <3>2 DEF Fresh
    <3>3. QED
      BY <3>1, <3>2
  <2>3. QED
    BY <1>7, <2>1, <2>2 DEF Fresh, Verbatim
<1>8. CASE ThreadBegins \/ ExportBegins
  <2>1. history'.overwritten = history.overwritten
    BY <1>4, <1>8 DEF ThreadBegins, ExportBegins, Clashing, HistoryOK
  <2>2. Fresh' /\ Verbatim'
    BY <1>8, BegunKept DEF ThreadBegins, ExportBegins, Copiers
  <2>3. QED
    BY <1>5, <1>8, <2>1, <2>2 DEF ThreadBegins, ExportBegins
<1>9. ASSUME NEW c \in Copiers, CopyTable(c) \/ PassOver(c) PROVE Fresh' /\ Verbatim' /\ Preserved'
  <2>0. history'.overwritten = history.overwritten
    BY <1>4, <1>9 DEF CopyTable, PassOver, HistoryOK
  <2>1. Preserved'
    BY <1>5, <1>9, <2>0 DEF CopyTable, PassOver
  <2>2. CASE c # "safety"
    BY <1>1, <1>6, <1>9, <2>1, <2>2 DEF CopyTable, PassOver
  <2>3. CASE c = "safety"
    <3> DEFINE h == copies["safety"].holds
    <3>1. h \in Seq(Holdings) /\ Len(h) \in Nat
      BY <1>1, LenProperties DEF Copies, Contents
    <3>2. PICK x \in Holdings \cap {listener[Len(h) + 1], LeftOut} :
             copies' = [copies EXCEPT !["safety"].holds = Append(@, x)]
      <4>1. CASE CopyTable(c)
        <5>1. Len(h) + 1 \in 1..Tables
          BY <2>3, <3>1, <4>1, Bounds DEF CopyTable
        <5>2. listener[Len(h) + 1] \in Holdings
          BY <5>1 DEF Shape, ListenerOK, Holdings
        <5>3. QED
          BY <2>3, <4>1, <5>2 DEF CopyTable
      <4>2. CASE PassOver(c)
        BY <2>3, <4>2 DEF PassOver, Holdings
      <4>3. QED
        BY <1>9, <4>1, <4>2
    <3>3. /\ copies["safety"].step = "copying" /\ copies'["safety"].step = "copying"
          /\ copies'["safety"].at = copies["safety"].at
          /\ copies'["safety"].holds = Append(h, x)
      BY <1>1, <1>9, <2>3, <3>2 DEF CopyTable, PassOver, Copies
    <3>5. \A i \in 1..Len(h) : h[i] \in {listener[i], LeftOut}
      BY <3>3 DEF Verbatim
    <3>8. listener' = listener /\ files' = files
      BY <1>9 DEF CopyTable, PassOver
    <3> HIDE DEF h
    <3>6. /\ Len(Append(h, x)) = Len(h) + 1
          /\ \A i \in 1..Len(h) : Append(h, x)[i] = h[i]
          /\ Append(h, x)[Len(h) + 1] = x
      BY <3>1, AppendProperties
    <3>7. \A i \in 1..(Len(h) + 1) : Append(h, x)[i] \in {listener[i], LeftOut}
      <4>1. \A i \in 1..(Len(h) + 1) : i \in 1..Len(h) \/ i = Len(h) + 1
        BY <3>1
      <4>2. QED
        BY <3>2, <3>5, <3>6, <4>1
    <3>9. Verbatim'
      BY <3>3, <3>6, <3>7, <3>8 DEF Verbatim
    <3>10. Fresh'
      BY <3>3, <3>8 DEF Fresh
    <3>11. QED
      BY <2>1, <3>9, <3>10
  <2>4. QED
    BY <2>2, <2>3
<1>10. ASSUME NEW c \in Copiers, CopyNamed(c) PROVE Fresh' /\ Verbatim' /\ Preserved'
  <2>1. PICK d \in UnderItsName(c) :
           /\ files' = {f \in files : Name(f) # Name(copies[c])}
                       \cup (IF d = c THEN {FileOf(copies[c])} ELSE {})
           /\ copies' = [(IF d = c THEN copies ELSE [copies EXCEPT ![d].place = "dir"])
                          EXCEPT ![c] = IF c = "safety" THEN Idle(c) ELSE [@ EXCEPT !.step = "named"]]
    BY <1>10 DEF CopyNamed
  <2>2. listener' = listener /\ clock' = clock /\ history'.overwritten = history.overwritten
    BY <1>4, <1>10 DEF CopyNamed, HistoryOK
  <2>3. CASE c = "safety"
    <3>1. d = c
      BY <2>3, SafetyAlone
    <3>2. copies'["safety"] = Idle("safety")
      BY <1>1, <2>1, <2>3, <3>1
    <3>3. copies'["safety"].step = "idle" /\ copies'["safety"].at = copies["safety"].at
      BY <1>1, <3>2 DEF Idle, Copies
    <3>4. /\ copies["safety"].step = "copying" /\ Len(copies["safety"].holds) = Tables
          /\ Through("safety")
      BY <1>10, <2>3 DEF CopyNamed, Through
    <3>5. player'.before = copies["safety"].at
      BY <1>4, <1>10, <2>3 DEF CopyNamed, AfterSafety
    <3>6. PICK g \in files' : Saves(g, copies["safety"].at, listener)
      <4> DEFINE g == FileOf(copies["safety"])
      <4>1. g \in files' /\ Safe(g) /\ g.at = copies["safety"].at /\ g.holds = copies["safety"].holds
        BY <1>1, <2>1, <2>3, <3>1 DEF FileOf, Safe, KindOf
      <4>2. Whole(g)
        BY <1>1, <3>4, ThroughIsWhole
      <4>3. \A t \in 1..Tables : copies["safety"].holds[t] \in {listener[t], LeftOut}
        BY <3>4 DEF Verbatim
      <4> HIDE DEF g
      <4>4. QED
        BY <4>1, <4>2, <4>3 DEF Saves
    <3>7. Preserved'
      <4>1. Saves(g, player.before, listener)'
        BY <2>2, <3>5, <3>6, SavesStays, UnreadGrows DEF Saves, Safe
      <4>2. QED
        BY <1>K, <2>2, <3>6, <4>1 DEF Preserved
    <3>8. Fresh'
      <4>1. ASSUME NEW f \in files', Safe(f) PROVE f.at < clock \/ copies["safety"].at = clock
        <5>1. CASE f \in files
          BY <1>2, <1>3, <3>4, <4>1, <5>1 DEF Fresh
        <5>2. CASE f \notin files
          <6>1. f.at = copies["safety"].at
            BY <2>1, <2>3, <5>2, <1>1 DEF FileOf
          <6>2. QED
            BY <1>2, <6>1
        <5>3. QED
          BY <5>1, <5>2
      <4>2. QED
        BY <2>2, <3>3, <4>1 DEF Fresh
    <3>9. Verbatim'
      BY <3>3 DEF Verbatim
    <3>10. QED
      BY <3>7, <3>8, <3>9
  <2>4. CASE c # "safety"
    <3>1. d # "safety"
      BY <2>4, SafetyAlone
    <3>2. copies'["safety"] = copies["safety"]
      BY <1>1, <2>1, <2>4, <3>1
    <3>3. \A f \in files' : Safe(f) => f \in files
      BY <1>1, <2>1, <2>4 DEF FileOf, Safe, KindOf
    <3>4. player' = player
      BY <1>10, <2>4 DEF CopyNamed, AfterSafety
    <3>5. QED
      BY <1>5, <1>6, <2>2, <3>2, <3>3, <3>4
  <2>5. QED
    BY <2>3, <2>4
<1>11. ASSUME NEW c \in Copiers, CopyNameless(c) PROVE Fresh' /\ Verbatim' /\ Preserved'
  <2>1. c # "safety"
    BY <1>11 DEF CopyNameless, Through, UnderItsName, Waits, Copiers
  <2>2. \A f \in files' : Safe(f) => f \in files
    BY <1>1, <1>11, <2>1 DEF CopyNameless, LeftBy, FileOf, Safe, KindOf
  <2>3. QED
    BY <1>1, <1>5, <1>6, <1>11, <2>1, <2>2 DEF CopyNameless
<1>12. ASSUME NEW c \in Copiers, Prune(c) PROVE Fresh' /\ Verbatim' /\ Preserved'
  <2>1. c # "safety"
    BY <1>12 DEF Prune, Waits
  <2>2. \A f \in files' : f \in files
    BY <1>12 DEF Prune, Pruned
  <2>3. QED
    BY <1>1, <1>5, <1>6, <1>12, <2>1, <2>2 DEF Prune
<1>13. ASSUME NEW c \in Copiers, CopyFails(c) \/ CopyEmpty(c) PROVE Fresh' /\ Verbatim' /\ Preserved'
  <2>1. /\ history'.overwritten = history.overwritten /\ GivesUp(c)
        /\ listener' = listener /\ clock' = clock
    BY <1>4, <1>13 DEF CopyFails, CopyEmpty, HistoryOK
  <2>2. player'.step = "saved" => player.step = "saved" /\ player'.before = player.before
    BY <1>4, <2>1 DEF GivesUp, AfterSafety, Afterwards
  <2>3. \A f \in files' : Safe(f) => f \in files
    <3>1. c \in Renamed => FileOf(copies[c]).kind = "listener"
      <4>1. c \in Renamed => c # "safety"
        BY DEF Renamed, Waits
      <4>2. QED
        BY <1>1, <4>1 DEF FileOf, KindOf
    <3>2. QED
      BY <2>1, <3>1 DEF GivesUp, LeftBy, Safe
  <2>4. CASE c = "safety"
    <3>1. copies'["safety"] = Idle("safety")
      BY <1>1, <1>13, <2>4 DEF CopyFails, CopyEmpty
    <3>2. QED
      BY <1>5, <1>7, <2>1, <2>2, <2>3, <3>1
  <2>5. CASE c # "safety"
    <3>1. copies'["safety"] = copies["safety"]
      BY <1>1, <1>13, <2>5, SafetyAlone DEF CopyFails, CopyEmpty
    <3>2. QED
      BY <1>5, <1>6, <2>1, <2>2, <2>3, <3>1
  <2>6. QED
    BY <2>4, <2>5
<1>14. ASSUME NEW f \in Held, Stage(f) PROVE Fresh' /\ Verbatim' /\ Preserved'
  <2>1. history'.overwritten = history.overwritten
    BY <1>4, <1>14 DEF Stage, HistoryOK
  <2>2. QED
    BY <1>5, <1>6, <1>14, <2>1 DEF Stage
<1>15. ASSUME NEW f \in Held, ByHand(f) PROVE Fresh' /\ Verbatim' /\ Preserved'
  <2>1. history'.overwritten = history.overwritten /\ player'.step = "saving"
    BY <1>4, <1>15 DEF ByHand, HistoryOK
  <2>2. Fresh' /\ Verbatim'
    BY <1>1, <1>15, BegunKept DEF ByHand
  <2>3. QED
    BY <1>5, <1>15, <2>1, <2>2 DEF ByHand
<1>16. CASE Unstage \/ Start \/ TakeDown \/ NoLongerThere \/ Say
  <2>1. player'.step = "saved" => player.step = "saved" /\ player'.before = player.before
    <3>1. CASE Start
      BY <3>1 DEF Start
    <3>2. CASE TakeDown
      BY <1>4, <3>2 DEF TakeDown
    <3>3. CASE NoLongerThere \/ Say
      BY <1>4, <3>3 DEF NoLongerThere, Say
    <3>4. CASE Unstage
      BY <3>4 DEF Unstage
    <3>5. QED
      BY <1>16, <3>1, <3>2, <3>3, <3>4
  <2>2. /\ clock' = clock /\ listener' = listener /\ copies' = copies /\ files' = files
        /\ history' = history
    BY <1>16 DEF Unstage, Start, TakeDown, NoLongerThere, Say
  <2>3. QED
    BY <1>5, <1>6, <2>1, <2>2
<1>17. CASE CannotTakeDown \/ RestoreFails
  <2>1. history'.overwritten = history.overwritten
    BY <1>4, <1>17 DEF CannotTakeDown, RestoreFails, HistoryOK
  <2>2. player'.step = "saved" => player.step = "saved" /\ player'.before = player.before
    BY <1>4, <1>17 DEF CannotTakeDown, RestoreFails, Afterwards
  <2>3. QED
    BY <1>5, <1>6, <1>17, <2>1, <2>2 DEF CannotTakeDown, RestoreFails
<1>18. CASE SaveFirst
  <2>1. player'.step = "saving"
    BY <1>4, <1>18 DEF SaveFirst
  <2>2. Fresh' /\ Verbatim'
    BY <1>1, <1>18, BegunKept DEF SaveFirst
  <2>3. QED
    BY <1>5, <1>18, <2>1, <2>2 DEF SaveFirst
<1>19. CASE Restore
  <2>1. /\ player.step = "saved" /\ player'.step \in {"down", "restored"}
        /\ copies' = copies /\ files' = files /\ clock' = clock
    BY <1>4, <1>19 DEF Restore
  <2>2. copies["safety"].step # "copying"
    BY <2>1 DEF Waits
  <2>3. history'.overwritten
          = history.overwritten \cup {[was |-> listener, before |-> player.before]}
    BY <1>4, <1>19 DEF Restore, HistoryOK
  <2>4. \E f \in files' : Saves(f, player.before, listener)
    BY <2>1 DEF Preserved
  <2>5. ASSUME NEW o \in history'.overwritten
        PROVE  \E f \in files' : Saves(f, o.before, o.was)'
    <3>1. CASE o \in history.overwritten
      BY <1>K, <3>1
    <3>2. CASE o = [was |-> listener, before |-> player.before]
      <4>1. PICK f \in files' : Saves(f, o.before, o.was)
        BY <2>4, <3>2
      <4>2. Saves(f, o.before, o.was)'
        BY <4>1, SavesStays, UnreadGrows DEF Saves, Safe
      <4>3. QED
        BY <4>2
    <3>3. QED
      BY <2>3, <2>5, <3>1, <3>2
  <2>6. Preserved'
    BY <2>1, <2>5 DEF Preserved
  <2>7. Fresh' /\ Verbatim'
    BY <2>1, <2>2 DEF Fresh, Verbatim
  <2>8. QED
    BY <2>6, <2>7
<1>20. CASE Tick
  <2>1. /\ clock' = clock + 1 /\ listener' = listener /\ files' = files
        /\ player' = player /\ history' = history
    BY <1>20 DEF Tick
  <2>2. CASE copies["safety"].step = "copying"
    <3>1. copies'["safety"] = copies["safety"]
      BY <1>1, <1>20, <2>2 DEF Tick
    <3>2. QED
      BY <1>5, <2>1, <2>2, <3>1 DEF Fresh, Verbatim
  <2>3. CASE copies["safety"].step # "copying"
    <3>1. copies'["safety"].step # "copying" /\ copies'["safety"].holds = copies["safety"].holds
      <4>1. copies'["safety"] = IF copies["safety"].step = "idle"
                                THEN [copies["safety"] EXCEPT !.at = 0] ELSE copies["safety"]
        BY <1>1, <1>20 DEF Tick
      <4>2. QED
        BY <1>1, <2>3, <4>1 DEF Copies
    <3>2. \A f \in files' : f.at < clock'
      BY <1>2, <1>3, <2>1
    <3>3. QED
      BY <1>5, <2>1, <2>3, <3>1, <3>2 DEF Fresh, Verbatim
  <2>4. QED
    BY <2>2, <2>3
<1>21. CASE Stop
  <2>1. history'.overwritten = history.overwritten /\ player'.step = "down"
    BY <1>4, <1>21 DEF Stop, HistoryOK
  <2>2. \A f \in files' : Safe(f) => f \in files
    <3>1. ASSUME NEW c \in Renamed PROVE FileOf(copies[c]).kind = "listener"
      <4>1. c # "safety" /\ c \in Copiers
        BY <3>1 DEF Renamed, Waits
      <4>2. QED
        BY <1>1, <4>1 DEF FileOf, KindOf
    <3>2. QED
      BY <1>21, <3>1 DEF Stop, Held, Safe
  <2>3. copies'["safety"] = Idle("safety")
    BY <1>1, <1>21 DEF Stop
  <2>4. QED
    BY <1>5, <1>7, <1>21, <2>1, <2>2, <2>3 DEF Stop
<1>22. ASSUME NEW t \in 1..Tables, Listen(t) PROVE Fresh' /\ Verbatim' /\ Preserved'
  <2>1. player.step = "up" /\ player' = player /\ copies' = copies /\ files' = files /\ clock' = clock
    BY <1>22 DEF Listen
  <2>2. history'.overwritten = history.overwritten
    BY <1>4, <1>22 DEF Listen, HistoryOK
  <2>3. copies["safety"].step # "copying"
    BY <2>1 DEF Waits
  <2>4. Preserved'
    BY <1>K, <2>1, <2>2 DEF Preserved
  <2>5. QED
    BY <2>1, <2>3, <2>4 DEF Fresh, Verbatim
<1>23. CASE UNCHANGED vars
  BY <1>5, <1>6, <1>23 DEF vars
<1>24. QED
  BY <1>8, <1>9, <1>10, <1>11, <1>12, <1>13, <1>14, <1>15, <1>16, <1>17, <1>18, <1>19, <1>20,
     <1>21, <1>22, <1>23 DEF Next

(* What was heard until a restore wrote over it is in the copy it names,   *)
(* as it was but for a table that the copy passed over because the         *)
(* question whether it exists failed, and no later snapshot rotates that   *)
(* copy away (put_back, create_named, prune, stamp_of).                    *)
THEOREM WrittenOverIsKept == Spec => []WhatWasIsKept
<1>1. Init => Shape /\ Waits /\ Asked /\ Fresh /\ Verbatim /\ Preserved
  BY InitShape, InitWaits, InitAsked, InitKept
<1>2. Shape /\ Waits /\ Asked /\ Fresh /\ Verbatim /\ Preserved /\ [Next]_vars
        => (Shape /\ Waits /\ Asked /\ Fresh /\ Verbatim /\ Preserved)'
  BY StepShape, StepWaits, StepAsked, StepKept
<1>3. Preserved => WhatWasIsKept
  BY DEF Preserved, Saves, WhatWasIsKept, Held, Safe
<1>4. QED
  BY <1>1, <1>2, <1>3, PTL DEF Spec

-----------------------------------------------------------------------------
(* No half-written snapshot under a good name, while no two were begun in  *)
(* one second.                                                             *)
Apart ==
    ~history.clashed =>
        /\ \A c \in Copiers : copies[c].place = "part"
        /\ \A c, d \in Copiers :
              /\ copies[c].step = "copying" /\ copies[d].step = "copying"
              /\ Name(copies[c]) = Name(copies[d])
              => c = d
        /\ \A f \in files : Whole(f)

LEMMA InitApart == Init => Apart
BY DEF Init, Apart

(* No copier's file has another's name then.                               *)
LEMMA ApartHeld ==
    ASSUME Apart, ~history.clashed
    PROVE  /\ Held = files /\ Renamed = {}
           /\ \A c \in Copiers : UnderItsName(c) \subseteq {c} \/ copies[c].step # "copying"
BY DEF Apart, Held, Renamed, UnderItsName

(* A copier that begins.                                                   *)
LEMMA BegunApart ==
    ASSUME Shape, Apart, NEW c \in Copiers, copies[c].step = "idle", copies' = Begun(c),
           clock' = clock, files' = files,
           ~history'.clashed => ~history.clashed /\ (Before(c) = {} \/ c = "safety"),
           history.unread \subseteq history'.unread
    PROVE  Apart'
<1> SUFFICES ASSUME ~history'.clashed PROVE Apart'
  BY DEF Apart
<1>1. ~history.clashed /\ Before(c) = {}
  BY SafetyAlone
<1>2. copies \in [Copiers -> Copies]
  BY DEF Shape, CopiesOK
<1>3. /\ copies'[c].step = "copying" /\ copies'[c].at = clock
      /\ copies'[c].kind = copies[c].kind /\ copies'[c].place = copies[c].place
  BY <1>2 DEF Begun, Copies
<1>4. \A d \in Copiers : d # c => copies'[d] = copies[d]
  BY <1>1 DEF Begun
<1>5. \A d \in Copiers : copies'[d].place = "part"
  BY <1>1, <1>3, <1>4 DEF Apart
<1>6. \A d \in Copiers : d # c /\ copies[d].step = "copying"
                            => Name(copies[d]) # <<copies[c].kind, clock>>
  BY <1>1 DEF Apart, Before, Name
<1>7. ASSUME NEW d \in Copiers, NEW e \in Copiers, copies'[d].step = "copying",
             copies'[e].step = "copying", Name(copies'[d]) = Name(copies'[e])
      PROVE  d = e
  <2>1. Name(copies'[c]) = <<copies[c].kind, clock>>
    BY <1>3 DEF Name
  <2>2. CASE d # c /\ e # c
    BY <1>1, <1>4, <1>7, <2>2 DEF Apart
  <2>3. CASE d = c /\ e # c
    BY <1>4, <1>6, <1>7, <2>1, <2>3
  <2>4. CASE d # c /\ e = c
    BY <1>4, <1>6, <1>7, <2>1, <2>4
  <2>5. QED
    BY <2>2, <2>3, <2>4
<1>8. \A f \in files' : Whole(f)'
  BY <1>1, WholeStays DEF Apart
<1>9. QED
  BY <1>5, <1>7, <1>8 DEF Apart

LEMMA StepApart == Shape /\ Waits /\ Asked /\ Apart /\ [Next]_vars => Apart'
<1> SUFFICES ASSUME Shape, Waits, Asked, Apart, [Next]_vars PROVE Apart'
  OBVIOUS
<1>1. /\ copies \in [Copiers -> Copies] /\ "safety" \in Copiers /\ CopiesOK
      /\ HistoryOK
  BY DEF Shape, CopiesOK, Copiers
<1>U. history.unread \subseteq history'.unread
  BY UnreadGrows
<1>2. ASSUME history'.clashed = history.clashed, files' \subseteq files,
             \A c \in Copiers : /\ copies'[c].place \in {"part", copies[c].place}
                                /\ copies'[c].step = "copying" =>
                                      /\ copies[c].step = "copying"
                                      /\ Name(copies'[c]) = Name(copies[c])
      PROVE  Apart'
  <2> SUFFICES ASSUME ~history.clashed PROVE Apart'
    BY <1>2 DEF Apart
  <2>1. \A f \in files' : Whole(f)'
    BY <1>2, <1>U, WholeStays DEF Apart
  <2>2. QED
    BY <1>2, <2>1 DEF Apart
<1>3. CASE ThreadBegins
  <2>1. ~history'.clashed => ~history.clashed /\ Before("thread") = {}
    BY <1>1, <1>3 DEF ThreadBegins, Clashing, HistoryOK
  <2>2. QED
    BY <1>3, <2>1, <1>U, BegunApart DEF ThreadBegins, MayBegin, Copiers
<1>4. CASE ExportBegins
  <2>1. ~history'.clashed => ~history.clashed /\ Before("export") = {}
    BY <1>1, <1>4 DEF ExportBegins, Clashing, HistoryOK
  <2>2. QED
    BY <1>4, <2>1, <1>U, BegunApart DEF ExportBegins, MayBegin, Copiers
<1>5. CASE SaveFirst
  <2>1. history' = history
    BY <1>5 DEF SaveFirst
  <2>2. QED
    BY <1>1, <1>5, <2>1, <1>U, BegunApart DEF SaveFirst, MayBegin
<1>6. ASSUME NEW f \in Held, ByHand(f) PROVE Apart'
  <2>1. history'.clashed = history.clashed
    BY <1>1, <1>6 DEF ByHand, HistoryOK
  <2>2. QED
    BY <1>1, <1>6, <2>1, <1>U, BegunApart DEF ByHand, MayBegin
<1>7. ASSUME NEW c \in Copiers, CopyTable(c) \/ PassOver(c) PROVE Apart'
  <2>0. history'.clashed = history.clashed
    BY <1>1, <1>7 DEF CopyTable, PassOver, HistoryOK
  <2>1. \A d \in Copiers : /\ copies'[d].place = copies[d].place /\ copies'[d].step = copies[d].step
                           /\ Name(copies'[d]) = Name(copies[d])
    BY <1>1, <1>7 DEF CopyTable, PassOver, Copies, Name
  <2>2. QED
    BY <1>2, <1>7, <2>0, <2>1 DEF CopyTable, PassOver
<1>8. ASSUME NEW c \in Copiers, CopyNamed(c) PROVE Apart'
  <2> SUFFICES ASSUME ~history'.clashed PROVE Apart'
    BY DEF Apart
  <2>1. history'.clashed = history.clashed /\ ~history.clashed
    BY <1>1, <1>8 DEF CopyNamed, HistoryOK
  <2>2. copies[c].step = "copying" /\ Through(c)
    BY <1>8 DEF CopyNamed, Through
  <2>3. UnderItsName(c) \subseteq {c}
    BY <2>1, <2>2, ApartHeld
  <2>4. /\ files' = {f \in files : Name(f) # Name(copies[c])} \cup {FileOf(copies[c])}
        /\ copies' = [copies EXCEPT ![c] =
                        IF c = "safety" THEN Idle(c) ELSE [@ EXCEPT !.step = "named"]]
    BY <1>8, <2>3 DEF CopyNamed
  <2>5. \A f \in files' : Whole(f)'
    <3>1. \A f \in files' : Whole(f)
      BY <2>1, <2>2, <2>4, ThroughIsWhole DEF Apart
    <3>2. QED
      BY <1>U, <3>1, WholeStays
  <2>6. copies'[c].step # "copying" /\ copies'[c].place = "part"
    <3>1. copies[c].place = "part"
      BY <2>1 DEF Apart
    <3>2. QED
      BY <1>1, <2>4, <3>1, IdleTyped DEF Copies
  <2>7. \A d \in Copiers : d # c => copies'[d] = copies[d]
    BY <1>1, <2>4
  <2>8. QED
    BY <2>1, <2>5, <2>6, <2>7 DEF Apart
<1>9. ASSUME NEW c \in Copiers, CopyNameless(c) PROVE Apart'
  <2> SUFFICES ASSUME ~history'.clashed PROVE Apart'
    BY DEF Apart
  <2>1. history' = history /\ copies' = [copies EXCEPT ![c] = Idle(c)]
    BY <1>9 DEF CopyNameless
  <2>2. files' = files
    BY <1>9, <2>1, ApartHeld DEF CopyNameless, LeftBy
  <2>3. copies'[c].place = "part" /\ copies'[c].step = "idle"
    BY <1>1, <2>1, IdleTyped
  <2>4. \A d \in Copiers : d # c => copies'[d] = copies[d]
    BY <1>1, <2>1
  <2>5. QED
    BY <1>2, <2>1, <2>2, <2>3, <2>4
<1>10. ASSUME NEW c \in Copiers, Prune(c) \/ CopyFails(c) \/ CopyEmpty(c) PROVE Apart'
  <2> SUFFICES ASSUME ~history'.clashed PROVE Apart'
    BY DEF Apart
  <2>1. history'.clashed = history.clashed /\ ~history.clashed
    BY <1>1, <1>10 DEF Prune, CopyFails, CopyEmpty, HistoryOK
  <2>2. files' \subseteq files
    BY <1>10, <2>1, ApartHeld DEF Prune, Pruned, CopyFails, CopyEmpty, GivesUp, LeftBy
  <2>3. copies' = [copies EXCEPT ![c] = Idle(c)]
    <3>1. CASE CopyEmpty(c)
      <4>1. UnderItsName(c) \subseteq {c}
        BY <2>1, <3>1, ApartHeld DEF CopyEmpty, Through
      <4>2. \A d \in Copiers : copies'[d] = IF d = c THEN Idle(c) ELSE copies[d]
        BY <3>1, <4>1 DEF CopyEmpty
      <4>3. copies' = [d \in Copiers |-> copies'[d]]
        BY <3>1 DEF CopyEmpty
      <4>4. QED
        BY <1>1, <4>2, <4>3
    <3>2. CASE Prune(c) \/ CopyFails(c)
      BY <3>2 DEF Prune, CopyFails
    <3>3. QED
      BY <1>10, <3>1, <3>2
  <2>4. copies'[c].place = "part" /\ copies'[c].step = "idle"
    BY <1>1, <2>3, IdleTyped
  <2>5. \A d \in Copiers : d # c => copies'[d] = copies[d]
    BY <1>1, <2>3
  <2>6. QED
    BY <1>2, <2>1, <2>2, <2>4, <2>5
<1>11. ASSUME history'.clashed = history.clashed, copies' = copies, files' = files PROVE Apart'
  BY <1>2, <1>11
<1>12. ASSUME NEW f \in Held, Stage(f) PROVE Apart'
  BY <1>1, <1>11, <1>12 DEF Stage, HistoryOK
<1>13. CASE Unstage \/ Start \/ TakeDown \/ NoLongerThere \/ Say
  BY <1>11, <1>13 DEF Unstage, Start, TakeDown, NoLongerThere, Say
<1>14. CASE CannotTakeDown \/ RestoreFails
  BY <1>1, <1>11, <1>14 DEF CannotTakeDown, RestoreFails, HistoryOK
<1>15. CASE Restore
  <2>1. history'.clashed = history.clashed
    BY <1>1, <1>15 DEF Restore, HistoryOK
  <2>2. QED
    BY <1>11, <1>15, <2>1 DEF Restore
<1>16. CASE Tick
  <2>1. \A c \in Copiers : /\ copies'[c].place = copies[c].place /\ copies'[c].step = copies[c].step
                           /\ copies[c].step = "copying" => copies'[c] = copies[c]
    BY <1>1, <1>16 DEF Tick, Copies
  <2>2. QED
    BY <1>2, <1>16, <2>1 DEF Tick
<1>17. CASE Stop
  <2> SUFFICES ASSUME ~history'.clashed PROVE Apart'
    BY DEF Apart
  <2>1. history'.clashed = history.clashed
    BY <1>1, <1>17 DEF Stop, HistoryOK
  <2>2. files' = files
    BY <1>17, <2>1, ApartHeld DEF Stop
  <2>3. \A c \in Copiers : copies'[c].place = "part" /\ copies'[c].step = "idle"
    BY <1>1, <1>17, IdleTyped DEF Stop
  <2>4. QED
    BY <1>2, <2>1, <2>2, <2>3
<1>18. ASSUME NEW t \in 1..Tables, Listen(t) PROVE Apart'
  BY <1>1, <1>11, <1>18 DEF Listen, HistoryOK
<1>19. CASE UNCHANGED vars
  BY <1>11, <1>19 DEF vars
<1>20. QED
  BY <1>3, <1>4, <1>5, <1>6, <1>7, <1>8, <1>9, <1>10, <1>12, <1>13, <1>14, <1>15, <1>16,
     <1>17, <1>18, <1>19 DEF Next

(* What has a snapshot's name holds every table, but one of which the      *)
(* question whether it exists failed, whatever stopped the others, unless  *)
(* two were begun in one second (create_named).                            *)
THEOREM NoneIsHalf == Spec => []OnlyWholeSnapshots
<1>1. Init => Shape /\ Waits /\ Asked /\ Apart
  BY InitShape, InitWaits, InitAsked, InitApart
<1>2. Shape /\ Waits /\ Asked /\ Apart /\ [Next]_vars => (Shape /\ Waits /\ Asked /\ Apart)'
  BY StepShape, StepWaits, StepAsked, StepApart
<1>3. Apart => OnlyWholeSnapshots
  <2> SUFFICES ASSUME Apart, ~history.clashed PROVE \A f \in Held : Whole(f)
    BY DEF OnlyWholeSnapshots
  <2>1. QED
    BY ApartHeld DEF Apart
<1>4. QED
  BY <1>1, <1>2, <1>3, PTL DEF Spec

-----------------------------------------------------------------------------
(* Going through the numbers: by the least where it would fail.            *)

LEMMA LeastOfAny ==
    ASSUME NEW T, T \subseteq Nat, T # {}
    PROVE  \E x \in T : \A y \in T : x <= y
<1> DEFINE R == StrictSubsetOrdering(Nat)
           below == {1..x : x \in T}
<1>1. IsWellFoundedOn(R, FiniteSubsetsOf(Nat))
  BY FS_StrictSubsetOrderingWellFounded
<1>2. below \subseteq FiniteSubsetsOf(Nat) /\ below # {}
  <2>1. \A x \in T : 1..x \in SUBSET Nat /\ IsFiniteSet(1..x)
    BY FS_Interval
  <2>2. QED
    BY <2>1 DEF FiniteSubsetsOf
<1> HIDE DEF R, below
<1>3. PICK b \in below : \A c \in below : ~(<<c, b>> \in R)
  BY <1>1, <1>2, WFMin
<1>4. PICK x \in T : b = 1..x
  BY DEF below
<1>5. ASSUME NEW y \in T, ~(x <= y)
      PROVE  FALSE
  <2>1. x \in Nat /\ y \in Nat
    OBVIOUS
  <2>2. 1..y \subseteq 1..x /\ 1..y # 1..x
    <3>1. x \in 1..x /\ x \notin 1..y
      BY <1>5, <2>1
    <3>2. \A k \in 1..y : k \in 1..x
      BY <1>5, <2>1
    <3>3. QED
      BY <3>1, <3>2
  <2>3. <<1..y, 1..x>> \in R
    BY <2>1, <2>2 DEF R, StrictSubsetOrdering
  <2>4. 1..y \in below
    BY DEF below
  <2>5. QED
    BY <1>3, <1>4, <2>3, <2>4
<1>6. QED
  BY <1>5

\* What holds of 0, and of each after the one before it, holds of all.
LEMMA UpTo ==
    ASSUME NEW n \in Nat, NEW A, 0 \in A, \A i \in 1..n : i - 1 \in A => i \in A
    PROVE  \A i \in 0..n : i \in A
<1> DEFINE T == {i \in 0..n : i \notin A}
<1>1. SUFFICES ASSUME T # {} PROVE FALSE
  OBVIOUS
<1>2. T \subseteq Nat
  OBVIOUS
<1>3. PICK x \in T : \A y \in T : x <= y
  <2> HIDE DEF T
  <2>1. QED
    BY <1>1, <1>2, LeastOfAny
<1>4. x \in 1..n /\ x - 1 \in 0..n
  OBVIOUS
<1>5. x - 1 \in A
  BY <1>3, <1>4
<1>6. QED
  BY <1>4, <1>5

-----------------------------------------------------------------------------
(* Down the ladder.                                                        *)

Ladders == [days : SUBSET Nat, months : SUBSET Nat, years : SUBSET Nat, keep : SUBSET Nat]
Foot == [days |-> {}, months |-> {}, years |-> {}, keep |-> {}]

StepDown(stamps, k, n) == IF NewestFirst(n) \in stamps THEN Looked(k, NewestFirst(n)) ELSE k

Climb(stamps, f) ==
    /\ f \in [0..MaxClock -> Ladders] /\ f[0] = Foot
    /\ \A n \in 1..MaxClock : f[n] = StepDown(stamps, f[n - 1], n)

LEMMA Calendar ==
    /\ DayLength \in Nat \ {0} /\ MonthLength \in Nat \ {0} /\ YearLength \in Nat \ {0}
    /\ KeepDays \in Nat /\ KeepMonths \in Nat
BY CalendarAssumption

LEMMA NoEarlier ==
    ASSUME NEW length \in Nat \ {0}, NEW t \in Nat, NEW u \in Nat, t <= u
    PROVE  t \div length <= u \div length /\ t \div length \in Nat /\ u \div length \in Nat
OBVIOUS

\* What a snapshot on the way leaves of the ladder.
LEMMA LookedAt ==
    ASSUME NEW k \in Ladders, NEW t \in Nat
    PROVE  /\ Looked(k, t) \in Ladders
           /\ Looked(k, t).days \subseteq k.days \cup {t \div DayLength}
           /\ Looked(k, t).months \subseteq k.months \cup {t \div MonthLength}
           /\ Looked(k, t).years \subseteq k.years \cup {t \div YearLength}
           /\ k.keep \subseteq Looked(k, t).keep
           /\ \/ t \div DayLength \notin k.days /\ Cardinality(k.days) < KeepDays
              \/ t \div MonthLength \notin k.months /\ Cardinality(k.months) < KeepMonths
              \/ t \div YearLength \notin k.years
              => t \in Looked(k, t).keep
<1> DEFINE d == t \div DayLength
           m == t \div MonthLength
           y == t \div YearLength
           daily == d \notin k.days /\ Cardinality(k.days) < KeepDays
           monthly == m \notin k.months /\ Cardinality(k.months) < KeepMonths
           yearly == y \notin k.years
           days == IF daily THEN k.days \cup {d} ELSE k.days
           months == IF monthly THEN k.months \cup {m} ELSE k.months
           years == k.years \cup {y}
           keep == IF k.keep = {} \/ daily \/ monthly \/ yearly THEN k.keep \cup {t} ELSE k.keep
<1>1. Looked(k, t) = [days |-> days, months |-> months, years |-> years, keep |-> keep]
  BY DEF Looked
<1>2. d \in Nat /\ m \in Nat /\ y \in Nat
  BY Calendar, NoEarlier
<1>3. k.days \subseteq Nat /\ k.months \subseteq Nat /\ k.years \subseteq Nat /\ k.keep \subseteq Nat
  BY DEF Ladders
<1> HIDE DEF daily, monthly, yearly
<1>4. days \subseteq k.days \cup {d} /\ months \subseteq k.months \cup {m} /\ k.keep \subseteq keep
      /\ keep \subseteq k.keep \cup {t}
      /\ (daily \/ monthly \/ yearly => t \in keep)
  OBVIOUS
<1> HIDE DEF days, months, keep
<1>5. Looked(k, t) \in Ladders
  BY <1>1, <1>2, <1>3, <1>4 DEF Ladders
<1>6. QED
  BY <1>1, <1>4, <1>5 DEF daily, monthly, yearly

LEMMA StepDownTyped ==
    ASSUME NEW stamps, NEW k \in Ladders, NEW n \in 1..MaxClock
    PROVE  StepDown(stamps, k, n) \in Ladders /\ NewestFirst(n) \in 1..MaxClock
<1>1. NewestFirst(n) \in 1..MaxClock /\ NewestFirst(n) \in Nat
  BY Bounds DEF NewestFirst
<1>2. QED
  BY <1>1, LookedAt DEF StepDown

LEMMA ClimbTo ==
    ASSUME NEW stamps
    PROVE  \E f : Climb(stamps, f)
<1> DEFINE Climbs(m, f) == f[0] = Foot /\ \A n \in 1..m : f[n] = StepDown(stamps, f[n - 1], n)
           A == {m \in 0..MaxClock : \E f \in [0..m -> Ladders] : Climbs(m, f)}
<1>1. 0 \in A
  <2> DEFINE f == [i \in 0..0 |-> Foot]
  <2>1. f \in [0..0 -> Ladders] /\ Climbs(0, f)
    BY DEF Foot, Ladders
  <2> HIDE DEF f, Climbs
  <2>2. QED
    BY <2>1, Bounds
<1>2. ASSUME NEW m \in 1..MaxClock, m - 1 \in A
      PROVE  m \in A
  <2>1. PICK f \in [0..(m - 1) -> Ladders] : Climbs(m - 1, f)
    BY <1>2
  <2>2. m \in Nat /\ m - 1 \in 0..(m - 1) /\ \A i \in 0..m : i # m => i \in 0..(m - 1)
    BY Bounds
  <2>3. PICK last : last = StepDown(stamps, f[m - 1], m)
    OBVIOUS
  <2>4. last \in Ladders
    BY <2>1, <2>2, <2>3, StepDownTyped
  <2> DEFINE h == [i \in 0..m |-> IF i = m THEN last ELSE f[i]]
  <2>5. h \in [0..m -> Ladders]
    BY <2>2, <2>4
  <2>6. ASSUME NEW i \in 1..m
        PROVE  h[i] = StepDown(stamps, h[i - 1], i)
    <3>1. i - 1 \in 0..(m - 1) /\ h[i - 1] = f[i - 1]
      BY <2>2
    <3>2. CASE i = m
      BY <2>3, <3>1, <3>2
    <3>3. CASE i # m
      <4>1. i \in 1..(m - 1) /\ h[i] = f[i]
        BY <2>2, <3>3
      <4>2. QED
        BY <2>1, <3>1, <4>1
    <3>4. QED
      BY <3>2, <3>3
  <2>7. h[0] = Foot
    BY <2>1, <2>2
  <2>8. Climbs(m, h)
    BY <2>6, <2>7
  <2> HIDE DEF h, Climbs
  <2>9. QED
    BY <2>5, <2>8
<1> HIDE DEF A
<1>3. MaxClock \in A
  BY <1>1, <1>2, UpTo, Bounds
<1>4. PICK f \in [0..MaxClock -> Ladders] : Climbs(MaxClock, f)
  BY <1>3 DEF A
<1>5. QED
  BY <1>4 DEF Climb

\* Kept is what such a climb keeps.
LEMMA KeptByClimb ==
    ASSUME NEW stamps
    PROVE  \E f : Climb(stamps, f) /\ Kept(stamps) = f[MaxClock].keep
<1> DEFINE IsClimb(f) == f = [n \in 0..MaxClock |-> IF n = 0 THEN Foot ELSE StepDown(stamps, f[n - 1], n)]
           after == CHOOSE f : IsClimb(f)
<1>1. PICK f : Climb(stamps, f)
  BY ClimbTo
<1>2. IsClimb(f)
  BY <1>1, Bounds DEF Climb
<1>3. IsClimb(after)
  BY <1>2
<1>4. Kept(stamps) = after[MaxClock].keep
  BY DEF Kept, after, StepDown, Foot
<1> HIDE DEF after
<1>5. after[0] = Foot /\ \A n \in 1..MaxClock : after[n] = StepDown(stamps, after[n - 1], n)
  BY <1>3, Bounds
<1> DEFINE A == {n \in 0..MaxClock : after[n] \in Ladders}
<1>6. 0 \in A
  BY <1>5, Bounds DEF Foot, Ladders
<1>7. ASSUME NEW n \in 1..MaxClock, n - 1 \in A
      PROVE  n \in A
  BY <1>5, <1>7, StepDownTyped, Bounds
<1> HIDE DEF A
<1>8. \A n \in 0..MaxClock : n \in A
  BY <1>6, <1>7, UpTo, Bounds
<1>9. after \in [0..MaxClock -> Ladders]
  BY <1>3, <1>8 DEF A
<1>10. QED
  BY <1>4, <1>5, <1>9 DEF Climb

\* What the ladder has stood on so far: the periods of what is behind.
Behind(stamps, n) == {u \in stamps : u > MaxClock - n}
Periods(times, length) == {u \div length : u \in times}

\* What LadderKept asks for, of any times at all.
Since(times, t, length) == Periods(times, length) \ (0..(t \div length))
LastOf(times, t, length) == \A u \in times : u \div length = t \div length => u <= t
Wanted(times, t) ==
    \/ LastOf(times, t, DayLength) /\ Cardinality(Since(times, t, DayLength)) < KeepDays
    \/ LastOf(times, t, MonthLength) /\ Cardinality(Since(times, t, MonthLength)) < KeepMonths
    \/ LastOf(times, t, YearLength)

\* The last of a period finds it free, and before it only later ones.
LEMMA PeriodFree ==
    ASSUME NEW length \in Nat \ {0}, NEW times \in SUBSET (1..MaxClock), NEW t \in times,
           LastOf(times, t, length), NEW taken, NEW n, MaxClock - n = t,
           n \in 0..MaxClock, taken \subseteq Periods(Behind(times, n), length)
    PROVE  /\ t \div length \notin taken
           /\ Cardinality(taken) <= Cardinality(Since(times, t, length))
           /\ Cardinality(taken) \in Nat /\ Cardinality(Since(times, t, length)) \in Nat
<1>1. \A u \in times : u \in Nat /\ u <= MaxClock
  BY Bounds
<1>2. t \in Nat /\ t \div length \in Nat
  BY <1>1, NoEarlier
<1>3. ASSUME NEW x \in taken
      PROVE  x \in Periods(times, length) /\ x \in Nat /\ x > t \div length
  <2>1. PICK u \in times : u > t /\ x = u \div length
    BY DEF Periods, Behind
  <2>2. u \in Nat /\ t <= u /\ ~(u <= t)
    BY <1>1, <1>2, <2>1
  <2>3. t \div length <= x /\ x \in Nat
    BY <1>2, <2>1, <2>2, NoEarlier
  <2>4. x # t \div length
    BY <2>1, <2>2 DEF LastOf
  <2>5. QED
    BY <1>2, <2>1, <2>3, <2>4 DEF Periods
<1>4. taken \in SUBSET Since(times, t, length)
  BY <1>2, <1>3 DEF Since
<1>5. IsFiniteSet(Since(times, t, length))
  <2>1. PICK most \in Nat : most = MaxClock \div length
    BY Bounds, NoEarlier
  <2>2. \A x \in Since(times, t, length) : x \in Nat /\ x <= most
    <3> TAKE x \in Since(times, t, length)
    <3>1. PICK u \in times : x = u \div length
      BY DEF Since, Periods
    <3>2. u \in Nat /\ u <= MaxClock /\ MaxClock \in Nat
      BY <1>1, Bounds
    <3>3. QED
      BY <2>1, <3>1, <3>2, NoEarlier
  <2>3. QED
    BY <2>2, FS_BoundedSetOfNaturals
<1>6. QED
  BY <1>2, <1>3, <1>4, <1>5, FS_Subset, FS_CardinalityType

\* How far down the ladder is told by what it holds.
Standing(stamps, k, n) ==
    /\ k.days \subseteq Periods(Behind(stamps, n), DayLength)
    /\ k.months \subseteq Periods(Behind(stamps, n), MonthLength)
    /\ k.years \subseteq Periods(Behind(stamps, n), YearLength)

\* Whatever a thinning is given of times that all count, it keeps what is wanted of
\* them all.
LEMMA ThinnedKeeps ==
    ASSUME NEW times \in SUBSET (1..MaxClock), NEW stamps \in SUBSET times,
           NEW t \in stamps, Wanted(times, t)
    PROVE  t \in Kept(stamps)
<1>1. PICK f : Climb(stamps, f) /\ Kept(stamps) = f[MaxClock].keep
  BY KeptByClimb
<1>2. \A n \in 0..MaxClock : f[n] \in Ladders
  BY <1>1 DEF Climb
<1>3. \A n \in 1..MaxClock : n - 1 \in 0..MaxClock /\ f[n] = StepDown(stamps, f[n - 1], n)
  BY <1>1, Bounds DEF Climb
<1>4. \A n \in 1..MaxClock :
        /\ NewestFirst(n) \in 1..MaxClock /\ NewestFirst(n) \in Nat
        /\ NewestFirst(n) > MaxClock - n /\ MaxClock - (n - 1) = NewestFirst(n)
  BY Bounds DEF NewestFirst
<1>5. \A n \in 1..MaxClock : Behind(stamps, n - 1) \subseteq Behind(stamps, n)
  <2> TAKE n \in 1..MaxClock
  <2>1. \A u \in stamps : u \in Nat
    BY Bounds
  <2>2. PICK c \in Nat, d \in Int : c = MaxClock - n /\ d = MaxClock - (n - 1) /\ d = c + 1
    BY Bounds
  <2>3. \A u \in Nat : u > d => u > c
    BY <2>2
  <2>4. QED
    BY <2>1, <2>2, <2>3 DEF Behind
<1> DEFINE A == {n \in 0..MaxClock : Standing(stamps, f[n], n)}
<1>6. 0 \in A
  <2>1. f[0] = Foot /\ 0 \in 0..MaxClock
    BY <1>1, Bounds DEF Climb
  <2>2. QED
    BY <2>1 DEF Standing, Foot
<1>7. ASSUME NEW n \in 1..MaxClock, n - 1 \in A
      PROVE  n \in A
  <2>1. Standing(stamps, f[n - 1], n - 1)
    BY <1>7
  <2>2. \A length : Periods(Behind(stamps, n - 1), length) \subseteq Periods(Behind(stamps, n), length)
    BY <1>5 DEF Periods
  <2>3. Standing(stamps, f[n - 1], n)
    BY <2>1, <2>2 DEF Standing
  <2>4. CASE NewestFirst(n) \in stamps
    <3>1. \A length : NewestFirst(n) \div length \in Periods(Behind(stamps, n), length)
      BY <1>4, <2>4 DEF Periods, Behind
    <3>2. f[n] = Looked(f[n - 1], NewestFirst(n))
      BY <1>3, <2>4 DEF StepDown
    <3>3. f[n - 1] \in Ladders /\ NewestFirst(n) \in Nat
      BY <1>2, <1>3, <1>4
    <3>4. /\ f[n].days \subseteq f[n - 1].days \cup {NewestFirst(n) \div DayLength}
          /\ f[n].months \subseteq f[n - 1].months \cup {NewestFirst(n) \div MonthLength}
          /\ f[n].years \subseteq f[n - 1].years \cup {NewestFirst(n) \div YearLength}
      BY <3>2, <3>3, LookedAt
    <3>5. QED
      BY <2>3, <3>1, <3>4 DEF Standing
  <2>5. CASE NewestFirst(n) \notin stamps
    BY <1>3, <2>3, <2>5 DEF StepDown
  <2>6. Standing(stamps, f[n], n)
    BY <2>4, <2>5
  <2>7. QED
    BY <2>6, Bounds
<1> HIDE DEF A
<1>8. \A n \in 0..MaxClock : n \in A
  BY <1>6, <1>7, UpTo, Bounds
<1>9. t \in Nat /\ t >= 1 /\ t <= MaxClock /\ t \in times
  BY Bounds
<1>10. PICK m \in 1..MaxClock : m = MaxClock + 1 - t
  BY <1>9, Bounds
<1>11. NewestFirst(m) = t /\ m - 1 \in 0..MaxClock /\ MaxClock - (m - 1) = t
  BY <1>9, <1>10, Bounds DEF NewestFirst
<1>12. PICK k \in Ladders : k = f[m - 1]
  BY <1>2, <1>11
<1>13. Standing(stamps, k, m - 1)
  BY <1>8, <1>11, <1>12 DEF A
<1>14. \A length : Periods(Behind(stamps, m - 1), length) \subseteq Periods(Behind(times, m - 1), length)
  BY DEF Periods, Behind
<1>15. \/ t \div DayLength \notin k.days /\ Cardinality(k.days) < KeepDays
       \/ t \div MonthLength \notin k.months /\ Cardinality(k.months) < KeepMonths
       \/ t \div YearLength \notin k.years
  <2> DEFINE n == m - 1
  <2>1. n \in 0..MaxClock /\ MaxClock - n = t
    BY <1>11
  <2> HIDE DEF n
  <2>2. CASE LastOf(times, t, DayLength) /\ Cardinality(Since(times, t, DayLength)) < KeepDays
    <3>1. k.days \subseteq Periods(Behind(times, n), DayLength)
      BY <1>13, <1>14 DEF Standing, n
    <3>2. /\ t \div DayLength \notin k.days
          /\ Cardinality(k.days) <= Cardinality(Since(times, t, DayLength))
          /\ Cardinality(k.days) \in Nat /\ Cardinality(Since(times, t, DayLength)) \in Nat
      BY <1>9, <2>1, <2>2, <3>1, Calendar, PeriodFree
    <3>3. QED
      BY <2>2, <3>2, Calendar
  <2>3. CASE LastOf(times, t, MonthLength) /\ Cardinality(Since(times, t, MonthLength)) < KeepMonths
    <3>1. k.months \subseteq Periods(Behind(times, n), MonthLength)
      BY <1>13, <1>14 DEF Standing, n
    <3>2. /\ t \div MonthLength \notin k.months
          /\ Cardinality(k.months) <= Cardinality(Since(times, t, MonthLength))
          /\ Cardinality(k.months) \in Nat /\ Cardinality(Since(times, t, MonthLength)) \in Nat
      BY <1>9, <2>1, <2>3, <3>1, Calendar, PeriodFree
    <3>3. QED
      BY <2>3, <3>2, Calendar
  <2>4. CASE LastOf(times, t, YearLength)
    <3>1. k.years \subseteq Periods(Behind(times, n), YearLength)
      BY <1>13, <1>14 DEF Standing, n
    <3>2. QED
      BY <1>9, <2>1, <2>4, <3>1, Calendar, PeriodFree
  <2>5. QED
    BY <2>2, <2>3, <2>4 DEF Wanted
<1>16. t \in f[m].keep
  <2>1. f[m] = Looked(k, t)
    BY <1>3, <1>11, <1>12 DEF StepDown
  <2>2. QED
    BY <1>9, <1>15, <2>1, LookedAt
<1> DEFINE B == {n \in 0..MaxClock : n >= m => t \in f[n].keep}
<1>17. 0 \in B
  BY Bounds
<1>18. ASSUME NEW n \in 1..MaxClock, n - 1 \in B
       PROVE  n \in B
  <2>1. f[n - 1] \in Ladders /\ n \in 0..MaxClock /\ f[n] = StepDown(stamps, f[n - 1], n)
    BY <1>2, <1>3, Bounds
  <2>2. f[n - 1].keep \subseteq f[n].keep
    BY <1>4, <2>1, LookedAt DEF StepDown
  <2>3. CASE n = m
    BY <1>16, <2>1, <2>3
  <2>4. CASE n # m
    BY <1>18, <2>1, <2>2, <2>4, Bounds
  <2>5. QED
    BY <2>3, <2>4
<1> HIDE DEF B
<1>19. MaxClock \in B
  BY <1>17, <1>18, UpTo, Bounds
<1>20. QED
  BY <1>1, <1>19, Bounds DEF B

-----------------------------------------------------------------------------
(* What is wanted of all that were ever taken is there.                    *)

\* One more taken makes nothing wanted that was not.
LEMMA WantedBefore ==
    ASSUME NEW times \in SUBSET (1..MaxClock), NEW x \in 1..MaxClock, NEW t \in times,
           Wanted(times \cup {x}, t)
    PROVE  Wanted(times, t)
<1> DEFINE more == times \cup {x}
<1>1. ASSUME NEW length \in Nat \ {0}
      PROVE  /\ LastOf(more, t, length) => LastOf(times, t, length)
             /\ Cardinality(Since(times, t, length)) <= Cardinality(Since(more, t, length))
             /\ Cardinality(Since(times, t, length)) \in Nat
             /\ Cardinality(Since(more, t, length)) \in Nat
  <2>1. Since(times, t, length) \in SUBSET Since(more, t, length)
    BY DEF Since, Periods
  <2>2. PICK most \in Nat : most = MaxClock \div length
    BY Bounds, NoEarlier
  <2>3. \A y \in Since(more, t, length) : y \in Nat /\ y <= most
    <3> TAKE y \in Since(more, t, length)
    <3>1. PICK u \in more : y = u \div length
      BY DEF Since, Periods
    <3>2. u \in Nat /\ u <= MaxClock /\ MaxClock \in Nat
      BY Bounds
    <3>3. QED
      BY <2>2, <3>1, <3>2, NoEarlier
  <2>4. IsFiniteSet(Since(more, t, length))
    BY <2>2, <2>3, FS_BoundedSetOfNaturals
  <2>5. QED
    BY <2>1, <2>4, FS_Subset, FS_CardinalityType DEF LastOf
<1> HIDE DEF more
<1>2. LastOf(more, t, DayLength) /\ Cardinality(Since(more, t, DayLength)) < KeepDays
      => LastOf(times, t, DayLength) /\ Cardinality(Since(times, t, DayLength)) < KeepDays
  BY <1>1, Calendar
<1>3. LastOf(more, t, MonthLength) /\ Cardinality(Since(more, t, MonthLength)) < KeepMonths
      => LastOf(times, t, MonthLength) /\ Cardinality(Since(times, t, MonthLength)) < KeepMonths
  BY <1>1, Calendar
<1>4. LastOf(more, t, YearLength) => LastOf(times, t, YearLength)
  BY <1>1, Calendar
<1>5. QED
  BY <1>2, <1>3, <1>4 DEF Wanted, more

\* A copier's file is in its place while the copier writes it.
InPlace(c) == copies[c].step = "copying" /\ copies[c].place = "dir" /\ copies[c].kind = "listener"

Laddered ==
    /\ \A c \in Copiers : copies[c].step = "idle" => copies[c].place = "part"
    /\ history.taken \subseteq 1..clock
    /\ Stamps(Held) \subseteq history.taken
    /\ \A t \in history.taken : Wanted(history.taken, t) => t \in Stamps(Held)

StampsRead ==
    \A u : u \in Stamps(Held) <=> \/ \E f \in files : f.kind = "listener" /\ f.at = u
                                  \/ \E c \in Copiers : InPlace(c) /\ copies[c].at = u

LEMMA StampsAre == StampsRead
<1>1. \A u : u \in Stamps(Held) <=> \E f \in Held : f.kind = "listener" /\ f.at = u
  BY DEF Stamps, InRotation
<1>2. \A f : f \in Held <=> f \in files \/ f \in {FileOf(copies[c]) : c \in Renamed}
  BY DEF Held
<1>3. \A c \in Copiers : InPlace(c) <=> c \in Renamed /\ copies[c].kind = "listener"
  BY DEF InPlace, Renamed
<1>4. Renamed \subseteq Copiers
  BY DEF Renamed
<1>5. ASSUME NEW u
      PROVE  (\E f \in Held : f.kind = "listener" /\ f.at = u)
             <=> \/ \E f \in files : f.kind = "listener" /\ f.at = u
                 \/ \E c \in Copiers : InPlace(c) /\ copies[c].at = u
  <2>1. ASSUME NEW f \in Held, f.kind = "listener" /\ f.at = u, f \notin files
        PROVE  \E c \in Copiers : InPlace(c) /\ copies[c].at = u
    <3>1. PICK c \in Renamed : f = FileOf(copies[c])
      BY <1>2, <2>1
    <3>2. c \in Copiers /\ copies[c].kind = f.kind /\ copies[c].at = f.at
      BY <1>4, <3>1 DEF FileOf
    <3>3. QED
      BY <1>3, <2>1, <3>2
  <2>2. ASSUME NEW c \in Copiers, InPlace(c) /\ copies[c].at = u
        PROVE  \E f \in Held : f.kind = "listener" /\ f.at = u
    <3>1. c \in Renamed /\ copies[c].kind = "listener"
      BY <1>3, <2>2
    <3>2. FileOf(copies[c]) \in Held
      BY <1>2, <3>1
    <3>3. FileOf(copies[c]).kind = "listener" /\ FileOf(copies[c]).at = u
      BY <2>2, <3>1 DEF FileOf
    <3>4. QED
      BY <3>2, <3>3
  <2>3. QED
    BY <1>2, <2>1, <2>2
<1>6. QED
  BY <1>1, <1>5 DEF StampsRead

LEMMA StampsNext == StampsRead'
BY StampsAre, PTL

LEMMA InitLaddered == Init => Laddered
<1> SUFFICES ASSUME Init PROVE Laddered
  OBVIOUS
<1>1. files = {} /\ history.taken = {} /\ \A c \in Copiers : copies[c].step = "idle" /\ copies[c].place = "part"
  BY DEF Init
<1>2. \A u : u \notin Stamps(Held)
  BY <1>1, StampsAre DEF InPlace, StampsRead
<1>3. QED
  BY <1>1, <1>2 DEF Laddered

\* Nothing taken, and nothing put under a snapshot's name or removed from it.
Untouched ==
    /\ history'.taken = history.taken /\ files' = files
    /\ clock' \in {clock, clock + 1}
    /\ \A c \in Copiers :
          /\ copies'[c].step = "idle" => copies'[c].place = "part"
          /\ InPlace(c)' <=> InPlace(c)
          /\ InPlace(c) => copies'[c].at = copies[c].at

LEMMA ShapeParts == Shape => clock \in 1..MaxClock /\ FilesOK /\ CopiesOK /\ HistoryOK
BY DEF Shape

LEMMA TakenGrow ==
    ASSUME Shape, clock' \in {clock, clock + 1}
    PROVE  \A u \in 1..clock : u \in 1..clock'
<1>1. clock \in 1..MaxClock
  BY ShapeParts
<1>2. clock \in Nat
  BY <1>1, Bounds
<1>3. QED
  BY <1>2

LEMMA UntouchedStays ==
    ASSUME Shape, Laddered, Untouched
    PROVE  Laddered'
<1>1. \A u : u \in Stamps(Held)' <=> u \in Stamps(Held)
  <2>1. StampsRead /\ StampsRead'
    BY StampsAre, StampsNext
  <2>2. QED
    BY <2>1 DEF Untouched, StampsRead
<1>2. history'.taken \subseteq 1..clock'
  BY TakenGrow DEF Untouched, Laddered
<1>3. QED
  BY <1>1, <1>2 DEF Untouched, Laddered

LEMMA BegunLaddered ==
    ASSUME Shape, Laddered, NEW c \in Copiers, copies[c].step = "idle", copies' = Begun(c),
           clock' = clock, files' = files, history'.taken = history.taken
    PROVE  Laddered'
<1>1. copies \in [Copiers -> Copies]
  <2>1. CopiesOK
    BY ShapeParts
  <2>2. QED
    BY <2>1 DEF CopiesOK
<1>2. copies'[c].step = "copying" /\ copies'[c].place = "part"
  BY <1>1 DEF Begun, Copies, Laddered
<1>3. \A d \in Copiers : d # c =>
        \/ copies'[d] = copies[d]
        \/ copies[d].step = "copying" /\ copies[d].place = "part"
           /\ copies'[d].step = "copying" /\ copies'[d].place = "gone"
  BY <1>1 DEF Begun, Before, Copies
<1>4. \A d \in Copiers :
          /\ copies'[d].step = "idle" => copies'[d].place = "part"
          /\ InPlace(d)' <=> InPlace(d)
          /\ InPlace(d) => copies'[d].at = copies[d].at
  <2> TAKE d \in Copiers
  <2>1. CASE d = c
    BY <1>2, <2>1 DEF InPlace
  <2>2. CASE d # c /\ copies'[d] = copies[d]
    BY <2>2 DEF InPlace, Laddered
  <2>3. CASE d # c /\ copies'[d] # copies[d]
    BY <1>3, <2>3 DEF InPlace
  <2>4. QED
    BY <2>1, <2>2, <2>3
<1>5. Untouched
  BY <1>4 DEF Untouched
<1>6. QED
  BY <1>5, UntouchedStays

\* A copier that is done or failed, its file nowhere or with the others.
LEMMA IdleNow ==
    ASSUME Shape, NEW c \in Copiers, copies' = [copies EXCEPT ![c] = Idle(c)]
    PROVE  /\ copies'[c].step = "idle" /\ copies'[c].place = "part"
           /\ \A d \in Copiers : d # c => copies'[d] = copies[d]
<1>1. CopiesOK
  BY ShapeParts
<1>2. copies \in [Copiers -> Copies]
  BY <1>1 DEF CopiesOK
<1>3. QED
  BY <1>1, <1>2, IdleTyped

LEMMA TimesBounded ==
    ASSUME Shape, Laddered
    PROVE  history.taken \in SUBSET (1..MaxClock) /\ \A u \in 1..clock : u \in 1..MaxClock
<1>1. clock \in 1..MaxClock
  BY ShapeParts
<1>2. \A u \in 1..clock : u \in 1..MaxClock
  BY <1>1, Bounds
<1>3. QED
  BY <1>2 DEF Laddered

\* A snapshot gets its name: one more is taken, and is there.
LEMMA OneMoreStays ==
    ASSUME Shape, Laddered, NEW x \in 1..clock, clock' = clock,
           history'.taken = history.taken \cup {x},
           \A u : u \in Stamps(Held)' <=> u \in Stamps(Held) \/ u = x,
           \A d \in Copiers : copies'[d].step = "idle" => copies'[d].place = "part"
    PROVE  Laddered'
<1>1. history.taken \in SUBSET (1..MaxClock) /\ x \in 1..MaxClock
  BY TimesBounded
<1>2. ASSUME NEW t \in history'.taken, Wanted(history'.taken, t)
      PROVE  t \in Stamps(Held)'
  <2>1. CASE t = x
    BY <2>1
  <2>2. CASE t # x
    <3>1. t \in history.taken
      BY <2>2
    <3>2. Wanted(history.taken, t)
      BY <1>1, <1>2, <3>1, WantedBefore
    <3>3. QED
      BY <3>1, <3>2 DEF Laddered
  <2>3. QED
    BY <2>1, <2>2
<1>3. Stamps(Held)' \subseteq history'.taken /\ history'.taken \subseteq 1..clock'
  BY DEF Laddered
<1>4. QED
  BY <1>2, <1>3 DEF Laddered

LEMMA NamedLaddered ==
    ASSUME Shape, Laddered, NEW c \in Copiers, CopyNamed(c)
    PROVE  Laddered'
<1>1. copies \in [Copiers -> Copies] /\ CopiesOK /\ HistoryOK /\ clock \in 1..MaxClock
  <2>1. CopiesOK /\ HistoryOK /\ clock \in 1..MaxClock
    BY ShapeParts
  <2>2. QED
    BY <2>1 DEF CopiesOK
<1>2. \A e \in Copiers : copies[e] \in Copies /\ copies[e].kind = KindOf(e)
  BY <1>1 DEF CopiesOK
<1>3. PICK d \in UnderItsName(c) :
        /\ files' = {f \in files : Name(f) # Name(copies[c])}
                      \cup (IF d = c THEN {FileOf(copies[c])} ELSE {})
        /\ LET left == IF d = c THEN copies ELSE [copies EXCEPT ![d].place = "dir"]
           IN copies' = [left EXCEPT ![c] =
                           IF c = "safety" THEN Idle(c) ELSE [@ EXCEPT !.step = "named"]]
  BY DEF CopyNamed
<1>4. /\ d \in Copiers /\ copies[d].step = "copying" /\ copies[d].place = "part"
      /\ copies[d].kind = copies[c].kind /\ copies[d].at = copies[c].at
  BY <1>3 DEF UnderItsName, Name
<1>5. /\ \A e \in Copiers \ {c, d} : copies'[e] = copies[e]
      /\ d # c => copies'[d] = [copies[d] EXCEPT !.place = "dir"]
      /\ copies'[c] = IF c = "safety" THEN Idle(c) ELSE [copies[c] EXCEPT !.step = "named"]
  <2>1. CASE d = c
    <3>1. copies' = [copies EXCEPT ![c] = IF c = "safety" THEN Idle(c) ELSE [@ EXCEPT !.step = "named"]]
      BY <1>3, <2>1
    <3>2. QED
      BY <1>1, <2>1, <3>1
  <2>2. CASE d # c
    <3> DEFINE left == [copies EXCEPT ![d].place = "dir"]
    <3>1. left \in [Copiers -> Copies] /\ left[c] = copies[c] /\ left[d] = [copies[d] EXCEPT !.place = "dir"]
          /\ \A e \in Copiers \ {c, d} : left[e] = copies[e]
      BY <1>1, <1>2, <1>4, <2>2 DEF Copies
    <3>2. copies' = [left EXCEPT ![c] = IF c = "safety" THEN Idle(c) ELSE [@ EXCEPT !.step = "named"]]
      BY <1>3, <2>2
    <3> HIDE DEF left
    <3>3. QED
      BY <1>4, <2>2, <3>1, <3>2
  <2>3. QED
    BY <2>1, <2>2
<1>6. copies'[c].step \in {"idle", "named"} /\ (copies'[c].step = "idle" => copies'[c].place = "part")
  BY <1>1, <1>2, <1>5, IdleTyped DEF Copies
<1>7. \A e \in Copiers : copies'[e].step = "idle" => copies'[e].place = "part"
  <2> TAKE e \in Copiers
  <2>1. CASE e = c
    BY <1>6, <2>1
  <2>2. CASE e # c /\ e = d
    <3>1. copies'[d].step = "copying"
      BY <1>2, <1>4, <1>5, <2>2 DEF Copies
    <3>2. QED
      BY <2>2, <3>1
  <2>3. CASE e # c /\ e # d
    BY <1>5, <2>3 DEF Laddered
  <2>4. QED
    BY <2>1, <2>2, <2>3
<1>8. clock' = clock
  BY DEF CopyNamed
<1>9. \A e \in Copiers \ {c, d} : (InPlace(e)' <=> InPlace(e)) /\ copies'[e].at = copies[e].at
  BY <1>5 DEF InPlace
<1>10. ~InPlace(c)' /\ ~InPlace(d)
  BY <1>4, <1>6 DEF InPlace
<1>11. StampsRead /\ StampsRead'
  BY StampsAre, StampsNext
<1>12. CASE c = "safety"
  <2>1. copies[c].kind = "prerestore" /\ d = c
    BY <1>2, <1>4, <1>12 DEF KindOf
  <2>2. history' = history
    BY <1>12 DEF CopyNamed
  <2>3. \A f : f \in files' /\ f.kind = "listener" <=> f \in files /\ f.kind = "listener"
    BY <1>3, <2>1 DEF Name, FileOf
  <2>4. ~InPlace(c)
    BY <2>1 DEF InPlace
  <2>5. \A u : u \in Stamps(Held)' <=> u \in Stamps(Held)
    BY <1>9, <1>10, <1>11, <2>1, <2>3, <2>4 DEF StampsRead
  <2>6. QED
    BY <1>7, <1>8, <2>2, <2>5 DEF Laddered
<1>13. CASE c # "safety"
  <2> DEFINE x == copies[c].at
  <2>1. copies[c].kind = "listener" /\ x \in 1..clock
    <3>1. copies[c].kind = "listener" /\ copies[c].step = "copying" /\ x \in 0..clock
      BY <1>2, <1>13 DEF KindOf, Copies, CopyNamed, Through
    <3>2. x # 0
      BY <1>1, <3>1 DEF CopiesOK
    <3>3. \A n \in 0..clock : n # 0 => n \in 1..clock
      BY <1>1, Bounds
    <3>4. QED
      BY <3>1, <3>2, <3>3
  <2>2. history'.taken = history.taken \cup {x}
    BY <1>1, <1>13 DEF CopyNamed, HistoryOK
  <2>3. d # c => InPlace(d)' /\ copies'[d].at = x
    BY <1>2, <1>4, <1>5, <2>1 DEF InPlace, Copies
  <2>4. \A u : (\E f \in files' : f.kind = "listener" /\ f.at = u)
               <=> \/ \E f \in files : f.kind = "listener" /\ f.at = u /\ u # x
                   \/ d = c /\ u = x
    <3>1. \A f : Name(f) # Name(copies[c]) <=> ~(f.kind = "listener" /\ f.at = x)
      BY <2>1 DEF Name
    <3>2. FileOf(copies[c]).kind = "listener" /\ FileOf(copies[c]).at = x
      BY <2>1 DEF FileOf
    <3> HIDE DEF x
    <3>3. QED
      BY <1>3, <3>1, <3>2
  <2> HIDE DEF x
  <2>5. \A u : u \in Stamps(Held)' <=> u \in Stamps(Held) \/ u = x
    <3> TAKE u
    <3>1. u = x => u \in Stamps(Held)'
      BY <1>4, <1>11, <2>3, <2>4 DEF StampsRead
    <3>2. ASSUME u # x
          PROVE  u \in Stamps(Held)' <=> u \in Stamps(Held)
      <4>1. (\E f \in files' : f.kind = "listener" /\ f.at = u)
              <=> \E f \in files : f.kind = "listener" /\ f.at = u
        BY <2>4, <3>2
      <4>2. (\E e \in Copiers : InPlace(e)' /\ copies'[e].at = u)
              <=> \E e \in Copiers : InPlace(e) /\ copies[e].at = u
        <5>1. ASSUME NEW e \in Copiers
              PROVE  (InPlace(e)' /\ copies'[e].at = u) <=> (InPlace(e) /\ copies[e].at = u)
          <6>1. CASE e = c
            BY <1>10, <3>2, <6>1 DEF x
          <6>2. CASE e = d /\ d # c
            BY <1>10, <2>3, <3>2, <6>2
          <6>3. CASE e # c /\ e # d
            BY <1>9, <6>3
          <6>4. QED
            BY <6>1, <6>2, <6>3
        <5>2. QED
          BY <5>1
      <4>3. QED
        BY <1>11, <4>1, <4>2 DEF StampsRead
    <3>3. QED
      BY <3>1, <3>2
  <2>6. QED
    BY <1>7, <1>8, <2>1, <2>2, <2>5, OneMoreStays
<1>14. QED
  BY <1>12, <1>13

\* A copier that ends without a rename takes no stamp away.
LEMMA EndedLaddered ==
    ASSUME Shape, Laddered, NEW c \in Copiers, files' = LeftBy(c), clock' = clock,
           history'.taken = history.taken,
           copies'[c].step = "idle", copies'[c].place = "part",
           \A d \in Copiers : d # c =>
               /\ copies'[d].step = copies[d].step /\ copies'[d].at = copies[d].at
               /\ copies'[d].kind = copies[d].kind
               /\ (copies'[d].place = "dir") = (copies[d].place = "dir")
               /\ copies[d].step = "idle" => copies'[d].place = copies[d].place
    PROVE  Laddered'
<1>1. files' = files \cup (IF c \in Renamed THEN {FileOf(copies[c])} ELSE {})
  BY DEF LeftBy
<1>2. copies'[c].step = "idle" /\ copies'[c].place = "part"
  OBVIOUS
<1>3. \A d \in Copiers : d # c => (InPlace(d)' <=> InPlace(d)) /\ copies'[d].at = copies[d].at
  BY DEF InPlace
<1>4. ~InPlace(c)' /\ (InPlace(c) <=> c \in Renamed /\ copies[c].kind = "listener")
  BY <1>2 DEF InPlace, Renamed
<1>5. \A u : (\E f \in files' : f.kind = "listener" /\ f.at = u)
             <=> \/ \E f \in files : f.kind = "listener" /\ f.at = u
                 \/ InPlace(c) /\ copies[c].at = u
  <2>1. FileOf(copies[c]).kind = copies[c].kind /\ FileOf(copies[c]).at = copies[c].at
    BY DEF FileOf
  <2>2. QED
    BY <1>1, <1>4, <2>1
<1>6. StampsRead /\ StampsRead'
  BY StampsAre, StampsNext
<1>7. \A u : u \in Stamps(Held)' <=> u \in Stamps(Held)
  BY <1>3, <1>4, <1>5, <1>6 DEF StampsRead
<1>8. \A d \in Copiers : copies'[d].step = "idle" => copies'[d].place = "part"
  BY <1>2 DEF Laddered
<1>9. QED
  BY <1>7, <1>8 DEF Laddered

LEMMA NamelessLaddered ==
    ASSUME Shape, Laddered, NEW c \in Copiers, CopyNameless(c) \/ CopyFails(c)
    PROVE  Laddered'
<1>1. /\ files' = LeftBy(c) /\ copies' = [copies EXCEPT ![c] = Idle(c)] /\ clock' = clock
  BY DEF CopyNameless, CopyFails, GivesUp
<1>2. history'.taken = history.taken
  <2>1. HistoryOK
    BY ShapeParts
  <2>2. QED
    BY <2>1 DEF CopyNameless, CopyFails, HistoryOK
<1>3. /\ copies'[c].step = "idle" /\ copies'[c].place = "part"
      /\ \A d \in Copiers : d # c => copies'[d] = copies[d]
  BY <1>1, IdleNow
<1>4. QED
  BY <1>1, <1>2, <1>3, EndedLaddered

LEMMA EmptyLaddered ==
    ASSUME Shape, Laddered, NEW c \in Copiers, CopyEmpty(c)
    PROVE  Laddered'
<1>1. files' = LeftBy(c) /\ clock' = clock /\ history'.taken = history.taken
  BY DEF CopyEmpty, GivesUp
<1>2. CopiesOK
  BY ShapeParts
<1>3. copies'[c].step = "idle" /\ copies'[c].place = "part"
  BY <1>2, IdleTyped DEF CopyEmpty
<1>4. ASSUME NEW d \in Copiers, d # c
      PROVE  \/ copies'[d] = copies[d]
             \/ /\ copies[d].step = "copying" /\ copies[d].place = "part"
                /\ copies'[d] = [copies[d] EXCEPT !.place = "gone"]
  BY <1>4 DEF CopyEmpty, UnderItsName
<1>5. ASSUME NEW d \in Copiers, d # c
      PROVE  /\ copies'[d].step = copies[d].step /\ copies'[d].at = copies[d].at
             /\ copies'[d].kind = copies[d].kind
             /\ (copies'[d].place = "dir") = (copies[d].place = "dir")
             /\ copies[d].step = "idle" => copies'[d].place = copies[d].place
  <2>1. copies[d] \in Copies
    BY <1>2 DEF CopiesOK
  <2>2. QED
    BY <1>4, <1>5, <2>1 DEF Copies
<1>6. QED
  BY <1>1, <1>3, <1>5, EndedLaddered

LEMMA PruneLaddered ==
    ASSUME Shape, Laddered, NEW c \in Copiers, Prune(c)
    PROVE  Laddered'
<1>1. /\ files' = Pruned /\ copies' = [copies EXCEPT ![c] = Idle(c)]
      /\ history' = history /\ clock' = clock /\ copies[c].step = "named"
  BY DEF Prune
<1>2. /\ copies'[c].step = "idle" /\ copies'[c].place = "part"
      /\ \A d \in Copiers : d # c => copies'[d] = copies[d]
  BY <1>1, IdleNow
<1>3. \A d \in Copiers : (InPlace(d)' <=> InPlace(d)) /\ (InPlace(d) => copies'[d].at = copies[d].at)
  BY <1>1, <1>2 DEF InPlace
<1>4. \A f : f \in files' /\ f.kind = "listener"
             <=> f \in files /\ f.kind = "listener" /\ f.at \in Kept(Stamps(Held))
  BY <1>1 DEF Pruned, InRotation
<1>5. StampsRead /\ StampsRead'
  BY StampsAre, StampsNext
<1>6. \A u : u \in Stamps(Held)' => u \in Stamps(Held)
  BY <1>3, <1>4, <1>5 DEF StampsRead
<1>7. \A u \in Stamps(Held) : u \in Kept(Stamps(Held)) => u \in Stamps(Held)'
  BY <1>3, <1>4, <1>5 DEF StampsRead
<1>8. ASSUME NEW t \in history.taken, Wanted(history.taken, t)
      PROVE  t \in Stamps(Held)'
  <2>1. t \in Stamps(Held) /\ Stamps(Held) \in SUBSET history.taken
    BY <1>8 DEF Laddered
  <2>2. t \in Kept(Stamps(Held))
    BY <1>8, <2>1, TimesBounded, ThinnedKeeps
  <2>3. QED
    BY <1>7, <2>1, <2>2
<1>9. QED
  BY <1>1, <1>2, <1>6, <1>8 DEF Laddered

LEMMA StopLaddered ==
    ASSUME Shape, Laddered, Stop
    PROVE  Laddered'
<1>1. CopiesOK /\ HistoryOK
  BY ShapeParts
<1>2. files' = Held /\ clock' = clock /\ copies' = [c \in Copiers |-> Idle(c)]
  BY DEF Stop
<1>3. history'.taken = history.taken
  BY <1>1 DEF Stop, HistoryOK
<1>4. \A c \in Copiers : copies'[c].step = "idle" /\ copies'[c].place = "part"
  BY <1>1, <1>2, IdleTyped
<1>5. \A c \in Copiers : ~InPlace(c)'
  BY <1>4 DEF InPlace
<1>6. \A u : u \in Stamps(Held) <=> \E f \in Held : f.kind = "listener" /\ f.at = u
  BY DEF Stamps, InRotation
<1>7. StampsRead'
  BY StampsNext
<1>8. \A u : u \in Stamps(Held)' <=> u \in Stamps(Held)
  BY <1>2, <1>5, <1>6, <1>7 DEF StampsRead
<1>9. QED
  BY <1>2, <1>3, <1>4, <1>8 DEF Laddered

LEMMA StepLaddered == Shape /\ Laddered /\ [Next]_vars => Laddered'
<1> SUFFICES ASSUME Shape, Laddered, [Next]_vars PROVE Laddered'
  OBVIOUS
<1>1. copies \in [Copiers -> Copies] /\ "safety" \in Copiers /\ CopiesOK /\ HistoryOK
  <2>1. CopiesOK /\ HistoryOK
    BY ShapeParts
  <2>2. QED
    BY <2>1 DEF CopiesOK, Copiers
<1>2. ASSUME history'.taken = history.taken, files' = files, clock' = clock, copies' = copies
      PROVE  Laddered'
  BY <1>2, UntouchedStays DEF Untouched, InPlace, Laddered
<1>3. CASE ThreadBegins
  <2>1. history'.taken = history.taken
    BY <1>1, <1>3 DEF ThreadBegins, Clashing, HistoryOK
  <2>2. QED
    BY <1>3, <2>1, BegunLaddered DEF ThreadBegins, MayBegin, Copiers
<1>4. CASE ExportBegins
  <2>1. history'.taken = history.taken
    BY <1>1, <1>4 DEF ExportBegins, Clashing, HistoryOK
  <2>2. QED
    BY <1>4, <2>1, BegunLaddered DEF ExportBegins, MayBegin, Copiers
<1>5. CASE SaveFirst
  BY <1>1, <1>5, BegunLaddered DEF SaveFirst, MayBegin
<1>6. ASSUME NEW f \in Held, ByHand(f) PROVE Laddered'
  <2>1. history'.taken = history.taken
    BY <1>1, <1>6 DEF ByHand, HistoryOK
  <2>2. QED
    BY <1>1, <1>6, <2>1, BegunLaddered DEF ByHand, MayBegin
<1>7. ASSUME NEW c \in Copiers, CopyTable(c) PROVE Laddered'
  <2>1. \A d \in Copiers : /\ copies'[d].place = copies[d].place /\ copies'[d].step = copies[d].step
                           /\ copies'[d].at = copies[d].at /\ copies'[d].kind = copies[d].kind
    BY <1>1, <1>7 DEF CopyTable, Copies
  <2>2. QED
    BY <1>7, <2>1, UntouchedStays DEF CopyTable, Untouched, InPlace, Laddered
<1>8. ASSUME NEW c \in Copiers, PassOver(c) PROVE Laddered'
  <2>1. \A d \in Copiers : /\ copies'[d].place = copies[d].place /\ copies'[d].step = copies[d].step
                           /\ copies'[d].at = copies[d].at /\ copies'[d].kind = copies[d].kind
    BY <1>1, <1>8 DEF PassOver, Copies
  <2>2. history'.taken = history.taken
    BY <1>1, <1>8 DEF PassOver, HistoryOK
  <2>3. QED
    BY <1>8, <2>1, <2>2, UntouchedStays DEF PassOver, Untouched, InPlace, Laddered
<1>9. ASSUME NEW c \in Copiers,
             \/ CopyNamed(c) \/ CopyNameless(c) \/ CopyFails(c) \/ CopyEmpty(c) \/ Prune(c)
      PROVE  Laddered'
  BY <1>9, NamedLaddered, NamelessLaddered, EmptyLaddered, PruneLaddered
<1>10. ASSUME NEW f \in Held, Stage(f) PROVE Laddered'
  BY <1>1, <1>2, <1>10 DEF Stage, HistoryOK
<1>11. CASE Unstage \/ Start \/ TakeDown \/ NoLongerThere \/ Say
  BY <1>2, <1>11 DEF Unstage, Start, TakeDown, NoLongerThere, Say
<1>12. CASE CannotTakeDown \/ RestoreFails
  BY <1>1, <1>2, <1>12 DEF CannotTakeDown, RestoreFails, HistoryOK
<1>13. CASE Restore
  <2>1. history'.taken = history.taken
    BY <1>1, <1>13 DEF Restore, HistoryOK
  <2>2. QED
    BY <1>2, <1>13, <2>1 DEF Restore
<1>14. CASE Tick
  <2>1. \A c \in Copiers : /\ copies'[c].place = copies[c].place /\ copies'[c].step = copies[c].step
                           /\ copies[c].step = "copying" => copies'[c] = copies[c]
    BY <1>1, <1>14 DEF Tick, Copies
  <2>2. QED
    BY <1>14, <2>1, UntouchedStays DEF Tick, Untouched, InPlace, Laddered
<1>15. CASE Stop
  BY <1>15, StopLaddered
<1>16. ASSUME NEW t \in 1..Tables, Listen(t) PROVE Laddered'
  BY <1>1, <1>2, <1>16 DEF Listen, HistoryOK
<1>17. CASE UNCHANGED vars
  BY <1>2, <1>17 DEF vars
<1>18. QED
  BY <1>3, <1>4, <1>5, <1>6, <1>7, <1>8, <1>9, <1>10, <1>11, <1>12, <1>13, <1>14, <1>15, <1>16,
     <1>17 DEF Next

(* However often the snapshots were thinned, and wherever the process      *)
(* stopped, the ladder has what one thinning of all would leave (prune).   *)
THEOREM LadderIsKept == Spec => []LadderKept
<1>1. Init => Shape /\ Laddered
  BY InitShape, InitLaddered
<1>2. Shape /\ Laddered /\ [Next]_vars => (Shape /\ Laddered)'
  BY StepShape, StepLaddered
<1>3. Shape /\ Laddered => LadderKept
  <2> SUFFICES ASSUME Shape, Laddered, NEW t \in history.taken,
                      \/ LastIn(t, DayLength) /\ Cardinality(Later(t, DayLength)) < KeepDays
                      \/ LastIn(t, MonthLength) /\ Cardinality(Later(t, MonthLength)) < KeepMonths
                      \/ LastIn(t, YearLength)
               PROVE  \E f \in Held : f.kind = "listener" /\ f.at = t
    BY DEF LadderKept
  <2>1. \A length : /\ LastIn(t, length) <=> LastOf(history.taken, t, length)
                    /\ Later(t, length) = Since(history.taken, t, length)
    BY DEF LastIn, LastOf, Later, Since, Periods
  <2>2. Wanted(history.taken, t)
    BY <2>1 DEF Wanted
  <2>3. t \in Stamps(Held)
    BY <2>2 DEF Laddered
  <2>4. QED
    BY <2>3 DEF Stamps, InRotation
<1>4. QED
  BY <1>1, <1>2, <1>3, PTL DEF Spec
=============================================================================
