------------------------------ MODULE Backups -------------------------------
(***************************************************************************)
(* The listening kept safe (backup.rs): snapshots taken by a thread of the *)
(* player while it writes, and for an export; their rotation; and putting  *)
(* one back, staged by a page for the next start or by hand with           *)
(* restore_listener.  The process may stop at any point of this.           *)
(*                                                                         *)
(* A table stands as the number of the write it was last changed by, and   *)
(* as LeftOut in a snapshot that passed it over.  The clock's unit stands  *)
(* for an hour and for the second of a name at once, and days, months and  *)
(* years are so many of it, each a part of the next.                       *)
(*                                                                         *)
(* Beside some definitions stands an altered form, as a plausible mistake  *)
(* would have written it; no specification refers to one.                  *)
(***************************************************************************)
EXTENDS Naturals, Sequences, FiniteSets

CONSTANTS
    Tables,         \* how many of LISTENER_TABLES are told apart
    LeftOut,        \* what a snapshot holds of a table it passed over
    DayLength, MonthLength, YearLength,     \* in units of the clock
    KeepDays, KeepMonths,
    FirstClock,     \* when it all begins, somewhere in a year
    MaxClock, MaxWrites, MaxExports, MaxStages, MaxStops, MaxFaults,
    MaxEvents       \* bound: all but the seconds together

ASSUME CalendarAssumption ==
    /\ {Tables, DayLength, MonthLength, YearLength, KeepDays, KeepMonths} \subseteq Nat \ {0}
    /\ MonthLength % DayLength = 0 /\ YearLength % MonthLength = 0
ASSUME LeftOutAssumption == LeftOut \notin Nat
ASSUME BoundsAssumption ==
    /\ MaxClock \in Nat \ {0} /\ FirstClock \in 1..MaxClock
    /\ {MaxWrites, MaxExports, MaxStages, MaxStops, MaxFaults, MaxEvents} \subseteq Nat

VARIABLES
    clock,          \* what snapshots are named by
    listener,       \* the listener's file
    files,          \* listener-backups: the snapshots under their own names
    copies,         \* what each copier is writing
    staged,         \* restore-staged
    outcome,        \* restore-outcome
    player,         \* how far the process is in starting, or a restore by hand
    history         \* bounds, and what the properties look back at

vars == <<clock, listener, files, copies, staged, outcome, player, history>>

\* The backup thread, an export, and the copy taken before a restore.
Copiers == {"thread", "export", "safety"}

Nothing == [kind |-> "nothing", at |-> 0, nth |-> 0]
Idle(c) == [copies[c] EXCEPT !.step = "idle", !.holds = <<>>, !.place = "part"]

MoreHappens ==
    history.writes + history.exports + history.stages + history.stops + history.faults < MaxEvents
May(what, most) == history[what] < most /\ MoreHappens

Name(x) == <<x.kind, x.at>>
FileOf(x) == [kind |-> x.kind, at |-> x.at, holds |-> x.holds]

\* held, and read_dir in prune: what is there under a snapshot's name, a copy
\* whose file another has renamed included.
Renamed == {c \in Copiers : copies[c].step = "copying" /\ copies[c].place = "dir"}
Held == files \cup {FileOf(copies[c]) : c \in Renamed}
Find(name) == {f \in Held : Name(f) = name}

Init ==
    /\ clock = FirstClock /\ files = {} /\ staged = Nothing /\ outcome = "none"
    /\ listener = [t \in 1..Tables |-> 0]
    /\ copies = [c \in Copiers |-> [step |-> "idle", place |-> "part", at |-> 0, holds |-> <<>>,
                                    kind |-> IF c = "safety" THEN "prerestore" ELSE "listener"]]
    /\ player = [step |-> "down", by |-> "start", name |-> Nothing, before |-> 0]
    /\ history = [writes |-> 0, exports |-> 0, stages |-> 0, stops |-> 0, faults |-> 0,
                  clashed |-> FALSE, unread |-> {}, taken |-> {}, overwritten |-> {},
                  putBack |-> [n \in 0..MaxStages |-> 0]]

-----------------------------------------------------------------------------
(* Rotation *)

\* One snapshot on the way down the ladder, the newest first.
Looked(k, t) ==
    LET day == t \div DayLength
        month == t \div MonthLength
        year == t \div YearLength
        daily == day \notin k.days /\ Cardinality(k.days) < KeepDays
        monthly == month \notin k.months /\ Cardinality(k.months) < KeepMonths
        yearly == year \notin k.years
    IN [days |-> IF daily THEN k.days \cup {day} ELSE k.days,
        months |-> IF monthly THEN k.months \cup {month} ELSE k.months,
        years |-> k.years \cup {year},
        keep |-> IF k.keep = {} \/ daily \/ monthly \/ yearly THEN k.keep \cup {t} ELSE k.keep]

\* Altered: the wrong end first, so that a period keeps its earliest.
OldestFirst(n) == n

\* sort_by: of all that a stamp may be, what comes n-th.
NewestFirst(n) == MaxClock + 1 - n

\* The ladder is climbed down over the stamps in that order, as one function that
\* proofs can go through step by step.
Kept(stamps) ==
    LET after[n \in 0..MaxClock] ==
            IF n = 0 THEN [days |-> {}, months |-> {}, years |-> {}, keep |-> {}]
            ELSE IF NewestFirst(n) \in stamps THEN Looked(after[n - 1], NewestFirst(n))
            ELSE after[n - 1]
    IN after[MaxClock].keep

\* Altered: a copy taken before a restore is rotated with the others.
AnySnapshot(f) == TRUE

\* stamp_of knows the rotation's own snapshots and no other.
InRotation(f) == f.kind = "listener"

Stamps(fs) == {f.at : f \in {g \in fs : InRotation(g)}}
Pruned == {f \in files : InRotation(f) => f.at \in Kept(Stamps(Held))}

-----------------------------------------------------------------------------
(* A snapshot *)

\* A copier makes one in a unit of the clock.
MayBegin(c) == copies[c].step = "idle" /\ copies[c].at < clock

\* Whoever is writing under the temporary name that c would take now.
Before(c) == {d \in Copiers \ {c} : /\ copies[d].step = "copying" /\ copies[d].place = "part"
                                     /\ copies[d].kind = copies[c].kind /\ copies[d].at = clock}

\* Altered: made under its own name from the start.
BegunOpenly(c) ==
    [copies EXCEPT ![c] = [@ EXCEPT !.step = "copying", !.at = clock, !.place = "dir"]]

\* The file is made under a temporary name; one of that name is removed first.
Begun(c) ==
    [d \in Copiers |->
        IF d = c THEN [copies[c] EXCEPT !.step = "copying", !.at = clock]
        ELSE IF d \in Before(c) THEN [copies[d] EXCEPT !.place = "gone"]
        ELSE copies[d]]

Clashing(c) == [history EXCEPT !.clashed = @ \/ Before(c) # {}]

\* spawn_backup: at the start, and then every hour.
ThreadBegins ==
    /\ player.step = "up" /\ MayBegin("thread")
    /\ copies' = Begun("thread")
    /\ history' = Clashing("thread")
    /\ UNCHANGED <<clock, listener, files, staged, outcome, player>>

\* for_export, which takes one of its own before it chooses.
ExportBegins ==
    /\ player.step = "up" /\ May("exports", MaxExports) /\ MayBegin("export")
    /\ copies' = Begun("export")
    /\ history' = [Clashing("export") EXCEPT !.exports = @ + 1]
    /\ UNCHANGED <<clock, listener, files, staged, outcome, player>>

\* Each table is copied as it stands by then.
CopyTable(c) ==
    /\ copies[c].step = "copying" /\ Len(copies[c].holds) < Tables
    /\ copies' = [copies EXCEPT ![c].holds = Append(@, listener[Len(@) + 1])]
    /\ UNCHANGED <<clock, listener, files, staged, outcome, player, history>>

\* The question whether a table exists fails, which reads as that it does not
\* (unwrap_or(0)): the copy goes on without it.
PassOver(c) ==
    /\ copies[c].step = "copying" /\ Len(copies[c].holds) < Tables /\ May("faults", MaxFaults)
    /\ copies' = [copies EXCEPT ![c].holds = Append(@, LeftOut)]
    /\ history' = [history EXCEPT !.faults = @ + 1,
                       !.unread = @ \cup {<<Name(copies[c]), Len(copies[c].holds) + 1>>}]
    /\ UNCHANGED <<clock, listener, files, staged, outcome, player>>

\* What has a copier's temporary name: its own file, or one made since.
UnderItsName(c) == {d \in Copiers : /\ copies[d].step = "copying" /\ copies[d].place = "part"
                                    /\ Name(copies[d]) = Name(copies[c])}

\* Altered: the start goes on waiting for the copy.
NotTold(c, step) == player

\* What put_back goes on with, and the copy it says the listening is kept as.
AfterSafety(c, step) ==
    IF c = "safety" THEN [player EXCEPT !.step = step, !.before = copies[c].at] ELSE player

\* Where the process is once put_back is over.
Afterwards == IF player.by = "hand" THEN "down" ELSE "up"

\* Every table has been asked for, and none was copied.
Through(c) == copies[c].step = "copying" /\ Len(copies[c].holds) = Tables
Empty(c) == \A t \in 1..Tables : copies[c].holds[t] = LeftOut

\* What a copier that ends without renaming leaves: its own file where it is,
\* if another has given it a snapshot's name.
LeftBy(c) == files \cup (IF c \in Renamed THEN {FileOf(copies[c])} ELSE {})

CopyNamed(c) ==
    /\ Through(c) /\ ~Empty(c)
    /\ \E d \in UnderItsName(c) :
          /\ files' = {f \in files : Name(f) # Name(copies[c])}
                       \cup (IF d = c THEN {FileOf(copies[c])} ELSE {})
          /\ LET left == IF d = c THEN copies ELSE [copies EXCEPT ![d].place = "dir"]
             IN copies' = [left EXCEPT ![c] =
                             IF c = "safety" THEN Idle(c) ELSE [@ EXCEPT !.step = "named"]]
    /\ history' = IF c = "safety" THEN history
                  ELSE [history EXCEPT !.taken = @ \cup {copies[c].at}]
    /\ player' = AfterSafety(c, "saved")
    /\ UNCHANGED <<clock, listener, staged, outcome>>

\* There is nothing under that name to rename.
CopyNameless(c) ==
    /\ Through(c) /\ ~Empty(c) /\ UnderItsName(c) = {}
    /\ files' = LeftBy(c)
    /\ copies' = [copies EXCEPT ![c] = Idle(c)]
    /\ UNCHANGED <<clock, listener, staged, outcome, player, history>>

\* prune, whose failures are silent and which no copy before a restore runs.
Prune(c) ==
    /\ copies[c].step = "named"
    /\ files' = Pruned
    /\ copies' = [copies EXCEPT ![c] = Idle(c)]
    /\ UNCHANGED <<clock, listener, staged, outcome, player, history>>

\* No copy, and so no restore.
GivesUp(c) ==
    /\ files' = LeftBy(c)
    /\ player' = AfterSafety(c, Afterwards)
    /\ outcome' = IF c = "safety" /\ player.by = "start" THEN "not restored" ELSE outcome

\* The disk is full, or the library is busy for too long as a table is read.
CopyFails(c) ==
    /\ copies[c].step = "copying" /\ May("faults", MaxFaults)
    /\ copies' = [copies EXCEPT ![c] = Idle(c)]
    /\ GivesUp(c)
    /\ history' = [history EXCEPT !.faults = @ + 1]
    /\ UNCHANGED <<clock, listener, staged>>

\* No table was copied: what has the temporary name is removed, whoever's.
CopyEmpty(c) ==
    /\ Through(c) /\ Empty(c)
    /\ copies' = [d \in Copiers |->
                     IF d = c THEN Idle(c)
                     ELSE IF d \in UnderItsName(c) THEN [copies[d] EXCEPT !.place = "gone"]
                     ELSE copies[d]]
    /\ GivesUp(c)
    /\ UNCHANGED <<clock, listener, staged, history>>

-----------------------------------------------------------------------------
(* Putting one back *)

\* stage: rehearsed first, which takes a snapshot for what it holds.
Stage(f) ==
    /\ player.step = "up" /\ May("stages", MaxStages)
    /\ history' = [history EXCEPT !.stages = @ + 1]
    /\ staged' = [kind |-> f.kind, at |-> f.at, nth |-> history.stages + 1]
    /\ UNCHANGED <<clock, listener, files, copies, outcome, player>>

Unstage ==
    /\ player.step = "up" /\ staged # Nothing
    /\ staged' = Nothing
    /\ UNCHANGED <<clock, listener, files, copies, outcome, player, history>>

\* Player::start: apply_staged comes before anything opens the file to write.
Start ==
    /\ player.step = "down"
    /\ player' = [step |-> IF staged = Nothing THEN "up" ELSE "read", by |-> "start",
                  name |-> staged, before |-> 0]
    /\ UNCHANGED <<clock, listener, files, copies, staged, outcome, history>>

\* Altered: it is left for later.
LeaveUp ==
    /\ player.step = "read"
    /\ player' = [player EXCEPT !.step = "taken"]
    /\ UNCHANGED <<clock, listener, files, copies, staged, outcome, history>>

\* The stage comes down before anything else; if it cannot, nothing is done.
TakeDown ==
    /\ player.step = "read"
    /\ staged' = Nothing
    /\ player' = [player EXCEPT !.step = "taken"]
    /\ UNCHANGED <<clock, listener, files, copies, outcome, history>>

CannotTakeDown ==
    /\ player.step = "read" /\ May("faults", MaxFaults)
    /\ player' = [player EXCEPT !.step = "up"] /\ outcome' = "not restored"
    /\ history' = [history EXCEPT !.faults = @ + 1]
    /\ UNCHANGED <<clock, listener, files, copies, staged>>

\* put_back: the snapshot is looked for, and what stands is saved first.
SaveFirst ==
    /\ player.step = "taken" /\ Find(Name(player.name)) # {} /\ MayBegin("safety")
    /\ copies' = Begun("safety")
    /\ player' = [player EXCEPT !.step = "saving"]
    /\ UNCHANGED <<clock, listener, files, staged, outcome, history>>

NoLongerThere ==
    /\ player.step = "taken" /\ Find(Name(player.name)) = {}
    /\ player' = [player EXCEPT !.step = "up"] /\ outcome' = "not restored"
    /\ UNCHANGED <<clock, listener, files, copies, staged, history>>

\* restore_listener --apply, with no player running.
ByHand(f) ==
    /\ player.step = "down" /\ MayBegin("safety") /\ May("stages", MaxStages)
    /\ copies' = Begun("safety")
    /\ player' = [step |-> "saving", by |-> "hand", before |-> 0,
                  name |-> [kind |-> f.kind, at |-> f.at, nth |-> history.stages + 1]]
    /\ history' = [history EXCEPT !.stages = @ + 1]
    /\ UNCHANGED <<clock, listener, files, staged, outcome>>

\* restore, in one transaction: the tables the snapshot holds, and no other.
Restore ==
    /\ player.step = "saved"
    /\ \E f \in Find(Name(player.name)) :
          listener' = [t \in 1..Tables |->
                         IF t <= Len(f.holds) /\ f.holds[t] # LeftOut THEN f.holds[t]
                         ELSE listener[t]]
    /\ player' = [player EXCEPT !.step = IF player.by = "hand" THEN "down" ELSE "restored"]
    /\ history' = [history EXCEPT !.overwritten = @ \cup {[was |-> listener, before |-> player.before]},
                                  !.putBack[player.name.nth] = @ + 1]
    /\ UNCHANGED <<clock, files, copies, staged, outcome>>

RestoreFails ==
    /\ player.step = "saved" /\ May("faults", MaxFaults)
    /\ player' = [player EXCEPT !.step = Afterwards]
    /\ outcome' = IF player.by = "start" THEN "not restored" ELSE outcome
    /\ history' = [history EXCEPT !.faults = @ + 1]
    /\ UNCHANGED <<clock, listener, files, copies, staged>>

Say ==
    /\ player.step = "restored"
    /\ player' = [player EXCEPT !.step = "up"] /\ outcome' = "restored"
    /\ UNCHANGED <<clock, listener, files, copies, staged, history>>

-----------------------------------------------------------------------------
(* The world *)

\* The thread of a player that is up misses none of its hours.
Tick ==
    /\ clock < MaxClock /\ clock' = clock + 1
    /\ player.step = "up" => copies["thread"].at = clock
    /\ copies' = [c \in Copiers |-> IF copies[c].step = "idle" THEN [copies[c] EXCEPT !.at = 0]
                                    ELSE copies[c]]
    /\ UNCHANGED <<listener, files, staged, outcome, player, history>>

\* The player writes one table, in a transaction of its own.
Listen(t) ==
    /\ player.step = "up" /\ May("writes", MaxWrites)
    /\ history' = [history EXCEPT !.writes = @ + 1]
    /\ listener' = [listener EXCEPT ![t] = history.writes + 1]
    /\ UNCHANGED <<clock, files, copies, staged, outcome, player>>

\* The process ends: asked to, or for want of power.
Stop ==
    /\ player.step # "down" /\ May("stops", MaxStops)
    /\ player' = [player EXCEPT !.step = "down"]
    /\ files' = Held
    /\ copies' = [c \in Copiers |-> Idle(c)]
    /\ history' = [history EXCEPT !.stops = @ + 1]
    /\ UNCHANGED <<clock, listener, staged, outcome>>

Next ==
    \/ ThreadBegins \/ ExportBegins
    \/ \E c \in Copiers :
          \/ CopyTable(c) \/ PassOver(c) \/ CopyFails(c)
          \/ CopyNamed(c) \/ CopyNameless(c) \/ CopyEmpty(c) \/ Prune(c)
    \/ \E f \in Held : Stage(f) \/ ByHand(f)
    \/ Unstage \/ Start \/ TakeDown \/ CannotTakeDown \/ SaveFirst \/ NoLongerThere
    \/ Restore \/ RestoreFails \/ Say
    \/ Tick \/ Stop \/ \E t \in 1..Tables : Listen(t)

Spec == Init /\ [][Next]_vars

-----------------------------------------------------------------------------
(* Properties *)

\* Types, and that a start or a restore by hand waits for its copy exactly while
\* that is being made.
TypeOK ==
    /\ (player.step = "saving") = (copies["safety"].step = "copying")
    /\ clock \in 1..MaxClock /\ listener \in [1..Tables -> 0..MaxWrites]
    /\ \A f \in files : /\ f.kind \in {"listener", "prerestore"} /\ f.at \in 1..clock
                        /\ f.holds \in Seq((0..MaxWrites) \cup {LeftOut})
                        /\ Len(f.holds) <= Tables
    /\ \A c \in Copiers : /\ copies[c].step \in {"idle", "copying", "named"}
                          /\ copies[c].place \in {"part", "dir", "gone"}
    /\ staged = Nothing \/ Name(staged) \in {"listener", "prerestore"} \X (1..clock)
    /\ outcome \in {"none", "restored", "not restored"}
    /\ player.step \in {"down", "read", "taken", "saving", "saved", "restored", "up"}

Later(t, length) == {u \div length : u \in history.taken} \ (0..(t \div length))
LastIn(t, length) == \A u \in history.taken : u \div length = t \div length => u <= t

\* However often the snapshots were thinned, and whenever the process stopped
\* between a snapshot and its thinning, the last one of each of the latest
\* days, of the latest months and of every year is there, as if all that were
\* ever taken had been thinned at once.
LadderKept ==
    \A t \in history.taken :
        (\/ LastIn(t, DayLength) /\ Cardinality(Later(t, DayLength)) < KeepDays
         \/ LastIn(t, MonthLength) /\ Cardinality(Later(t, MonthLength)) < KeepMonths
         \/ LastIn(t, YearLength))
            => \E f \in Held : f.kind = "listener" /\ f.at = t

\* Every table is in it, but where the question whether it exists failed.
Holds(f, t) == f.holds[t] # LeftOut \/ <<Name(f), t>> \in history.unread
Whole(f) == Len(f.holds) = Tables /\ \A t \in 1..Tables : Holds(f, t)

\* A snapshot that was not finished never looks like one that was, whatever
\* stopped it: what has its name holds every table, but one whose existence
\* could not be asked -- and but for two that were begun in one second, of
\* which the first to finish takes the other's file for its own.
OnlyWholeSnapshots == ~history.clashed => \A f \in Held : Whole(f)

\* What a restore wrote over is kept in the copy that it names, table by table
\* as it was but for one whose existence could not be asked, and no later
\* snapshot rotates that copy away.
WhatWasIsKept ==
    \A o \in history.overwritten : \E f \in Held :
        /\ f.kind = "prerestore" /\ f.at = o.before /\ Whole(f)
        /\ \A t \in 1..Tables : f.holds[t] \in {o.was[t], LeftOut}

\* A staged snapshot is put back at most once, wherever the process stops, and
\* so never over what was heard since.
PutBackOnce == \A n \in 1..MaxStages : history.putBack[n] <= 1

\* What is staged, and was found good when it was, is there to be put back.
StagedIsThere == staged # Nothing => Find(Name(staged)) # {}
=============================================================================
