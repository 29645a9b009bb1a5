------------------------------- MODULE Engine -------------------------------
(***************************************************************************)
(* The local playback engine, player/src/engine: one thread that takes     *)
(* commands, admits passages from the queue to the mixer, mixes them into  *)
(* the output ring, judges what has been heard, moves the display and      *)
(* writes the resume point; beside it the device, which takes samples from *)
(* the ring whenever it likes; and a power cut, which may come at any      *)
(* instant and leaves only the disk.                                       *)
(*                                                                         *)
(* Time is counted in units: a passage is Length[p] units long, the mixer  *)
(* mixes one unit a pass and the device takes one.  The ring is the        *)
(* sequence of units not yet taken; each is the set of contributions       *)
(* [adm, at] of the admissions mixed into it, which is what the code's     *)
(* timeline of segments records (engine/timeline.rs).  An admission is the *)
(* number Engine::admissions gave it, and roll[adm] its passage.  The      *)
(* mixer is the set of contributions it would make next: the code keeps    *)
(* them in order of admission, so its first is the eldest.                 *)
(***************************************************************************)
EXTENDS QueueOps, FiniteSets

CONSTANTS
    Passages,       \* the offerings; each is queued at most once
    Length,         \* units of each passage
    LeadIn, LeadOut,
    Unopenable,     \* passages whose file does not open
    Picked,         \* passages a person chose, not the Director
    RingCap,        \* units the ring holds
    Fade, Lead,     \* a skip keeps Fade units and lays the next Lead along
    FourMinutes,    \* the cap of the play threshold
    PowerOff,       \* whether a queued shutdown powers the machine off
    Asks,           \* the commands and mishaps of this configuration
    MaxAsks,        \* bound: how many of them
    SeekPoints      \* bound: the places seeks and handovers land on

ASSUME PassagesAssumption == Shutdown \notin Passages
ASSUME SpanAssumption ==
    /\ Length \in [Passages -> Nat \ {0}]
    /\ LeadIn \in [Passages -> Nat] /\ LeadOut \in [Passages -> Nat]
ASSUME DeviceAssumption ==
    /\ RingCap \in Nat \ {0} /\ Fade \in Nat /\ Lead \in Nat \ {0}
    /\ FourMinutes \in Nat /\ PowerOff \in BOOLEAN
    /\ MaxAsks \in Nat /\ SeekPoints \subseteq Nat
    /\ Unopenable \subseteq Passages /\ Picked \subseteq Passages

Nobody == "nobody"      \* no passage
Nowhere == -1           \* no position

ASSUME NobodyAssumption == Nobody \notin Passages

VARIABLES
    pc,             \* where the engine thread is in its pass, or "down"
    queue,          \* Engine::queue: passages and the shutdown
    live,           \* Engine::live: [adm, at], at = mixed so far
    roll,           \* the passage of every admission, in order
    pendingResume,  \* Engine::pending_resume
    playing,        \* Engine::playing, and the device's silent flag
    ring,           \* the output ring, with the timeline's cover of it
    heardEnd,       \* per admission, where the device last was in it (0: never)
    lastHeard,      \* the admission heard last (0: none)
    shown,          \* Engine::shown, as an admission (0: nothing)
    announced,      \* Engine::announced (0: none)
    head,           \* Engine::head, the passage being judged
    headAdm,        \* Engine::head_admitted
    heard,          \* Engine::heard_ms
    heardFrom,      \* Engine::heard_from
    recorded,       \* Engine::recorded
    handingOver,    \* Engine::handing_over
    countedElsewhere, \* Engine::counted_elsewhere
    guestCounted,   \* MpdBackend::counted_elsewhere
    saved,          \* Engine::saved, the key of the last resume point written
    shutdownSaved,  \* Engine::shutdown_saved
    disk,           \* what lempi.db holds of player_state and player_queue
    away,           \* passages carried to the other backend
    active,         \* the backend in charge: "local" or "guest"
    \* What really happened, for the properties.
    reports,        \* per passage, the verdicts given on it, oldest first
    listened,       \* per passage, the units of it a listener was played
    offered,        \* the passages ever queued
    resumeFor,      \* the passage the pending resume was meant for
    unlooked,       \* units the device took since the engine last looked
    asked           \* commands and mishaps so far

mixer == <<live, roll, pendingResume>>
output == <<ring, heardEnd, lastHeard>>
display == <<shown, announced>>
judgement == <<head, headAdm, heard, heardFrom, recorded>>
handover == <<handingOver, countedElsewhere, guestCounted, away, active>>
store == <<saved, shutdownSaved, disk>>
history == <<reports, listened, offered, resumeFor>>
vars == <<pc, queue, mixer, playing, output, display, judgement, handover,
          store, history, unlooked, asked>>

-----------------------------------------------------------------------------
(* The timeline: what the device is playing, read off the ring.            *)

Covering == IF ring = <<>> THEN {} ELSE Head(ring)

Latest(unit) == CHOOSE c \in unit : \A d \in unit : d.adm <= c.adm
Eldest(unit) == CHOOSE c \in unit : \A d \in unit : c.adm <= d.adm

\* Timeline::audible_at the read position; adm 0 where nothing was ever heard.
Audible ==
    IF Covering # {}
    THEN [adm |-> Latest(Covering).adm, at |-> Latest(Covering).at, ended |-> FALSE]
    ELSE [adm |-> lastHeard, ended |-> TRUE,
          at |-> IF lastHeard = 0 THEN 0 ELSE heardEnd[lastHeard]]

\* Timeline::heard_to.
HeardTo(adm) ==
    IF \E c \in Covering : c.adm = adm
    THEN (CHOOSE c \in Covering : c.adm = adm).at
    ELSE IF heardEnd[adm] > 0 THEN heardEnd[adm] ELSE Nowhere

LivePassages == {roll[c.adm] : c \in live}

\* Altered forms of HeardNow: judging the mixer's head; an underrun taken for
\* a departure; what has ended heard for ever.
MixerHead ==
    IF live = {} THEN [adm |-> 0, at |-> 0, ended |-> TRUE]
    ELSE [adm |-> Eldest(live).adm, at |-> Eldest(live).at, ended |-> FALSE]
UnderrunDeparts ==
    IF Audible.ended THEN [adm |-> 0, at |-> 0, ended |-> TRUE] ELSE Audible
EndedStillHeard == Audible

\* Engine::heard_now: an ended passage still counts as heard while the mixer
\* has it, an underrun being a stall and not a departure.
HeardNow ==
    IF /\ Audible.ended
       /\ Audible.adm # 0 => roll[Audible.adm] \notin LivePassages
    THEN [adm |-> 0, at |-> 0, ended |-> TRUE]
    ELSE Audible

Forgotten(units, adms) ==
    [i \in 1..Len(units) |-> {c \in units[i] : c.adm \notin adms}]

\* scrobble::counts_as_play.
CountsAsPlay(units, span) ==
    span > 0 /\ units >= Least(span \div 2, FourMinutes)

Told(p, verdict, units) ==
    [reports EXCEPT ![p] = Append(@, [verdict |-> verdict, heard |-> units])]

AllDropped(ps) ==
    [p \in Passages |->
        IF p \in ps THEN Append(reports[p], [verdict |-> "dropped", heard |-> 0])
        ELSE reports[p]]

-----------------------------------------------------------------------------
(* Admission: admit_due, from a queue q into a mixer l.                    *)

\* Whether passage p may follow what the mixer l holds.
MayFollow(p, l) ==
    l = {} \/ LET out == roll[Latest(l).adm]
              IN  ShouldAdmit(Length[out], Latest(l).at,
                      Overlap(LeadOut[out], LeadIn[p], Length[out], Length[p]))

Due(q, l) == q # <<>> /\ Head(q) # Shutdown /\ MayFollow(Head(q), l)

Opened(at) == [adm |-> Len(roll) + 1, at |-> at]

Origin(p) ==
    IF pendingResume = Nowhere THEN 0 ELSE Least(pendingResume, Length[p] - 1)

Admission(q, l) ==
    IF ~Due(q, l)
    THEN [queue |-> q, live |-> l, roll |-> roll, resume |-> pendingResume, dropped |-> {}]
    ELSE IF Head(q) \in Unopenable
    THEN [queue |-> Tail(q), live |-> l, roll |-> roll, resume |-> Nowhere, dropped |-> {Head(q)}]
    ELSE [queue |-> Tail(q), live |-> l \cup {Opened(Origin(Head(q)))},
          roll |-> Append(roll, Head(q)), resume |-> Nowhere, dropped |-> {}]

\* prepare_next drops an unopenable head before it is due.
BadHead(a) ==
    /\ a.resume = Nowhere /\ a.queue # <<>>
    /\ Head(a.queue) \in Unopenable

-----------------------------------------------------------------------------
(* The ring cut: cut_ring_to_incoming and begin_skip_transition.           *)

Kept(units) == SubSeq(units, 1, Least(Len(units), Fade))

\* How much of the incoming passage the cut asks for.
Wanted(units) == IF Len(Kept(units)) > Lead THEN Len(Kept(units)) - Lead ELSE 0

\* The contributions l, n units on.
On(l, n) == {[c EXCEPT !.at = @ + n] : c \in l}

\* The ring cut to its fade, n units of the newcomer l laid over its tail.
CutOver(units, l, n) ==
    [i \in 1..Len(Kept(units)) |->
        units[i] \cup (IF i > Lead /\ i <= Lead + n THEN On(l, i - Lead - 1)
                       ELSE {})]

\* What the newcomer had decoded by the time of the cut: all that was wanted,
\* or nothing where its file was slow to seek.
Decoded(units, l, r) ==
    {0} \cup {Least(Wanted(units), Length[r[c.adm]] - c.at) : c \in l}

NewAdmissions(r) == heardEnd \o [i \in 1..(Len(r) - Len(roll)) |-> 0]

-----------------------------------------------------------------------------
(* skip(), with the queue standing at q.                                   *)

SkipNothing(q) ==
    /\ live = {}
    /\ queue' = q
    /\ UNCHANGED <<mixer, output, display, reports>>

NextIsShutdown(q) == q # <<>> /\ Head(q) = Shutdown

\* The shutdown is next: fade out and leave it to be reached.
SkipToShutdown(q) ==
    /\ live # {} /\ NextIsShutdown(q)
    /\ queue' = q
    /\ live' = {}
    /\ shown' = 0 /\ announced' = Len(roll) + 1
    /\ ring' = Kept(ring)
    /\ UNCHANGED <<roll, pendingResume, heardEnd, lastHeard, reports>>

\* Altered form of Unheard: the queueing marks are not given back.
ForgetsNothing == {}

\* Admissions in the mixer nobody has heard anything of.
Unheard == {c.adm : c \in {d \in live : HeardTo(d.adm) = Nowhere}}

SkipToNext(q) ==
    /\ live # {} /\ ~NextIsShutdown(q)
    /\ LET a == Admission(q, {})
           left == Forgotten(ring, Unheard)
       IN  \E n \in Decoded(left, a.live, a.roll) :
             /\ queue' = a.queue
             /\ live' = On(a.live, n)
             /\ roll' = a.roll
             /\ pendingResume' = a.resume
             /\ ring' = CutOver(left, a.live, n)
             /\ heardEnd' = NewAdmissions(a.roll)
             /\ shown' = IF a.live = {} THEN 0 ELSE Len(a.roll)
             /\ announced' = Len(roll) + 1
             /\ reports' = AllDropped({roll[adm] : adm \in Unheard} \cup a.dropped)
    /\ UNCHANGED lastHeard

SkipFrom(q) == SkipNothing(q) \/ SkipToShutdown(q) \/ SkipToNext(q)

-----------------------------------------------------------------------------
(* Commands, taken at the start of a pass: drain_commands.                 *)

\* A command the listener gives; the bound is on how many.
Asking(what) ==
    /\ pc = "commands" /\ active = "local"
    /\ what \in Asks /\ asked < MaxAsks
    /\ asked' = asked + 1

Play ==
    /\ Asking("play") /\ ~playing
    /\ playing' = TRUE
    /\ shutdownSaved' = FALSE
    /\ UNCHANGED <<pc, queue, mixer, output, display, judgement, handover,
                   saved, disk, history, unlooked>>

Pause ==
    /\ Asking("pause") /\ playing
    /\ playing' = FALSE
    /\ UNCHANGED <<pc, queue, mixer, output, display, judgement, handover,
                   store, history, unlooked>>

Skip ==
    /\ Asking("skip")
    /\ SkipFrom(queue)
    /\ UNCHANGED <<pc, playing, judgement, handover, store, listened, offered,
                   resumeFor, unlooked>>

\* A listener's choice, put at the end of the queue.
Enqueue(p) ==
    /\ pc = "commands" /\ active = "local"
    /\ p \in Passages \ offered
    /\ queue' = Append(queue, p)
    /\ offered' = offered \cup {p}
    /\ UNCHANGED <<pc, mixer, playing, output, display, judgement, handover,
                   store, reports, listened, resumeFor, unlooked, asked>>

EnqueueNext(p) ==
    /\ Asking("next") /\ p \in Passages \ offered
    /\ queue' = <<p>> \o queue
    /\ offered' = offered \cup {p}
    /\ UNCHANGED <<pc, mixer, playing, output, display, judgement, handover,
                   store, reports, listened, resumeFor, unlooked>>

\* In front of everything, then skip to it.
PlayNow(p) ==
    /\ Asking("now") /\ p \in Passages \ offered
    /\ SkipFrom(<<p>> \o queue)
    /\ offered' = offered \cup {p}
    /\ UNCHANGED <<pc, playing, judgement, handover, store, listened,
                   resumeFor, unlooked>>

EnqueueShutdown ==
    /\ Asking("shutdown")
    /\ \A i \in 1..Len(queue) : queue[i] # Shutdown
    /\ queue' = Append(queue, Shutdown)
    /\ UNCHANGED <<pc, mixer, playing, output, display, judgement, handover,
                   store, history, unlooked>>

\* Taken out by hand: a person's own pick is dropped, the Director's declined.
RemoveQueued(i) ==
    /\ Asking("remove") /\ i \in 1..Len(queue)
    /\ queue' = Cut(queue, i)
    /\ reports' =
          IF queue[i] = Shutdown THEN reports
          ELSE Told(queue[i], IF queue[i] \in Picked THEN "dropped" ELSE "dequeued", 0)
    /\ UNCHANGED <<pc, mixer, playing, output, display, judgement, handover,
                   store, listened, offered, resumeFor, unlooked>>

ShiftQueued(i, delta) ==
    /\ Asking("shift") /\ i \in 1..Len(queue) /\ queue[i] # Shutdown
    /\ queue' = Moved(queue, i, ShiftedTo(queue, i, delta))
    /\ UNCHANGED <<pc, mixer, playing, output, display, judgement, handover,
                   store, history, unlooked>>

\* Whether the mixer's head is still the passage on screen.
ShownMixing == live # {} /\ roll[Eldest(live).adm] = roll[shown]

\* The passages mixed after the one on screen, which go back to the queue.
Behind == live \ (IF ShownMixing THEN {Eldest(live)} ELSE {})

\* The members of l one after the other, in order of admission.
InOrder(l) ==
    {s \in [1..Cardinality(l) -> l] :
        \A i, j \in 1..Cardinality(l) : i < j => s[i].adm < s[j].adm}

\* A seek asked for in the browser, which the host gives the side that is
\* sounding between a pass and its refill.
Seek(at) ==
    /\ pc = "remember" /\ active = "local"
    /\ "seek" \in Asks /\ asked < MaxAsks
    /\ asked' = asked + 1
    /\ shown # 0 /\ at < Length[roll[shown]]
    /\ roll' = Append(roll, roll[shown])
    /\ \E n \in Decoded(ring, {Opened(at)}, roll') :
          /\ live' = On({Opened(at)}, n)
          /\ ring' = CutOver(ring, {Opened(at)}, n)
    /\ heardEnd' = NewAdmissions(roll')
    /\ shown' = Len(roll') /\ announced' = Len(roll')
    /\ \E behind \in InOrder(Behind) :
          queue' = [i \in 1..Cardinality(Behind) |-> roll[behind[i].adm]] \o queue
    /\ heardFrom' = Nowhere
    /\ UNCHANGED <<pc, pendingResume, playing, lastHeard, head, headAdm, heard,
                   recorded, handover, store, history, unlooked>>

-----------------------------------------------------------------------------
(* The rest of a pass: Engine::tick and the session's refill.              *)

\* Altered form of MixRoom: mixing without looking at the room in the ring.
MixesPastTheRing == playing

MixRoom == playing /\ Len(ring) < RingCap

\* Those of l with something left to give.
Giving(l, r) == {c \in l : c.at < Length[r[c.adm]]}

\* admit_due, prepare_next, mix_and_submit and retire_finished.
Mix ==
    /\ pc = "commands"
    /\ pc' = "look"
    /\ LET a == Admission(queue, live)
           giving == Giving(a.live, a.roll)
           mixes == MixRoom /\ giving # {}
       IN  /\ queue' = IF BadHead(a) THEN Tail(a.queue) ELSE a.queue
           /\ reports' = AllDropped(a.dropped \cup
                            (IF BadHead(a) THEN {Head(a.queue)} ELSE {}))
           /\ roll' = a.roll
           /\ heardEnd' = NewAdmissions(a.roll)
           /\ pendingResume' = a.resume
           /\ ring' = IF mixes THEN Append(ring, giving) ELSE ring
           /\ live' = Giving(IF mixes THEN On(giving, 1) ELSE giving, a.roll)
    /\ UNCHANGED <<playing, lastHeard, display, judgement, handover, store,
                   listened, offered, resumeFor, unlooked, asked>>

\* record_play: nothing is judged while paused.
LookPaused ==
    /\ pc = "look" /\ ~playing
    /\ pc' = "show"
    /\ UNCHANGED <<queue, mixer, playing, output, display, judgement, handover,
                   store, history, unlooked, asked>>

PassageHeard == IF HeardNow.adm = 0 THEN Nobody ELSE roll[HeardNow.adm]

\* What was heard of the head since it was last looked at.
HeadTail ==
    IF headAdm = 0 \/ heardFrom = Nowhere THEN 0
    ELSE LET to == HeardTo(headAdm)
         IN  IF to > heardFrom THEN to - heardFrom ELSE 0

\* Credit the head with what it moved since the last look, and record a play
\* once enough has been heard.
Credited(p, units, done, told) ==
    LET plays == ~done /\ p # Nobody /\ CountsAsPlay(units, Length[p])
    IN  /\ heard' = units
        /\ recorded' = (done \/ plays)
        /\ reports' = IF plays
                      THEN [told EXCEPT ![p] = Append(@, [verdict |-> "played", heard |-> units])]
                      ELSE told

\* Altered form of Unjudged: a passage that played is judged again as it goes.
JudgesAgain == head # Nobody /\ ~handingOver

\* Whether the head's departure is still to be judged: not if it played
\* already, nor if it was handed over.
Unjudged == head # Nobody /\ ~handingOver /\ ~recorded

\* The head departs.
LookDeparted ==
    /\ pc = "look" /\ playing /\ head # PassageHeard
    /\ pc' = "show"
    /\ handingOver' = FALSE
    /\ head' = PassageHeard
    /\ headAdm' = HeardNow.adm
    /\ LET arrived == PassageHeard # Nobody /\ countedElsewhere = PassageHeard
           told == IF Unjudged THEN Told(head, "skipped", heard + HeadTail)
                   ELSE reports
       IN  /\ countedElsewhere' = IF arrived THEN Nobody ELSE countedElsewhere
           /\ Credited(PassageHeard, 0, arrived, told)
    /\ heardFrom' = IF PassageHeard = Nobody THEN Nowhere ELSE HeardNow.at
    /\ unlooked' = 0
    /\ UNCHANGED <<queue, mixer, playing, output, display, guestCounted, away,
                   active, store, listened, offered, resumeFor, asked>>

\* Altered form of ComparableFrom: every move of the position is credited.
PositionsCompared == heardFrom

\* Positions of different admissions are not compared: a seek is not listening.
ComparableFrom == IF headAdm # HeardNow.adm THEN Nowhere ELSE heardFrom

LookOn ==
    /\ pc = "look" /\ playing /\ head = PassageHeard
    /\ pc' = "show"
    /\ headAdm' = HeardNow.adm
    /\ LET from == ComparableFrom
           moved == IF from # Nowhere /\ HeardNow.at > from THEN HeardNow.at - from ELSE 0
       IN  Credited(head, IF head = Nobody THEN heard ELSE heard + moved, recorded, reports)
    /\ heardFrom' = IF head = Nobody THEN heardFrom ELSE HeardNow.at
    /\ unlooked' = 0
    /\ UNCHANGED <<queue, mixer, playing, output, display, head, handover, store,
                   listened, offered, resumeFor, asked>>

\* Altered form of Announcement: none is kept.
ForgetsAnnouncement == 0

\* A cut's announcement stands until the newcomer is heard.
Announcement == IF Audible.adm >= announced THEN 0 ELSE announced

\* advance_shown.
Show ==
    /\ pc = "show"
    /\ pc' = "settle"
    /\ announced' = Announcement
    /\ shown' = IF announced' = 0 /\ Audible.adm # 0 THEN Audible.adm ELSE shown
    /\ UNCHANGED <<queue, mixer, playing, output, judgement, handover, store,
                   history, unlooked, asked>>

\* Altered forms of ShutdownDue: not waiting for the ring; only at the end.
ShutsOverTheRing == NextIsShutdown(queue) /\ live = {}
OnlyWhenLast == queue = <<Shutdown>> /\ live = {} /\ ring = <<>>

\* check_queued_shutdown.
ShutdownDue ==
    NextIsShutdown(queue) /\ live = {} /\ ring = <<>>

ExecuteShutdown ==
    /\ pc = "settle" /\ ShutdownDue
    /\ pc' = "remember"
    /\ queue' = Tail(queue)
    /\ shown' = 0 /\ announced' = Len(roll) + 1
    /\ disk' = [disk EXCEPT !.resume = Nobody, !.at = 0, !.playing = TRUE,
                            !.queue = Without(Tail(queue), Shutdown)]
    /\ saved' = <<Nobody, FALSE>>
    /\ shutdownSaved' = TRUE
    /\ playing' = (playing /\ PowerOff)
    /\ UNCHANGED <<mixer, output, judgement, handover, history, unlooked, asked>>

\* Engine::audible_ms of the mixer's head.
AudibleOf(c) ==
    IF Audible.adm = c.adm THEN Least(Audible.at, Length[roll[c.adm]])
    ELSE IF c.at > Len(ring) THEN c.at - Len(ring) ELSE 0

\* The passage the mixer came to first, which is saved and handed over.
Foremost == IF live = {} THEN Nobody ELSE roll[Eldest(live).adm]

\* persist: at once when the passage or the play state changes, otherwise
\* when the interval has passed.
SaveKey == <<Foremost, playing>>

\* Altered form of MayWrite: a resume point is written after a shutdown too.
WritesAnyway == TRUE

\* A queued shutdown has had the last word until playback is asked for again.
MayWrite == ~shutdownSaved

\* Altered form of MayWait: a new passage on air waits for the interval too.
WaitsTheInterval == shutdownSaved \/ saved # <<>>

\* Nothing to be written before the interval is up.
MayWait == shutdownSaved \/ saved = SaveKey

Persist ==
    /\ pc = "settle" /\ ~ShutdownDue
    /\ pc' = "remember"
    /\ \/ /\ MayWrite
          /\ saved' = SaveKey
          /\ disk' = [disk EXCEPT !.resume = Foremost, !.playing = playing,
                        !.at = IF live = {} THEN 0 ELSE AudibleOf(Eldest(live))]
       \/ /\ MayWait
          /\ UNCHANGED <<saved, disk>>
    /\ UNCHANGED <<queue, mixer, playing, output, display, judgement, handover,
                   shutdownSaved, history, unlooked, asked>>

\* What the Director may add in one pass: nothing, or one passage.
Picks == {<<>>} \cup {<<p>> : p \in Passages \ offered}

\* Session::refill: the Director's selections join the queue and the queue is
\* remembered.  With the guest in charge it is the guest's queue that is.
Refill ==
    /\ pc = "remember"
    /\ pc' = "commands"
    /\ \E picks \in (IF active = "local" THEN Picks ELSE {<<>>}) :
          /\ queue' = queue \o picks
          /\ offered' = offered \cup {picks[i] : i \in 1..Len(picks)}
    /\ disk' = [disk EXCEPT !.queue =
                  IF active = "local" THEN Without(queue', Shutdown)
                  ELSE SubSeq(away, 2, Len(away))]
    /\ UNCHANGED <<mixer, playing, output, display, judgement, handover, saved,
                   shutdownSaved, reports, listened, resumeFor, unlooked, asked>>

-----------------------------------------------------------------------------
(* The other backend: the host switches between a pass and its refill      *)
(* (Session::hand_over_seamless), so at most once a pass.                  *)

\* Switching::head_counted, which leaves the trait's default: whichever side
\* is in charge, the other is never told that it has counted the play.
HeadCounted == FALSE

\* The latch of a handover, set when the mixer has something.
Latched == live # {}

\* Handed over: what sounds and what waits is carried, and the sound fades
\* into nothing (hand_off_to_silence, fade_to_silence).
HandOff ==
    /\ pc = "remember" /\ active = "local"
    /\ "handoff" \in Asks /\ asked < MaxAsks
    /\ asked' = asked + 1
    /\ pc' = "commands"
    /\ handingOver' = Latched
    /\ away' = (IF live = {} THEN <<>> ELSE <<Foremost>>) \o Without(queue, Shutdown)
    /\ active' = "guest"
    /\ guestCounted' = IF HeadCounted THEN Foremost ELSE Nobody
    /\ SkipFrom(<<>>)
    /\ disk' = [disk EXCEPT !.queue = Without(queue, Shutdown)]
    /\ UNCHANGED <<playing, judgement, countedElsewhere, saved, shutdownSaved,
                   listened, offered, resumeFor, unlooked>>

\* Handed back, the guest having got to the k-th of what it took: what it
\* finished it has counted, and what it is in arrives at its position.  It
\* finishes nothing in the time of a fade.
HandBack(k, at) ==
    /\ pc = "remember" /\ active = "guest"
    /\ pc' = "commands"
    /\ k \in 1..Len(away) /\ at < Length[away[k]] /\ (k > 1 => ring = <<>>)
    /\ queue' = queue \o SubSeq(away, k, Len(away))
    /\ reports' = [p \in Passages |->
                     IF p \in {away[i] : i \in 1..(k - 1)} \ {guestCounted}
                     THEN Append(reports[p], [verdict |-> "guest", heard |-> 0])
                     ELSE reports[p]]
    /\ away' = <<>>
    /\ pendingResume' = at
    /\ resumeFor' = away[k]
    /\ countedElsewhere' = IF HeadCounted THEN away[k] ELSE countedElsewhere
    /\ active' = "local"
    /\ disk' = [disk EXCEPT !.queue = Without(queue', Shutdown)]
    /\ UNCHANGED <<live, roll, playing, output, display, judgement, handingOver,
                   guestCounted, saved, shutdownSaved, listened, offered,
                   unlooked, asked>>

-----------------------------------------------------------------------------
(* The device, on its own thread, and the power.                           *)

\* The device takes the unit at the front.  It takes at most one between two
\* looks: a pass is far shorter than a unit.
DeviceTakes ==
    /\ pc # "down" /\ playing /\ ring # <<>> /\ unlooked = 0
    /\ unlooked' = 1
    /\ ring' = Tail(ring)
    /\ heardEnd' = [a \in 1..Len(heardEnd) |->
                      IF \E c \in Head(ring) : c.adm = a
                      THEN (CHOOSE c \in Head(ring) : c.adm = a).at + 1
                      ELSE heardEnd[a]]
    /\ lastHeard' = IF Head(ring) = {} THEN lastHeard ELSE Latest(Head(ring)).adm
    /\ listened' = [p \in Passages |->
                      IF \E c \in Head(ring) : roll[c.adm] = p
                      THEN listened[p] + 1 ELSE listened[p]]
    /\ UNCHANGED <<pc, queue, mixer, playing, display, judgement, handover,
                   store, reports, offered, resumeFor, asked>>

\* Everything but the disk is gone.
Crash ==
    /\ pc # "down" /\ "crash" \in Asks /\ asked < MaxAsks
    /\ asked' = asked + 1
    /\ pc' = "down"
    /\ queue' = <<>> /\ live' = {} /\ roll' = <<>> /\ pendingResume' = Nowhere
    /\ playing' = FALSE
    /\ ring' = <<>> /\ heardEnd' = <<>> /\ lastHeard' = 0
    /\ shown' = 0 /\ announced' = 0
    /\ head' = Nobody /\ headAdm' = 0 /\ heard' = 0 /\ heardFrom' = Nowhere
    /\ recorded' = FALSE /\ handingOver' = FALSE /\ countedElsewhere' = Nobody /\ guestCounted' = Nobody
    /\ away' = <<>> /\ active' = "local"
    /\ saved' = <<>> /\ shutdownSaved' = FALSE
    /\ resumeFor' = Nobody /\ unlooked' = 0
    /\ UNCHANGED <<disk, reports, listened, offered>>

\* The first passage this start will play, and where.
First ==
    IF disk.resume # Nobody THEN <<disk.resume, disk.at>>
    ELSE IF disk.queue # <<>> THEN <<Head(disk.queue), 0>>
    ELSE <<Nobody, 0>>

\* note_resume_attempt: the same place again, not having got past it.
Tries ==
    IF disk.tried = First[1] /\ First[2] <= disk.triedAt THEN disk.tries + 1 ELSE 1

\* Altered forms of Restored: the passage resumed is queued twice, or last.
RestoresAll(resumed, remembered, dealtWith) == resumed \o remembered
ResumesLast(resumed, remembered, dealtWith) ==
    Without(remembered, dealtWith) \o resumed

\* The queue a start begins with: the passage resumed, then what was
\* remembered, without the passage already dealt with.
Restored(resumed, remembered, dealtWith) ==
    resumed \o Without(remembered, dealtWith)

\* Session::prime up to the refill it ends with, and the play state the host
\* restores after it.
Prime ==
    /\ pc = "down"
    /\ pc' = "remember"
    /\ LET guarded == disk.playing /\ First[1] # Nobody
           drops == guarded /\ Tries >= 2
           resumes == disk.resume # Nobody /\ ~drops
           dealtWith == IF drops THEN First[1] ELSE disk.resume
       IN  /\ queue' = Restored(IF resumes THEN <<disk.resume>> ELSE <<>>,
                                disk.queue, dealtWith)
           /\ pendingResume' = IF resumes THEN disk.at ELSE Nowhere
           /\ resumeFor' = IF resumes THEN disk.resume ELSE Nobody
           /\ disk' = IF guarded
                      THEN [disk EXCEPT !.tried = First[1], !.triedAt = First[2],
                                        !.tries = Tries]
                      ELSE disk
    /\ playing' = disk.playing
    /\ UNCHANGED <<live, roll, output, display, judgement, handover, saved,
                   shutdownSaved, reports, listened, offered, unlooked, asked>>

-----------------------------------------------------------------------------
NoDisk == [resume |-> Nobody, at |-> 0, playing |-> FALSE, queue |-> <<>>,
           tried |-> Nobody, triedAt |-> 0, tries |-> 0]

Init ==
    /\ pc = "commands"
    /\ queue = <<>> /\ live = {} /\ roll = <<>> /\ pendingResume = Nowhere
    /\ playing = TRUE
    /\ ring = <<>> /\ heardEnd = <<>> /\ lastHeard = 0
    /\ shown = 0 /\ announced = 0
    /\ head = Nobody /\ headAdm = 0 /\ heard = 0 /\ heardFrom = Nowhere
    /\ recorded = FALSE /\ handingOver = FALSE /\ countedElsewhere = Nobody /\ guestCounted = Nobody
    /\ away = <<>> /\ active = "local"
    /\ saved = <<>> /\ shutdownSaved = FALSE /\ disk = NoDisk
    /\ reports = [p \in Passages |-> <<>>] /\ listened = [p \in Passages |-> 0]
    /\ offered = {} /\ resumeFor = Nobody /\ unlooked = 0 /\ asked = 0

Pass == Mix \/ LookPaused \/ LookDeparted \/ LookOn \/ Show
        \/ ExecuteShutdown \/ Persist \/ Refill

Next ==
    \/ Play \/ Pause \/ Skip \/ EnqueueShutdown \/ HandOff
    \/ \E p \in Passages : Enqueue(p) \/ EnqueueNext(p) \/ PlayNow(p)
    \/ \E i \in 1..(Cardinality(Passages) + 1) :
          RemoveQueued(i) \/ \E delta \in {-1, 1} : ShiftQueued(i, delta)
    \/ \E at \in SeekPoints :
          Seek(at) \/ \E k \in 1..Cardinality(Passages) : HandBack(k, at)
    \/ Pass
    \/ DeviceTakes
    \/ Crash
    \/ Prime

Spec == Init /\ [][Next]_vars

\* The host loop never stops passing, and the device never stops asking.
Fairness == WF_vars(Pass) /\ WF_vars(DeviceTakes) /\ WF_vars(Prime)

FairSpec == Spec /\ Fairness

-----------------------------------------------------------------------------
Contributions == [adm : 1..Len(roll), at : Nat]
Verdicts == {"played", "skipped", "dequeued", "dropped", "guest"}
Columns == [resume : Passages \cup {Nobody}, at : Nat, playing : BOOLEAN,
            queue : Seq(Passages), tried : Passages \cup {Nobody},
            triedAt : Nat, tries : Nat]

\* A queue of passages, with one shutdown at most.
IsQueue(q) ==
    /\ q \in Seq(Passages \cup {Shutdown})
    /\ \A i, j \in 1..Len(q) : q[i] = Shutdown /\ q[j] = Shutdown => i = j

(* The shape of the engine's state: every admission the mixer, the ring,   *)
(* the display and the judgement name is one that was made; nothing has    *)
(* been mixed past its end; one shutdown waits at most, however often it   *)
(* is asked for, carried about or put back, and it is never remembered on  *)
(* the disk nor handed to the other backend.                               *)
TypeOK ==
    /\ pc \in {"commands", "look", "show", "settle", "remember", "down"}
    /\ IsQueue(queue)
    /\ roll \in Seq(Passages) /\ heardEnd \in Seq(Nat) /\ Len(heardEnd) = Len(roll)
    /\ live \subseteq Contributions /\ IsFiniteSet(live)
    /\ \A c \in live : c.at <= Length[roll[c.adm]]
    /\ ring \in Seq(SUBSET Contributions) /\ Len(ring) <= RingCap
    /\ lastHeard \in 0..Len(roll) /\ shown \in 0..Len(roll)
    /\ headAdm \in 0..Len(roll) /\ announced \in 0..(Len(roll) + 1)
    /\ head \in Passages \cup {Nobody} /\ heard \in Nat
    /\ heardFrom \in Nat \cup {Nowhere} /\ pendingResume \in Nat \cup {Nowhere}
    /\ {playing, recorded, handingOver, shutdownSaved} \subseteq BOOLEAN
    /\ disk \in Columns /\ away \in Seq(Passages)
    /\ reports \in [Passages -> Seq([verdict : Verdicts, heard : Nat])]
    /\ listened \in [Passages -> Nat] /\ offered \subseteq Passages

InQueue == {queue[i] : i \in 1..Len(queue)} \ {Shutdown}
InRing == UNION {{roll[c.adm] : c \in ring[i]} : i \in 1..Len(ring)}
Carried == {away[i] : i \in 1..Len(away)}
Coming == InQueue \cup LivePassages
Told1(p, verdict) == \E i \in 1..Len(reports[p]) : reports[p][i].verdict = verdict

(* Nothing that was queued is lost sight of: it waits, is being mixed, is  *)
(* still to be heard, is being judged, went to the other backend, or has   *)
(* had its verdict -- through skips in the middle of a crossfade, in the   *)
(* last ring's depth of a passage, and while paused (skip, admit_due,      *)
(* prepare_next, record_play).                                             *)
NothingVanishes ==
    \A p \in offered :
        p \in Coming \cup InRing \cup Carried \cup {head} \/ reports[p] # <<>>

(* A passage is judged once: it is never both turned down and played,      *)
(* reported dropped and then skipped, or counted twice; and one that was   *)
(* turned down or dropped is not still to come (skip, record_play,         *)
(* RemoveQueued).                                                          *)
OneVerdict ==
    \A p \in Passages :
        /\ Len(reports[p]) <= 1
        /\ reports[p] # <<>> /\ ~Told1(p, "played") => p \notin Coming

(* No listener turns down what was never played to them: a skip passes     *)
(* over the passage being mixed behind the one heard, and only what the    *)
(* device took a unit of is recorded as skipped ([REQ-AUD-162], skip).     *)
UnheardIsNotDeclined ==
    \A p \in Passages : Told1(p, "skipped") => listened[p] > 0

(* A passage heard to its end is a play; only one that was stopped is a    *)
(* skip ([SPEC-PLAY-055], record_play).                                    *)
OnlyStoppedIsSkipped ==
    \A p \in Passages : Told1(p, "skipped") => listened[p] < Length[p]

(* What is credited was heard: the time counted towards a play, and the    *)
(* time written with a verdict, never exceed what the device played of     *)
(* the passage, whatever the seeks ([SPEC-PLAY-012], record_play).         *)
CreditIsListening ==
    /\ head # Nobody => heard <= listened[head] 
    /\ \A p \in Passages : \A i \in 1..Len(reports[p]) :
          reports[p][i].heard <= listened[p]

(* The display never goes back: once a passage is on screen no earlier     *)
(* admission is shown again, and above all not the fading tail of the one  *)
(* a skip cut ([GDE-ARC-059], advance_shown).                              *)
ShownNeverGoesBack ==
    [][shown # 0 /\ shown' # 0 /\ pc # "down" /\ pc' # "down" => shown' >= shown]_vars

(* Every pass that has written its resume point leaves on the disk what a  *)
(* restart needs: the passage on air, and everything to come after it in   *)
(* its order (persist, remember_queue; [SPEC-DIR-225]).                    *)
Upcoming(l, r, q) ==
    {[i \in 1..Cardinality(l) |-> r[s[i].adm]] \o Without(q, Shutdown) : s \in InOrder(l)}

\* What a restart would play: the passage resumed is not queued again.
OnDisk(d) ==
    (IF d.resume = Nobody THEN <<>> ELSE <<d.resume>>) \o Without(d.queue, d.resume)

APowerCutLosesNothing ==
    [][pc = "remember" /\ pc' = "commands" /\ saved # <<>>
          => OnDisk(disk') \in Upcoming(live', roll', queue')]_vars

(* A restart puts nothing in the queue twice, though the disk names the    *)
(* passage on air in two places if the power went between the two writes   *)
(* of a pass (Session::prime).                                             *)
NothingPlaysTwice ==
    \A i, j \in 1..Len(queue) : queue[i] = queue[j] => i = j

(* The saved position opens the passage it was saved for and no other      *)
(* (Engine::pending_resume).                                               *)
ResumeIsItsOwn ==
    [][pendingResume # Nowhere /\ pendingResume' = Nowhere /\ pc' # "down"
          => Len(roll') = Len(roll) \/ roll'[Len(roll')] = resumeFor]_vars

(* When a queued shutdown stops the player everything ahead of it has been *)
(* played to its last unit ([SPEC-QSD-060], check_queued_shutdown).        *)
ShutdownInterruptsNothing ==
    [][~shutdownSaved /\ shutdownSaved' =>
          \A p \in offered \ Unopenable : p \in InQueue \/ listened[p] = Length[p]]_vars

(* Once a queued shutdown has cleared the resume point nothing writes one  *)
(* back, and the player comes up playing: not the passes that go on, nor a *)
(* pause, a skip or a handover -- until playback is asked for again        *)
(* ([SPEC-QSD-060], execute_queued_shutdown, persist).                     *)
ShutdownLeavesNoResume ==
    shutdownSaved => disk.resume = Nobody /\ disk.playing

(* What waits behind a queued shutdown is what the next start begins with: *)
(* once the shutdown has saved it, it stays on the disk whole              *)
(* ([SPEC-QSD-060] item 4).                                                *)
UpcomingSurvivesShutdown ==
    pc = "commands" /\ shutdownSaved =>
        Coming \subseteq {OnDisk(disk)[i] : i \in 1..Len(OnDisk(disk))}

(* A passage is counted once: a play one backend has recorded is not       *)
(* recorded again by the other ([SPEC-BK-065], adopt_counted).             *)
CountedOnce ==
    \A p \in Passages :
        Cardinality({i \in 1..Len(reports[p]) :
                        reports[p][i].verdict \in {"played", "guest"}}) <= 1

(* Handing a passage to the other backend is not declining it              *)
(* ([SPEC-BK-065], hand_off_to_silence): so where no other departure comes *)
(* between the handover and its own, and not in a crossfade.               *)
HandoffDeclinesNothing ==
    \A p \in Carried : ~Told1(p, "skipped")

(* If the player keeps playing, everything queued comes to its verdict.    *)
EverythingIsAnswered ==
    <>[]playing => \A p \in Passages : (p \in offered) ~> (reports[p] # <<>>)

(* A queued shutdown comes about, if the player keeps playing.             *)
ShutdownHappens ==
    (playing /\ \E i \in 1..Len(queue) : queue[i] = Shutdown)
        ~> (shutdownSaved \/ ~playing)
=============================================================================
