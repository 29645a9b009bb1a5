-------------------------------- MODULE Guest --------------------------------
(***************************************************************************)
(* The MPD guest (mpd_backend.rs) and the handover to it and back          *)
(* (session.rs, switch.rs).  MPD is a process of its own, with clients of  *)
(* its own: the backend knows of it what a poll reads, in several round    *)
(* trips, and MPD moves, is edited and dies between any two of them.  It   *)
(* comes back with its queue, under fresh song identifiers.                *)
(*                                                                         *)
(* Time is counted in units of the sample interval: at most one passes     *)
(* between two polls.  A passage is Span units long.                       *)
(*                                                                         *)
(* Beside some definitions stands an altered form, as a plausible mistake  *)
(* would have written it; no specification refers to one.                  *)
(***************************************************************************)
EXTENDS Integers, Sequences, FiniteSets, SequencesExt

CONSTANTS
    Passages,
    Whole,          \* passages that are a file of their own; others share one
    Outside,        \* passages MPD has no name for, or refuses the range of
    Waiting,        \* what the local engine plays and has queued at the start
    Span,           \* how long a passage is
    Remnant,        \* TAIL_NOT_WORTH_CARRYING and the lead
    Depth,          \* how many songs MPD's queue is kept at
    MaxSongs,       \* bound: songs ever added to MPD
    MaxClients,     \* bound: what MPD's own clients and the seek bar do
    MaxFaults,      \* bound: how often MPD dies
    MaxHandovers,   \* bound: handovers
    MaxEvents       \* bound: all of these together

ASSUME PassagesAssumption ==
    /\ Whole \subseteq Passages /\ Outside \subseteq Passages
    /\ Waiting \in Seq(Passages) /\ Waiting # <<>>
ASSUME SpanAssumption == Span \in Nat \ {0, 1} /\ Remnant \in Nat
ASSUME BoundsAssumption ==
    {Depth, MaxSongs, MaxClients, MaxFaults, MaxHandovers, MaxEvents} \subseteq Nat

VARIABLES
    mpd,            \* the process: its queue, what it plays, and the socket
    backend,        \* MpdBackend
    poll,           \* where a poll is, and the song it read in its status
    local,          \* the local engine, as far as a handover sees it
    active,         \* Switching::active
    hand,           \* where a handover is
    songs,          \* every song MPD was given: what the properties look at
    bounds

vars == <<mpd, backend, poll, local, active, hand, songs, bounds>>

None == 0
Nobody == [p |-> None, at |-> 0]
NotSeen == -1
SampleStep == 2         \* the most one sample credits: two intervals

MoreHappens == bounds.clients + bounds.faults + bounds.handovers < MaxEvents

\* The entries of seq that are in S, in their order.
Those(seq, S) ==
    LET kept[i \in 0..Len(seq)] ==
            IF i = 0 THEN <<>>
            ELSE IF seq[i] \in S THEN Append(kept[i - 1], seq[i]) ELSE kept[i - 1]
    IN kept[Len(seq)]

-----------------------------------------------------------------------------
(* MPD, as src/ uses it.  Its songs are numbered for the properties; their *)
(* identifiers are MPD's, and begin again with each process.               *)

IdsIn(queue) == {queue[i].id : i \in DOMAIN queue}
IndexOf(queue, id) == CHOOSE i \in DOMAIN queue : queue[i].id = id
SongOf(id) == mpd.queue[IndexOf(mpd.queue, id)].n

\* Bounded by its range a song is the passage; else it runs on.
LengthOf(n) == IF songs[n].bounded THEN Span ELSE Span + 2

\* Consume: what was played is taken out, and the next is played.
Consumed(m) ==
    LET i == IndexOf(m.queue, m.cur)
        rest == RemoveAt(m.queue, i)
    IN IF i <= Len(rest) THEN [m EXCEPT !.queue = rest, !.cur = rest[i].id, !.at = 0]
       ELSE [m EXCEPT !.queue = rest, !.cur = None, !.at = 0, !.state = "stop"]

Removed(m, id) ==
    IF id = m.cur THEN Consumed(m)
    ELSE [m EXCEPT !.queue = RemoveAt(@, IndexOf(@, id))]

Added(m) ==
    [m EXCEPT !.queue = Append(@, [id |-> m.nextId, n |-> Len(songs) + 1]), !.nextId = @ + 1]

\* seekid, and the pause 0 that follows it: a paused MPD starts as well.
Sought(m, id, at) == [m EXCEPT !.cur = id, !.at = at, !.state = "play"]

NewSong(p, bounded) ==
    [p |-> p, bounded |-> bounded, sounded |-> 0, seeks |-> 0, through |-> TRUE,
     answer |-> "none"]

MpdPlays ==
    /\ mpd.up /\ mpd.state = "play" /\ mpd.cur # None
    /\ ~bounds.unpolled \/ backend.lost
    /\ LET n == SongOf(mpd.cur) IN
       /\ songs' = [songs EXCEPT ![n].sounded = @ + 1, ![n].through = @ /\ mpd.linked]
       /\ mpd' = IF mpd.at + 1 < LengthOf(n) THEN [mpd EXCEPT !.at = @ + 1] ELSE Consumed(mpd)
    /\ bounds' = [bounds EXCEPT !.unpolled = TRUE]
    /\ UNCHANGED <<backend, poll, local, active, hand>>

ClientActs ==
    /\ mpd.up /\ MoreHappens /\ bounds.clients < MaxClients
    /\ bounds' = [bounds EXCEPT !.clients = @ + 1]

\* A client of MPD's own queues a file.
ClientAdds(p) ==
    /\ ClientActs
    /\ p \in Whole /\ Len(songs) < MaxSongs
    /\ mpd' = Added(mpd)
    /\ songs' = Append(songs, NewSong(p, TRUE))
    /\ UNCHANGED <<backend, poll, local, active, hand>>

ClientDeletes(id) ==
    /\ ClientActs
    /\ id \in IdsIn(mpd.queue)
    /\ mpd' = Removed(mpd, id)
    /\ UNCHANGED <<backend, poll, local, active, hand, songs>>

ClientPlaysOrPauses ==
    /\ ClientActs
    /\ mpd.queue # <<>>
    /\ mpd' = CASE mpd.state = "play"                    -> [mpd EXCEPT !.state = "pause"]
                [] mpd.state # "play" /\ mpd.cur # None  -> [mpd EXCEPT !.state = "play"]
                [] OTHER -> Sought(mpd, mpd.queue[1].id, 0)
    /\ UNCHANGED <<backend, poll, local, active, hand, songs>>

ClientSeeks(at) ==
    /\ ClientActs
    /\ mpd.cur # None
    /\ mpd' = [mpd EXCEPT !.at = at]
    /\ songs' = [songs EXCEPT ![SongOf(mpd.cur)].seeks = @ + 1,
                              ![SongOf(mpd.cur)].through = FALSE]
    /\ UNCHANGED <<backend, poll, local, active, hand>>

\* MPD dies, and every socket with it.
MpdDies ==
    /\ mpd.up /\ MoreHappens /\ bounds.faults < MaxFaults
    /\ bounds' = [bounds EXCEPT !.faults = @ + 1]
    /\ mpd' = [mpd EXCEPT !.up = FALSE, !.linked = FALSE]
    /\ songs' = [n \in DOMAIN songs |-> [songs[n] EXCEPT !.through = FALSE]]
    /\ UNCHANGED <<backend, poll, local, active, hand>>

\* It restores its queue, numbered afresh, and the song it was at: playing or,
\* with restore_paused, not.
MpdReturns ==
    /\ ~mpd.up
    /\ \E state \in {mpd.state, "pause"} :
          mpd' = [mpd EXCEPT !.up = TRUE, !.nextId = Len(mpd.queue) + 1,
                      !.queue = [i \in DOMAIN mpd.queue |-> [id |-> i, n |-> mpd.queue[i].n]],
                      !.cur = IF mpd.cur = None THEN None ELSE IndexOf(mpd.queue, mpd.cur),
                      !.state = IF mpd.cur = None THEN "stop" ELSE state]
    /\ UNCHANGED <<backend, poll, local, active, hand, songs, bounds>>

-----------------------------------------------------------------------------
(* What the backend holds of each song, and what becomes of it.            *)

Offered(n, p, honoured, current, byPerson) ==
    [n |-> n, p |-> p, heard |-> 0, furthest |-> 0, seen |-> NotSeen,
     honoured |-> honoured, current |-> current, byPerson |-> byPerson]

\* Altered: half of it is not enough.
CountsBeyondHalf(heard) == 2 * heard > Span
CountsAsPlay(heard) == 2 * heard >= Span

\* MpdBackend::retire.  Nothing is ever adopted as counted elsewhere, since
\* Switching does not pass head_counted on.
Verdict(o) ==
    CASE ~o.current /\ o.byPerson            -> "dropped"
      [] ~o.current /\ ~o.byPerson           -> "dequeued"
      [] o.current /\ CountsAsPlay(o.heard)  -> "played"
      [] o.current /\ ~CountsAsPlay(o.heard) -> "skipped"

\* verdict: what became of the passage under each identifier answered for.
Answered(verdict) ==
    [n \in DOMAIN songs |->
        IF \E id \in DOMAIN verdict : backend.ours[id].n = n
        THEN [songs[n] EXCEPT !.answer =
                 verdict[CHOOSE id \in DOMAIN verdict : backend.ours[id].n = n]]
        ELSE songs[n]]

Given(ids) ==
    LET given == SetToSeq({<<id, backend.ours[id].p>> : id \in ids})
    IN [i \in DOMAIN given |-> given[i][2]]

\* mark_lost, where it was the transport that failed.
MarkLost == backend' = [backend EXCEPT !.lost = TRUE]

\* Altered: what was offered before MPD restarted is still looked for.
KeepsOurs(b) ==
    [b EXCEPT !.order = <<>>, !.head = Nobody, !.playing = FALSE, !.len = 0, !.lost = FALSE]

\* MpdBackend::reconnect: what was offered is given back, its fate unknown.
Reconnected(b) ==
    [b EXCEPT !.ours = <<>>, !.order = <<>>, !.head = Nobody, !.playing = FALSE,
              !.len = 0, !.lost = FALSE, !.dropped = @ \o Given(DOMAIN b.ours)]

\* Tried by a tick every RECONNECT_EVERY, and by whoever enqueues.
Reconnect ==
    /\ backend.lost /\ mpd.up /\ poll.step = "idle"
    /\ hand.stage \in {"none", "wait", "waited"} \/ (hand.stage = "carry" /\ hand.left # {})
    /\ backend' = Reconnected(backend)
    /\ songs' = Answered([id \in DOMAIN backend.ours \ DOMAIN backend'.ours |-> "dropped"])
    /\ mpd' = [mpd EXCEPT !.linked = TRUE]
    /\ UNCHANGED <<poll, local, active, hand, bounds>>

-----------------------------------------------------------------------------
(* A poll: status, then currentsong if need be, then playlistinfo.         *)

\* Altered: every step of the clock was heard.
CreditsAll(o, at) == IF o.seen = NotSeen \/ at < o.seen THEN 0 ELSE at - o.seen

\* Only forward movement, and no more than one sample could have covered.
Credit(o, at) ==
    IF o.seen = NotSeen \/ at < o.seen THEN 0
    ELSE IF at - o.seen > SampleStep THEN SampleStep ELSE at - o.seen

Sampled(b, id, at) ==
    IF id \notin DOMAIN b.ours THEN b
    ELSE IF ~b.playing THEN [b EXCEPT !.ours[id].current = TRUE]
    ELSE [b EXCEPT !.ours[id].current = TRUE, !.ours[id].seen = at,
                   !.ours[id].heard = @ + Credit(b.ours[id], at),
                   !.ours[id].furthest = IF at > @ THEN at ELSE @]

\* A passage whose end MPD will not keep is ended by the sampler.
Overrun(b, id) ==
    /\ id \in DOMAIN b.ours /\ b.playing
    /\ ~b.ours[id].honoured /\ b.ours[id].furthest >= Span

\* The rest of a poll the handover waited for.
PollOver ==
    /\ poll' = [step |-> "idle", id |-> None, n |-> None, at |-> 0]
    /\ hand' = [hand EXCEPT !.stage = CASE @ = "refresh" -> "read"
                                        [] @ = "look"    -> "found"
                                        [] @ = "wait"    -> "waited"
                                        [] OTHER         -> @]

PollStatus ==
    /\ \/ poll.step = "due"
       \/ poll.step = "idle" /\ ~backend.lost /\ hand.stage \in {"none", "wait", "waited"}
    /\ bounds' = [bounds EXCEPT !.unpolled = FALSE]
    /\ IF ~mpd.linked THEN MarkLost /\ PollOver /\ UNCHANGED mpd
       ELSE LET playing == mpd.state = "play"
                known == mpd.cur \in DOMAIN backend.ours
                b == [backend EXCEPT !.playing = playing, !.len = Len(mpd.queue),
                         !.head = IF known /\ playing
                                  THEN [p |-> backend.ours[mpd.cur].p, at |-> mpd.at]
                                  ELSE Nobody]
            IN /\ backend' = Sampled(b, mpd.cur, mpd.at)
               /\ mpd' = IF Overrun(backend', mpd.cur) THEN Consumed(mpd) ELSE mpd
               /\ poll' = [step |-> IF mpd.cur = None \/ known THEN "list" ELSE "song",
                           id |-> mpd.cur, at |-> mpd.at,
                           n |-> IF mpd.cur = None THEN None ELSE SongOf(mpd.cur)]
               /\ UNCHANGED hand
    /\ UNCHANGED <<local, active, songs>>

\* A song somebody else queued is adopted, under the name of what is current by
\* now, if the library has one name for that.  One given back before MPD
\* restarted is an offering of its own from here on.
PollSong ==
    /\ poll.step = "song"
    /\ poll' = [poll EXCEPT !.step = "list"]
    /\ IF mpd.linked /\ mpd.cur # None /\ songs[SongOf(mpd.cur)].p \in Whole
       THEN LET again == songs[poll.n].answer # "none"
                n == IF again THEN Len(songs) + 1 ELSE poll.n
                o == Offered(n, songs[SongOf(mpd.cur)].p, TRUE, TRUE, TRUE)
                ours == [id \in DOMAIN backend.ours \cup {poll.id} |->
                            IF id = poll.id THEN o ELSE backend.ours[id]]
            IN /\ backend' = Sampled([backend EXCEPT !.ours = ours], poll.id, poll.at)
               /\ songs' = IF again THEN Append(songs, [songs[poll.n] EXCEPT !.answer = "none"])
                           ELSE songs
               /\ mpd' = [mpd EXCEPT !.queue = [i \in DOMAIN @ |->
                             IF @[i].id = poll.id THEN [@[i] EXCEPT !.n = n] ELSE @[i]]]
       ELSE UNCHANGED <<mpd, backend, songs>>
    /\ UNCHANGED <<local, active, hand, bounds>>

PollList ==
    /\ poll.step = "list"
    /\ PollOver
    /\ IF ~mpd.linked THEN MarkLost /\ UNCHANGED songs
       ELSE LET gone == DOMAIN backend.ours \ IdsIn(mpd.queue) IN
            /\ backend' = [backend EXCEPT
                   !.order = [i \in DOMAIN mpd.queue |->
                                 [id |-> mpd.queue[i].id, p |-> songs[mpd.queue[i].n].p]],
                   !.ours = [id \in DOMAIN @ \ gone |-> @[id]],
                   !.dropped = @ \o Given({id \in gone : Verdict(backend.ours[id]) = "dropped"})]
            /\ songs' = Answered([id \in gone |-> Verdict(backend.ours[id])])
    /\ UNCHANGED <<mpd, local, active, bounds>>

-----------------------------------------------------------------------------
(* Enqueueing and seeking.                                                 *)

\* MpdBackend::enqueue, but for the attempt to reconnect it begins with.
Enqueued(p) ==
    CASE p \in Outside ->
            /\ backend' = [backend EXCEPT !.dropped = Append(@, p)]
            /\ UNCHANGED <<mpd, songs>>
      [] p \notin Outside /\ ~mpd.linked ->
            /\ backend' = [backend EXCEPT !.dropped = Append(@, p), !.lost = TRUE]
            /\ UNCHANGED <<mpd, songs>>
      [] OTHER ->
            \E honoured \in {TRUE, (p \in Whole)} :
                LET id == mpd.nextId
                    o == Offered(Len(songs) + 1, p, honoured, FALSE, FALSE)
                IN /\ backend' = [backend EXCEPT !.len = @ + 1,
                          !.ours = [i \in DOMAIN @ \cup {id} |-> IF i = id THEN o ELSE @[i]]]
                   /\ mpd' = Added(mpd)
                   /\ songs' = Append(songs, NewSong(p, honoured))

Between == hand.stage = "none" /\ poll.step = "idle"

\* Session::refill, which takes what was dropped first: nothing is wanted of an
\* MPD that does not play.
Refill(p) ==
    /\ Between /\ active = "guest"
    /\ backend.dropped = <<>>
    /\ backend.playing /\ backend.len < Depth /\ Len(songs) < MaxSongs
    /\ Enqueued(p)
    /\ UNCHANGED <<poll, local, active, hand, bounds>>

\* The session takes what was dropped, of the side that is live.
SessionTakes ==
    /\ Between /\ active = "guest" /\ backend.dropped # <<>>
    /\ backend' = [backend EXCEPT !.dropped = <<>>]
    /\ UNCHANGED <<mpd, poll, local, active, hand, songs, bounds>>

\* MpdBackend::seek_to: the passage at the head, and not past its end.
SeekTo(at) ==
    /\ Between /\ active = "guest" /\ backend.head # Nobody /\ mpd.linked
    /\ MoreHappens /\ bounds.clients < MaxClients
    /\ bounds' = [bounds EXCEPT !.clients = @ + 1]
    /\ \E id \in {i \in DOMAIN backend.ours : backend.ours[i].p = backend.head.p} :
          \* MPD answers ACK to an identifier it no longer has.
          /\ id \in IdsIn(mpd.queue)
          /\ mpd' = Sought(mpd, id, at)
          /\ backend' = [backend EXCEPT !.ours[id].seen = NotSeen, !.head.at = at]
          /\ songs' = [songs EXCEPT ![SongOf(id)].through = FALSE]
    /\ UNCHANGED <<poll, local, active, hand>>

-----------------------------------------------------------------------------
(* The local engine: what sounds, and what is queued behind it.            *)

\* A handover reads it once, and stops it: what it plays meanwhile tells nothing.
LocalPlays ==
    /\ active = "local" /\ Between
    /\ local.head # Nobody
    /\ local' = IF local.head.at + 1 < Span THEN [local EXCEPT !.head.at = @ + 1]
                ELSE [local EXCEPT !.head = Nobody]
    /\ UNCHANGED <<mpd, backend, poll, active, hand, songs, bounds>>

LocalAdmits ==
    /\ active = "local" => Between
    /\ local.head = Nobody /\ local.queue # <<>>
    /\ local' = [head |-> [p |-> Head(local.queue), at |-> local.resume],
                 queue |-> Tail(local.queue), resume |-> 0]
    /\ UNCHANGED <<mpd, backend, poll, active, hand, songs, bounds>>

-----------------------------------------------------------------------------
(* Session::hand_over_seamless.                                            *)

Elsewhere == IF active = "local" THEN "guest" ELSE "local"

HandBegins ==
    /\ Between /\ MoreHappens /\ bounds.handovers < MaxHandovers
    /\ bounds' = [bounds EXCEPT !.handovers = @ + 1]
    /\ LET polls == active = "guest" /\ ~backend.lost IN
       /\ hand' = [hand EXCEPT !.stage = IF polls THEN "refresh" ELSE "read",
                               !.moved = {}, !.lost = <<>>]
       /\ poll' = IF polls THEN [poll EXCEPT !.step = "due"] ELSE poll
    /\ UNCHANGED <<mpd, backend, local, active, songs>>

\* in_queue_order: what was offered, and what the library has one name for.
QueuedIds ==
    IF active = "local" THEN local.queue
    ELSE LET named == Those(backend.order,
                            {e \in ToSet(backend.order) :
                                e.id \in DOMAIN backend.ours \/ e.p \in Whole})
         IN [i \in DOMAIN named |-> IF named[i].id \in DOMAIN backend.ours
                                    THEN backend.ours[named[i].id].p ELSE named[i].p]

\* The passage that sounds, then what waits; one that is all but over stays.
HandReads ==
    /\ hand.stage = "read"
    /\ LET head == IF active = "local" THEN local.head ELSE backend.head
           worth == head # Nobody /\ head.at + Remnant < Span
           ids == (IF worth THEN <<head.p>> ELSE <<>>)
                      \o Those(QueuedIds, Passages \ {head.p})
       IN hand' = [hand EXCEPT !.stage = "carry", !.ids = ids, !.left = DOMAIN ids,
                               !.resume = IF worth THEN head ELSE Nobody]
    /\ backend' = IF active = "local" THEN [backend EXCEPT !.dropped = <<>>] ELSE backend
    /\ UNCHANGED <<mpd, poll, local, active, songs, bounds>>

\* The next of those still to be carried is offered.
HandEnqueues ==
    /\ hand.stage = "carry"
    /\ \E i \in hand.left :
          /\ \A j \in hand.left : i <= j
          /\ hand' = [hand EXCEPT !.left = @ \ {i}]
          /\ IF active = "local"
             THEN Enqueued(hand.ids[i]) /\ UNCHANGED local
             ELSE /\ local' = [local EXCEPT !.queue = Append(@, hand.ids[i])]
                  /\ UNCHANGED <<mpd, backend, songs>>
    /\ UNCHANGED <<poll, active, bounds>>

\* Altered: what the library could build was carried.
TrustsTheBuild(ids, refused) == [moved |-> ToSet(ids), lost |-> refused]

\* carry_queue: moved is what the other side took.
Carried(ids, refused) ==
    [moved |-> ToSet(ids) \ ToSet(refused), lost |-> refused]

HandCarried ==
    /\ hand.stage = "carry" /\ hand.left = {}
    /\ LET c == Carried(hand.ids, IF active = "local" THEN backend.dropped ELSE <<>>) IN
       hand' = [hand EXCEPT !.stage = IF hand.resume = Nobody THEN "wait" ELSE "resume",
                            !.moved = c.moved, !.lost = c.lost]
    /\ backend' = IF active = "local" THEN [backend EXCEPT !.dropped = <<>>] ELSE backend
    /\ UNCHANGED <<mpd, poll, local, active, songs, bounds>>

OursInOrder ==
    Those(backend.order, {e \in ToSet(backend.order) : e.id \in DOMAIN backend.ours})

\* resume_at of the guest: the first of ours, looked for again if there is none.
HandResumesGuest ==
    /\ active = "local" /\ hand.stage \in {"resume", "found"}
    /\ IF OursInOrder # <<>>
       THEN LET id == OursInOrder[1].id IN
            /\ hand' = [hand EXCEPT !.stage = "wait"]
            /\ IF mpd.linked /\ id \in IdsIn(mpd.queue)
               THEN /\ mpd' = Sought(mpd, id, hand.resume.at)
                    /\ songs' = [songs EXCEPT ![SongOf(id)].seeks = @ + 1,
                                              ![SongOf(id)].through = FALSE]
               ELSE UNCHANGED <<mpd, songs>>
            /\ UNCHANGED poll
       ELSE /\ hand' = [hand EXCEPT !.stage = IF @ = "resume" THEN "look" ELSE "wait"]
            /\ poll' = IF hand.stage = "resume" THEN [poll EXCEPT !.step = "due"] ELSE poll
            /\ UNCHANGED <<mpd, songs>>
    /\ UNCHANGED <<backend, local, active, bounds>>

\* resume_at of the local engine: the offset of whatever is admitted next.
HandResumesLocal ==
    /\ active = "guest" /\ hand.stage = "resume"
    /\ hand' = [hand EXCEPT !.stage = "wait"]
    /\ local' = [local EXCEPT !.resume = hand.resume.at]
    /\ UNCHANGED <<mpd, backend, poll, active, songs, bounds>>

\* The other side sounds, or SOUNDING_WAIT is over; then this one is stopped.
HandFlips ==
    /\ poll.step = "idle"
    /\ \/ active = "local" /\ (hand.stage = "waited" \/ (hand.stage = "wait" /\ backend.lost))
       \/ active = "guest" /\ hand.stage = "wait" /\ (local.head # Nobody \/ local.queue = <<>>)
    /\ hand' = [hand EXCEPT !.stage = "none"]
    /\ active' = Elsewhere
    /\ IF active = "local"
       THEN /\ local' = [head |-> Nobody, queue |-> <<>>, resume |-> 0]
            /\ UNCHANGED <<mpd, backend>>
       ELSE /\ backend' = [backend EXCEPT !.playing = FALSE]
            /\ mpd' = IF mpd.linked THEN [mpd EXCEPT !.state = "stop", !.at = 0] ELSE mpd
            /\ UNCHANGED local
    /\ UNCHANGED <<poll, songs, bounds>>

-----------------------------------------------------------------------------
Init ==
    /\ mpd = [up |-> TRUE, linked |-> TRUE, queue |-> <<>>, cur |-> None, at |-> 0,
              state |-> "stop", nextId |-> 1]
    /\ backend = [ours |-> <<>>, order |-> <<>>, head |-> Nobody, playing |-> FALSE,
                  len |-> 0, lost |-> FALSE, dropped |-> <<>>]
    /\ poll = [step |-> "idle", id |-> None, n |-> None, at |-> 0]
    /\ local = [head |-> Nobody, queue |-> Waiting, resume |-> 0]
    /\ active = "local"
    /\ hand = [stage |-> "none", ids |-> <<>>, left |-> {}, resume |-> Nobody,
               moved |-> {}, lost |-> <<>>]
    /\ songs = <<>>
    /\ bounds = [unpolled |-> FALSE, clients |-> 0, faults |-> 0, handovers |-> 0]

World ==
    \/ MpdPlays \/ MpdDies \/ MpdReturns \/ ClientPlaysOrPauses
    \/ \E p \in Passages : ClientAdds(p)
    \/ \E id \in IdsIn(mpd.queue) : ClientDeletes(id)
    \/ \E at \in {0, Span - 1} : ClientSeeks(at)

Guested ==
    \/ Reconnect \/ PollStatus \/ PollSong \/ PollList \/ SessionTakes
    \/ \E p \in Passages : Refill(p)
    \/ \E at \in {0, Span - 1} : SeekTo(at)

HandsOver ==
    \/ HandBegins \/ HandReads \/ HandEnqueues \/ HandCarried
    \/ HandResumesGuest \/ HandResumesLocal \/ HandFlips

Next == World \/ Guested \/ HandsOver \/ LocalPlays \/ LocalAdmits

Spec == Init /\ [][Next]_vars

-----------------------------------------------------------------------------
(* What the guest keeps to.                                                *)

\* Types, and that a poll or a handover is somewhere the code can be: nothing is
\* held under an identifier MPD has not given out, and a connection known to be
\* lost is not the one in use.
TypeOK ==
    /\ mpd.state \in {"play", "pause", "stop"} /\ active \in {"local", "guest"}
    /\ mpd.cur \in IdsIn(mpd.queue) \cup {None}
    /\ poll.step \in {"idle", "due", "song", "list"}
    /\ hand.stage \in {"none", "refresh", "read", "carry", "resume", "look", "found",
                       "wait", "waited"}
    /\ backend.lost => ~mpd.linked
    /\ mpd.linked => DOMAIN backend.ours \subseteq 1..mpd.nextId
    /\ \A id \in DOMAIN backend.ours :
          LET o == backend.ours[id] IN
          /\ o.n \in DOMAIN songs /\ o.p \in Passages
          /\ o.heard \in Nat /\ o.seen \in NotSeen..(Span + 1)
          /\ o.heard > 0 => o.current

\* Every offering is held until it is answered, and answered once: across the
\* several round trips of a poll, edits by MPD's own clients, and restarts of MPD
\* that number its songs afresh (retire, reconnect).
A == INSTANCE Answers WITH
        held <- {backend.ours[id].n : id \in DOMAIN backend.ours},
        answered <- {n \in DOMAIN songs : songs[n].answer # "none"}
OneAnswerEach == A!Spec

\* What is credited as heard sounded, but for at most one sample for each time
\* somebody other than Lempi's own bar moved the position (poll, seek_to).
CreditIsListening ==
    \A id \in DOMAIN backend.ours :
        LET o == backend.ours[id] IN
        o.heard <= songs[o.n].sounded + SampleStep * songs[o.n].seeks

\* What sounded from its start to its end, with nobody's hand on it, is recorded as
\* played, although only samples of it are seen and the last of it never (poll,
\* retire). Pauses, handovers and restarts may each cost a sample: a passage is to be
\* long enough for how many there were.
PlayedOutIsAPlay ==
    \A n \in DOMAIN songs :
        songs[n].through /\ songs[n].sounded >= Span => songs[n].answer \in {"none", "played"}

\* A handover says it carried only what the guest holds by then, and every passage
\* it read is carried or reported lost: MPD may refuse one, die between two and be
\* found again by the enqueueing of the third (carry_queue).
CarriedIsHeld ==
    [][(HandCarried /\ active = "local") =>
          /\ hand'.moved \subseteq {backend.ours[id].p : id \in DOMAIN backend.ours}
          /\ ToSet(hand.ids) \subseteq hand'.moved \cup ToSet(hand'.lost)]_vars

\* The passage a guest is told to go on with is the one that sounded.
StartsWhatSounded ==
    [][(HandResumesGuest /\ mpd' # mpd) => songs[SongOf(mpd'.cur)].p = hand.resume.p]_vars
=============================================================================
