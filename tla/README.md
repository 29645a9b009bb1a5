# Lempi in TLA+

Formal models of Lempi, a music player that is its own radio station: a
Programme Director chooses passages, an engine crossfades them into an output
ring, and what was heard decides what is chosen next. This directory holds
TLA+ modules translated from the sources under `player/` and `tools/`, the TLC
configurations that check them on small instances, and theorems about them
checked by TLAPS. `PROJECT.json` indexes it: which definition models which
lines, which run checks which property, and which hazards of the code each
property is aimed at.

Contents: [the system](#1-the-system), [the modules](#2-the-modules),
[the abstractions](#3-what-is-abstracted), [the runs](#4-the-runs),
[disagreements met](#5-where-code-and-documents-disagree),
[the proofs](#6-the-proofs), [what is not modelled](#7-not-modelled),
[the plan](#8-the-plan).

## 1. The system

### 1.1 Parts and how they meet

A browser talks to the web routes. A route either sends a `Command` over a
channel to the engine, or leaves an intent in the shared `Controls` (a switch
of backend, a seek, a programme), which the host's loop takes up. The host
loop (`host.rs`, `engine_thread`) is the one thread that owns playback. A pass
of it is

    tick the backends -> apply settings -> handover asked for? -> seek asked
    for? -> publish capabilities -> session.refill

and `Engine::tick` is itself a fixed sequence: drain commands, admit what is
due, prepare the next passage, decode, mix into the ring, retire what is
finished, judge what was heard, move the display, execute a queued shutdown,
publish, persist the resume point. The device's callback drains the ring on
another thread whenever it likes. `Switching` drives two backends, the local
engine and an MPD guest, of which one sounds and both tick. The device itself
belongs to a supervisor thread (`path.rs`), which the engine only sends
requests to. A second thread copies the listener's database once an hour while
the player writes it, and a star of players is kept in step by a hub that
exchanges rows of it.

| component | state it keeps | operations | talks to |
| --- | --- | --- | --- |
| upcoming queue (`queue.rs`) | entries with identifiers, the next identifier, the shutdown marker | push, insert, remove, shift, advance, clear, replace | owned by the engine |
| local engine (`engine/`) | mixer's passages, timeline, head being judged, display, latches, pending resume | commands, tick, seek, handover | queue, ring, store, session (drops and outcomes) |
| ring and callback (`output.rs`, `mixer.rs`) | samples, read and write counters, silent and failed flags | submit, cut, fill | engine, device thread |
| path supervisor (`path.rs`, `sink.rs`), transfers (`web/transfer.rs`) | the device, failures, a refusal's age; holds | open, watch, recover, restart; hold, end | engine (ring), operating system |
| session (`session.rs`) | remembered queue, marks, Director or its rebuild | prime, refill, remember, hand over, adopt | backends, Director, store |
| Programme Director (`director/`) | weights, rotation, provisional marks, windows of what was declined | select, mark, resolve | session |
| player store (`player_store.rs`) | resume point, remembered queue, attempts, plays, rejections | save, load, record | SQLite file, the only thing a power cut leaves |
| switching and MPD guest (`switch.rs`, `mpd_backend.rs`) | the active side; songs offered to MPD and how far each was heard | carry a queue, fade, flip; poll, retire, reconnect | session, MPD |
| star sync (`tools/star_sync.py`, `star_merge.py`, `star_node.rs`, `mesh_sync.rs`) | a run; what each node was sent; patches; the newest run committed | snapshot, merge, commit, offer; upload, fetch | nodes' databases, network |
| backups (`backup.rs`, `bin/restore_listener.rs`) | snapshots by name, a stage, an outcome | copy, rotate, stage, put back | the listener's file, its directory |
| echo playback (`echo*.rs`, `engine/echo_state.rs`) | basis, debts, gaps, schedule | follow another player to the sample | engine, network |
| membership, trust, pairing, discovery | who belongs, keys, invitations | join, retire, merge | store, network |
| library, bundles, relinking | catalogue | queries, transfer | SQLite |
| scrub, retirement | damaged and retired files | verify, put aside | files |
| web, peripherals, Android, tools | | routes, services, jobs | everything |

### 1.2 What is hard

* **Three clocks.** What is mixed runs a ring's depth (about 14 s) ahead of
  what is heard, and the display runs on promises ("announced") between them.
  Judging, seeking, skipping, handing over and saving a position each have to
  choose the right one, in the last ring's depth of a passage above all.
* **Verdicts.** Everything queued must come to exactly one outcome -- played,
  skipped, dequeued, dropped -- since the Director holds a provisional mark
  until it hears of one, and a skip silences a passage for 156 hours.
* **A Director replaced in flight.** It is rebuilt on another thread from a
  history read a while ago, and must be told of everything since, once.
* **Power cuts.** The resume point and the queue are written in separate
  transactions, in different parts of a pass; a restore is four writes to a
  directory and a database; a commit of the star is one transaction in each of
  two databases. The disk is all that is left.
* **Handover.** Two engines play one passage, and the fade that ends it on one
  side must be neither a second verdict nor a second play. MPD is polled in
  several round trips, between which it moves, is edited, and dies.
* **Devices.** A device fails, is refused, opens late on a thread given up on,
  and is taken away for a transfer, while play and pause go on being asked.
* **Nodes edited while they are synchronized.** A patch is decided on a copy
  that is old by the time it is applied, and a row that is absent was removed
  or never arrived.
* **Latches.** `handing_over`, `counted_elsewhere`, `pending_resume`,
  `announced`, `shutdown_saved` are each set in one pass and consumed in a
  later one, with any commands in between.

### 1.3 What makes each part correct

* Queue: an identifier names at most one entry, ever; edits touch what they
  name; one shutdown at most.
* Engine: nothing queued is lost sight of, nothing is judged twice, nothing is
  turned down unheard, no jump is credited as listening, the display does not
  go back, everything is eventually judged.
* Queued shutdown: comes about, interrupts nothing, leaves no resume point.
* Restart: what the disk holds plays once each, in order, the saved position
  going to its own passage.
* Path and transfers: the device is found again in bounded time, does what was
  asked of it last, and is handed back with the music as it was.
* Session and Director: every mark is settled once; rotation knows what was
  heard and what is coming, and nothing else.
* Guest: every offering is answered once, credited with what sounded of it;
  what a handover says it carried is held.
* Star: the newest word on a preference is never lost; no half of a patch
  stays; a complete run leaves all alike; what was removed stays removed.
* Backups: what carries a snapshot's name is whole, but for tables whose
  existence could not be asked; the ladder of them keeps what it promises; a
  stage is put back once; what it wrote over is in the copy it names.

## 2. The modules

| module | models |
| --- | --- |
| `QueueOps` | the queue as a value: every operation of `Queue` and the timing rule, as pure operators |
| `EntryIdentity` | the abstract promise of queue identifiers: stale perhaps, ambiguous never |
| `PassageQueue` | the queue as a state machine, one action per operation; implements `EntryIdentity` |
| `Engine` | the local engine, ring, device, session start and refill, store, handover, power |
| `OutputPath` | the supervisor of the device, the engine's requests to it, transfer holds |
| `Rotation` | the Director's stamps, open marks and windows, as pure operators |
| `Marks` | the session between a backend and a Director that is replaced while it runs |
| `Answers` | the abstract promise of a backend: what is taken on is answered once |
| `Guest` | the MPD guest, MPD and its clients, and the handover to it and back, step by step; implements `Answers` |
| `Fleet` | the star sync: hub, appliances, phones, runs |
| `Backups` | snapshots, their rotation, and putting one back |
| `MCPassageQueue`, `MCEngine`, `MCOutputPath`, `MCMarks`, `MCGuest`, `MCFleet`, `MCBackups` | their instances for TLC |
| `PassageQueueProofs`, `EngineProofs`, `EngineAnswersProofs`, `OutputPathProofs`, `MarksProofs`, `GuestProofs`, `FleetProofs`, `BackupsProofs` | the theorems |

Each component's module begins with operators, then one action per operation,
then `Next`, then properties. *Altered forms* are definitions kept beside the
one they alter, each the operator as a plausible mistake would have written
it: substituting one must break a property, and which does is listed in
`PROJECT.json`. No specification refers to them.

### 2.1 `PassageQueue`

`queue` is the sequence of entries `[qid, passage]`, `nextQid` the counter
that stamps them; the shutdown is an entry whose passage is the model value
`Shutdown`. The actions are the public methods of `Queue`: `Enqueue`,
`EnqueueAt` (`insert_at`, and `push_front` with `at = 0`), `EnqueueShutdown`,
`RemoveQueued`, `ShiftQueued`, `Advance`, `Clear`, `ReplaceUpcoming`.
Identifiers named by a caller range over all values, so stale and future ones
are tried too. `MaxQid`, `MaxLen` and `MaxBatch` bound the state space.

### 2.2 `Engine`

Time is counted in **units**: a passage is `Length[p]` units long, the mixer
mixes one unit in a pass that has room, and the device takes one. The ring is a
sequence of units; each is the set of contributions `[adm, at]` of the
admissions mixed into it, which is exactly what the code's timeline of segments
lets it ask about a sample. `roll` lists the passage of every admission, so an
admission is a number as in the code and a seek is a new one of the same
passage. The mixer, `live`, is the set of contributions it would make next: the
code's vector is in order of admission, so its first element is the `Eldest`.

`pc` splits a pass where a power cut or the device may come between two effects
that something else can tell apart:

| `pc` | actions | code |
| --- | --- | --- |
| `commands` | `Play` `Pause` `Skip` `Enqueue` `EnqueueNext` `PlayNow` `EnqueueShutdown` `RemoveQueued` `ShiftQueued`, any number; then `Mix` | `drain_commands`; `admit_due`, `prepare_next`, `mix_and_submit`, `retire_finished` |
| `look` | `LookPaused`, `LookDeparted`, `LookOn` | `record_play` |
| `show` | `Show` | `advance_shown` |
| `settle` | `ExecuteShutdown`, or `Persist` | `check_queued_shutdown`, `persist` |
| `remember` | `Seek`, `HandOff`, `HandBack`; then `Refill` | the host's part of a pass: seek, handover, `Session::refill` with `remember_queue` |
| `down` | `Prime` | `Session::prime`, then its own refill |

`DeviceTakes` may come at any point. `Crash` may come at any point and leaves
`disk` alone. A skip is one operator, `SkipFrom(q)`, used by the skip, by
playing something at once and by the fade of a handover, as in the code; it is
`skip`, `cut_ring_to_incoming` and `begin_skip_transition` together, with the
early returns as disjuncts. How much of the incoming passage had been decoded
by the time of the cut is a choice (`Decoded`): all that was asked for, or
nothing where a file was slow to seek.

`reports`, `listened`, `offered`, `resumeFor`, `unlooked` and `asked` are not
in the code. The first four record what really happened, for the properties;
`listened` counts the units of a passage the device took, which the engine can
only infer. `unlooked` and `asked` are bounds.

### 2.3 `OutputPath`

`path` is the supervisor: its `mode` (running, awaiting a device, restarting,
ended), where a pass of it is (`pc`), the stream it holds, its backoff and its
two waits, a run of refusals, and the ring's `failed` and `silent` flags.
`world` is what an open would find, and changes at will (`WorldChanges`).

| actions | code |
| --- | --- |
| `Pass` | `supervise`: requests taken, `watch`, then `recover` up to its open |
| `Open`, `OpenFresh`, `LateOpen`, `Opened` | the open in place, on a fresh thread, that thread answering after it was given up on, and what follows |
| `AwaitReceive`, `AwaitOpen` | `await_device`, with no device yet |
| `Restart` | the service manager's new process |
| `Drain`, `Mix` | the engine takes a command and sends a request; it writes to the ring |
| `Ask` | play, pause or reopen, by the listener |
| `Hold`, `End`, `Send` | `Holds::hold` and `end`, and what they send, one message at a time |
| `Tick` | one `RETRY` of time |

### 2.4 `Rotation` and `Marks`

`Rotation` has the Director's bookkeeping as functions of a value: `NoteQueued`,
`Resolve`, `NoteRejection`, and what `decide` and `decide_relaxed` leave in the
running. In `Marks`, `backend` is what `Playback` and `Progress` promise of any
backend, `director` the Director in place, `notes`, `unseen` and `heard` the
session's account, `rebuild` the other thread.

| actions | code |
| --- | --- |
| `PersonQueues`, `Pick`, `PersonRemoves` | the web's enqueue and removal, with the outcomes they report |
| `Admit`, `MixedOut`, `Counted`, `Departs`, `Skip` | the backend: what it drops from its queue, and what it says |
| `Ask`, `BuildReads`, `BuildEnds` | a rebuild: asked for, its history read, its Director sent |
| `Refill`, `Chosen`, `RestOver` | `refill`: drops, outcomes, `adopt`, `settle_unseen`, then choices; a rest after one that found nothing |
| `GraceOver` | `NOTE_GRACE` goes by for a mark whose passage is in sight nowhere |
| `Restart`, `HandOver` | `prime` after a restart; `hand_over_seamless` to the other backend, after which a pass of the host always refills before the next (`past.handed`) |

### 2.5 `Guest`

`mpd` is the process and its queue, `backend` is `MpdBackend`, `poll` where a
poll is among its round trips, `hand` where `hand_over_seamless` is, `local` the
local engine as far as a handover sees it. `songs` lists every song MPD was
ever given, with what sounded of it, for the properties.

| actions | code |
| --- | --- |
| `MpdPlays`, `MpdDies`, `MpdReturns`, `ClientAdds`, `ClientDeletes`, `ClientPlaysOrPauses`, `ClientSeeks` | MPD and its clients, outside `src/` |
| `PollStatus`, `PollSong`, `PollList` | `poll`: status, `currentsong` and `adopt`, `playlistinfo` and `retire` |
| `Reconnect`, `SessionTakes`, `Refill`, `SeekTo` | `reconnect`; `take_dropped`; `enqueue` from `refill`; `seek_to` |
| `LocalPlays`, `LocalAdmits` | the local engine |
| `HandBegins`, `HandReads`, `HandEnqueues`, `HandCarried` | `refresh`, `in_queue_order` and the head, `carry_queue` |
| `HandResumesGuest`, `HandResumesLocal`, `HandFlips` | `resume_at`, the wait for the other side to sound, the flip |

### 2.6 `Fleet`

Three rows stand for the databases: a preference, merged by the last write; a
flag, merged by union and removed on evidence; a row of the catalogue, patched
strictly. A value is the second it was written in. `star` is the run the hub is
making, with what it took of every node and, of a phone, the evidence of its
earlier uploads (`seen`); `work` the commits an appliance is working on, `outbox` the patch that
waits for a phone, `upload` what a phone last sent. `history.actors` are the
nodes that had a word on the flag since everybody agreed on it, `history.shared`
the runs shared since.

| actions | code |
| --- | --- |
| `SetPreference`, `SetFlag`, `EditCatalogue` | listeners and the librarian |
| `BeginRun`, `TakeAppliance`, `TakePhone`, `MergeRun`, `HubTakes` | `star_sync` snapshot, merge and patch, and the hub's own half |
| `Offer`, `Send`, `Unreachable`, `NoAnswer`, `CommitAgain` | `member_offer`, `player_step` and its failures, the same run committed again |
| `WriteCatalogue`, `WriteListener`, `ListenerFails`, `Record`, `PowerCut` | `star_node::commit`: two transactions, `undo_parts`, `set_last_run` |
| `Visit`, `Tell`, `Upload`, `BreakOff` | a phone's visit (`MeshActivity.syncEdits`) |

### 2.7 `Backups`

A table stands as the number of the write that changed it last, and as `LeftOut`
in a copy that passed it over; a copy holds the tables it has come to so far.
`files` are the snapshots under their own
names, `copies` what the backup thread, an export and the copy made before a
restore are each writing, `player` how far a start, or a restore by hand, has
got.

| actions | code |
| --- | --- |
| `ThreadBegins`, `ExportBegins`, `CopyTable`, `CopyNamed`, `CopyNameless`, `Prune` | `snapshot`: into a `.part`, one table at a time, renamed, then `prune` |
| `PassOver`, `CopyFails`, `CopyEmpty` | its errors: a failed question whether a table exists reads as that it does not (`unwrap_or(0)`, noted in `history.unread`) and the copy goes on; any other ends it; so does having copied no table |
| `Stage`, `Unstage` | `stage`, and its cancellation, by the page |
| `Start`, `TakeDown`, `CannotTakeDown`, `SaveFirst`, `NoLongerThere`, `Restore`, `RestoreFails`, `Say` | `apply_staged` at a start: the stage taken down, what is there kept first, `put_back`, and how it went |
| `ByHand` | `restore_listener` |
| `Listen`, `Tick`, `Stop` | what is heard, the clock, and the end of the process |

## 3. What is abstracted

**Engine.**

* Samples, decoding and envelopes: a unit is heard or not. Fades have a length
  (`Fade`) and an overlap (`Lead`), not a shape.
* A tick is much shorter than a unit, so the device takes at most one unit
  between two looks (`unlooked`). A host stalled for longer than a skip's lead
  is therefore outside the model.
* The throttle of `persist` is a choice: a resume point whose key has not
  changed may or may not be written. `Command::Persist` and the write at exit
  (`force`) are not modelled; they would only write more.
* Each passage is queued at most once, so that verdicts can be counted per
  passage; `Without` leans on it, taking out the one entry of a passage where the
  code filters. Two entries of one passage in a row are a hazard listed and not
  covered.
* `remember_queue` skips the write when nothing changed since its own last one.
  The model writes every pass; the two differ only in the first pass after a
  start that leaves the queue empty.
* The prepared passage (`ready`), the pruning of the timeline, volume, settings,
  publishing, echo, warp and the A-B loop are left out. Preparation shows only
  as `BadHead`: a file that does not open leaves the queue before it is due.
* The two writes of `execute_queued_shutdown` are one step.
* A handover fades over its own length, in the model over `Fade` like a skip.
* A handover that would arrive with less than two seconds left starts at the
  next passage in the code; the model always carries the passage mixed.
  `HandBack` finds the guest at any passage it was given, at a place from
  `SeekPoints`; it has finished nothing if the local fade is still sounding.
* The engine's queue inside `Engine` is a sequence of passages: identifiers are
  the subject of `PassageQueue`.

**OutputPath.** A pass of the supervisor is atomic up to where it blocks, and
time is counted in `RETRY`. The engine and the web act between passes; moving
such a step to the next boundary changes nothing anybody reads. What the sound
server's lists say is an input (`world`), the ring is what is left in it or
nothing (`backlog`).

**Rotation, Marks.** A time is never, long ago or recent; every passage has keys;
whether a rest is over is a choice; what may have been declined before this run
(`FirstDeclined`) is a constant set of which any part may be. A handover
hands over only what is still mixed. The backend is the promise of `Playback`
and `Progress`, so the module speaks of both backends.

**Guest.** A round trip is one step, an `enqueue` likewise; at most one unit
sounds between two polls, which is what the sample interval is for. The local
engine plays only between handovers: during one it is read once, then stopped.
A handover to the local side carries in memory and refuses nothing. Stickers, the
watchdog on a stalled song and giving up on MPD for good are left out.

**Fleet.** Every conflict of a review takes the default it is shown with, stamps
are unique seconds, a union keeps any holder's row, the rehearsal of a commit
writes nothing and is no step. A phone's fetch and its application are one step,
and so are the inverse kept, `set_last_run` and the answer. The same run is
committed again only when the hub had no row of its own to write.

**Backups.** A calendar of equal periods; the clock's unit is the hour of the
thread and the second of a name at once, and does not go back; time goes on only
when the thread of a player that is up has made its snapshot; a restore by hand
and a player never run together. The listener's file has all its tables, so that
none is passed over but by `PassOver`. A `.part` that a failed copy left is not
under the name any more: the code would let another of the same second, whose
own it had removed, rename it. Columns that differ, plays re-pointed to
renumbered passages and what an export chooses are left out.

## 4. The runs

`tlc -config <name>.cfg <module>` with the module named in `PROJECT.json`. All
passing runs explore the whole state space of their instance.

| run | instance | checks |
| --- | --- | --- |
| `PassageQueue` | 2 passages, 6 identifiers, 4 entries, batches of 2 | distinct identifiers below the counter and one shutdown (`TypeOK`); `EntryIdentity` is implemented |
| `Engine_listen` | 3 passages of 5 units overlapping by 1, ring of 3, three commands out of play, pause, skip, next, now, remove, shift | types; nothing vanishes; one verdict each; nothing turned down unheard; nothing heard to its end is a skip; the display never goes back |
| `Engine_seek` | 2 passages of 4, two of seek to 2, skip, pause, play, shutdown, handover | credit is listening |
| `Engine_answers` | 3 passages of which one does not open and one is a person's pick; two of skip, pause, play, remove | everything queued comes to its verdict |
| `Engine_shutdown` | 3 passages; two of shutdown, next, play | the shutdown happens, interrupts nothing, leaves no resume point |
| `Engine_restart` | 3 passages of 3 without crossfade, ring of 2, two of power cut and skip | nothing plays twice; every pass leaves on disk what a restart needs; the resume position goes to its passage |
| `OutputPath` | both kinds of host, 2 holds, backoff up to 2, a watch every unit, restart after 1; one ask, two changes of the world | the device is found again in time, does what was asked last, and music paused by holds is put back |
| `Marks` | 2 passages sharing an artist, one perhaps declined lately; two queued by anyone, one rebuild, one restart or handover, a history that is written or is not | marks match notes; what was heard is known; only it counts; what is coming is known |
| `Guest` | a file, a capture and a passage MPD cannot play, of 4 units; two songs, one act of a client, one death of MPD, two handovers, three of these in all | credit is listening; what played out is a play; every offering is answered once (`Answers`); what a handover says it carried is held |
| `Guest_second_visit` | a file and a capture, three handovers | expects a violation: the second visit starts a song left from the first |
| `Fleet` | a hub, an appliance, a phone; two edits, two runs, one fault | the newest word is held; no half of a switch; all alike after a complete run; a word that is the only one stands |
| `Backups` | 2 tables, days of 1, months of 2, years of 4, 2 of each kept, clock from 3 to 7; one write, one export, one stage, two stops, two disk errors or failed questions, three of these in all | the ladder; only whole snapshots; what was written over is kept; put back once |

Between 4 and 5 units of a passage and a ring of 3 are enough for a passage to
be heard, to have left the mixer while still in the ring, to be past and short
of the play threshold (2 units, or `FourMinutes = 3`), and for a skip to cut
the ring (`Fade = 2`) with part of the incoming passage under it (`Lead = 1`).
Three passages are one heard, one mixed behind it and one waiting, which is the
most the engine's cases distinguish. Two or three commands reach every pair and
triple of them at every point of the schedule; selections by the Director
(`Enqueue`, and `Refill`'s) are not counted against the bound.

For the output path, two changes of the world are a loss and a return, or a
refusal that turns into another; a backoff of two doubles once and is then at
its most. For the marks, two passages that share a key are the least of which
one mark may undo the other's. For the guest, three upheavals are a handover
with something happening to MPD before it and after it. For the star, two edits
at two nodes and two runs are the least in which a patch meets a newer word or
a copy from an earlier run. For the backups, the clock begins in the last hour
of a year and goes on through two months of the next, the least in which each
of the three tiers keeps a snapshot no other does (leaving any of them out of
`Looked` refutes `LadderKept`); two stops and an error meet every point of a
restore, and two failed questions leave a copy of two tables with one or with
none. A day is one hour here, so that "the last of its day" is not put to the
test by the run; `LadderIsKept` holds for any calendar.

Some bounds exclude a disagreement that has an entry in section 5, and are
chosen for it: `Engine_restart` has no crossfade (an overlap in progress is not
on the disk) and no playing at once; `Engine_listen` has no restart (a resumed
passage can be a false skip) and no shutdown; `OutputPath` has `Prompt = TRUE`
(the engine has drained its commands when a transfer looks); `Fleet` has
`AtOnce = 1`, which no code at a node enforces (`web/settings.rs:237-252` gives
every request a thread of its own): only that the hub sends one at a time
stands for it. `MayBegin` in `Backups` lets each copier, and so the copy before
a restore, begin once in a second. Where a property itself names an exception
(`history.stray`, `past.missed`, `history.clashed`, `history.unread`), or
speaks of the first run shared since everybody agreed (`history.shared` in
`Fleet`), section 5 says what the code does in the case excepted. In each case
the rest of the property is what the run shows.

**Fairness.** `FairSpec` of `Engine` adds weak fairness of `Pass`, of
`DeviceTakes` and of `Prime`: the host's loop passes until it is shut down and
never waits on a command; an open device that is not silent keeps calling back;
a process that died is started again. Commands, mishaps and handovers are never
assumed to happen. The liveness properties are conditional on playing, since a
paused player rightly judges nothing. No other module assumes fairness: what the
supervisor must do eventually it must do in bounded time, and
`FoundAgainInTime` is stated with that bound, as a safety property.

**Deadlock** is checked, but for `Guest`, `Fleet` and `Backups`, whose bounds
count everything that can happen: there the system stops when they are used up
(MPD stopped with its songs and handovers spent; all runs made and all edits
merged; the clock at its end).

## 5. Where code and documents disagree

### 5.1 With a run

`Guest_second_visit`, indexed under `findings` in `PROJECT.json`:
`MpdBackend::resume_at` looks for the first of its own songs in the order of
its last poll. Neither that order nor its account of its songs is emptied when
playback is handed away, so that on a second visit it finds a song left over
from the first one, and seeks and starts it at the other's position -- the
mistake the comment at `mpd_backend.rs:1027` says is avoided.

### 5.2 In the local engine

Met with `Engine` by giving a run the commands or spans named here (otherwise
as `Engine_seek`: 2 passages of 4 overlapping by 1, ring of 3, `Fade = 2`,
`Lead = 1`):

* **A play counted twice.** `Switching` does not forward `head_counted`, so a
  handover always reads `false` and a play recorded locally is recorded again by
  the guest (`Asks` handoff, `MaxAsks` 2, `SeekPoints {0}`; `CountedOnce`).
* **The queue behind a shutdown.** Without power-off the pass after a queued
  shutdown admits the next passage, and the remembered queue is rewritten without
  it while the resume point stays empty (`Asks` shutdown;
  `UpcomingSurvivesShutdown`).
* **A skip onto the shutdown** clears unheard passages from the mixer with
  neither verdict nor drop (`Asks` skip and shutdown, `MaxAsks` 2;
  `NothingVanishes`).
* **A seek in a crossfade** returns the incoming passage to the queue and leaves
  its admission in the timeline: what sounds of it in the fade is judged a skip
  (`Asks` seek, `SeekPoints {0}`, ring of 4, `Fade = 3`, `Lead = 2`;
  `OneVerdict`).
* **A seek in a crossfade whose incoming passage is on screen already**, while
  the outgoing one is still mixed (a ring shorter than the overlap left): only
  the first of the mixer is kept, so the outgoing passage and the one shown are
  both put back in the queue while the shown one is opened again, and both play
  once more. The comment at `engine/mod.rs:1782` tells two cases apart and this
  is a third (`LeadUnits = 2`, ring of 1 or 2, `Asks` seek, `SeekPoints {2}`:
  a passage is queued and mixed at once).
* **A resume position astray.** `pending_resume` is taken by whatever is
  admitted first, which playing at once before the first pass makes another
  passage (`Asks` crash and now, `MaxAsks` 2; `ResumeIsItsOwn`).
* **A latch armed with nothing sounding.** `hand_off_to_silence` sets
  `handing_over` whenever the mixer holds something. A handover just after a
  skip (`Asks` handoff and skip; `NothingVanishes`) lets the skipped passage's
  departure consume it, and its skip is never recorded.
* **A latch spent on the passage before.** A handover after the next passage
  has begun to sound and before the engine has looked (`Asks` handoff with pause
  and play, with seek, or with skip; `HandoffDeclinesNothing`): the latch covers
  the one that ended, and the carried passage is recorded as skipped on this side.
* **A crossfade is not on the disk.** With an overlap (`LeadUnits = 1`,
  `APowerCutLosesNothing`) the passage fading in is neither the resume point
  nor in the remembered queue.
* **A resumed passage played to its end is a skip.** `heard_ms` starts at zero
  after a restart (`Asks` crash, `OnlyStoppedIsSkipped`).
* **A play completed by the tail is a skip.** The time heard since the last
  look is added on departure and the threshold is not asked again.
* **A skip, and a way back.** A seek into the last units of a passage lets it
  depart and be recorded as skipped; a seek back, or a handover of it, then plays
  the passage just declined.
* **A hard cut declines the unheard.** `skip_fade_ms` may be set to 0. A skip
  then empties the ring, and a passage that had just become the one judged, its
  first unit next for the device, departs before a listener was played any of
  it (`Fade = 0` in `Engine_listen`, `UnheardIsNotDeclined`).
* **Passages too short for the ring or their overlaps.** (Commands of
  `Engine_listen`, `MaxAsks` 2.) A skip takes only what the mixer still holds for
  unheard: one wholly mixed and not heard yet is cut from the ring with neither
  verdict nor drop (3 units, no overlap, ring of 4; `NothingVanishes`). The head
  departs when the next begins to sound, and an overlap of two units in five
  leaves it a skip with less than half credited, though it plays to its end
  (`LeadUnits = 2`; `OneVerdict`, `OnlyStoppedIsSkipped`). Cut in by a skip
  along a long fade it can fare likewise (4 units, or `Fade = 3`).
* **The tail is shown again.** A seek to less than `Fade - Lead` before the end
  (`Fade = 3`, `SeekPoints = {3}`, ring of 4, `ShownNeverGoesBack`).

`CountedOnce`, `UpcomingSurvivesShutdown` and `HandoffDeclinesNothing` stay in
`Engine` as statements the code does not keep.

### 5.3 On the path to the loudspeaker

* A hosted open that was given up on and succeeds late clears `ring.failed` with
  no stream held. Where the sink cannot be observed nothing looks again, and the
  player is silent for good (`history.stray`).
* A transfer reads whether music plays before the engine has drained the pause
  of the transfer before it (`Prompt = FALSE`): the music is never resumed.
* `refused.process_wide` outlives the refusal it was read from when the next
  error is another.
* A pause asked of no stream leaves `silent` unset, and a little of the ring
  sounds when one opens.
* A restart during a hold forgets the holds, and the music stays paused.
* A play and a pause of the listener's during a hold are overruled by its end.
* A hold and the end of another may send their messages in between each other's.
* Without systemd `await_device` ends after a restart was wanted and a device
  that comes later is not taken up.

### 5.4 Between session and Director

* `adopt` marks what is queued and what is at the head (`session.rs`, whose
  comment says the matter is settled). The second passage of a crossfade, and one
  heard and no longer mixed, are unmarked in the new Director; the play reported
  later finds no mark and is forgotten (`past.missed`).
* A person's pick whose outcome is still to be read when a rebuild lands is
  marked twice, and the second mark is settled as a play by the grace.
* Drops are taken before outcomes: a passage queued and removed within a pass
  leaves a mark that the grace settles as played.
* A pause longer than the grace, in a crossfade or over the tail of the ring,
  settles as played the mark of a passage not in sight.
* A rebuild adopted while the passage at the head is also first in the queue
  marks two playings once.
* A handover gives back the marks of what the other side refused before the
  session has heard of a person's last picks. Refusing a pick not told of yet, it
  closes another mark of that passage; the refill of the same pass then marks the
  pick, and the mark is left for the grace. A verdict told in between finds no
  mark, and after a second such handover a passage heard is unknown until its
  refill (`past.handed`).
* A handover in a crossfade loses the second passage, and one too short to carry,
  without an outcome; carried entries lose that a person chose them.

### 5.5 At the guest

* A passage handed over past its middle and played out is recorded by the local
  engine as played and by the guest as skipped (SPEC020:162-165).
* `status` and `currentsong` are two answers: a song is adopted under its
  successor's name if MPD goes on in between.
* Songs that a client deletes while the guest is not the live side retire as
  dequeued for passages now held locally; what it dropped then is taken back at
  the next handover, marks and all.
* A client's jump of up to two intervals is credited as heard.
* A passage moved is reported lost if an older offering of it was dropped.
* While MPD is lost `playing` and the length of its queue stay as they were, and
  every pass chooses a passage and drops it.
* With less left than is worth carrying there is no position to resume at and
  the guest stays stopped.
* MPD dying between `addid` and `rangeid` restores a whole capture, which comes
  back as somebody else's song.

### 5.6 In the star

* A lost acknowledgement has a phone apply its patch again: a flag received and
  then cleared comes back. So it does when the phone applied a patch, failed to
  upload and then cleared it, and when it fetches an earlier run's patch between
  the use of its older upload and the new offer.
* A commit whose answer is lost is refused as committed when tried again, and
  `state.json` does not learn of it: a later removal there is no evidence.
* A flag merged in a run that did not reach the node it came from, and removed
  there, returns (SPEC046:61).
* The union keeps the stamp of the holder that is first by name, and a later
  comparison uses an older one than the newest.
* The evidence of a removal lasts one run: `history_of` (`tools/star_sync.py:875`)
  is given what a node was last sent, and that is without the flag once the
  removal was shared. A node that has not got the patch by then, because it was
  missing from that run or because it is a phone that has not come for it, brings
  the flag back in the next complete run, with no fault (`TheOnlyWordStands`
  without `history.shared = 1`, a hub, a phone, three runs; SPEC046:61 and
  :93).
* A phone's earlier uploads are evidence of what it removed, by the time it
  uploaded. A flag removed at the phone, and set again elsewhere before the
  phone's upload without it was taken, is removed again in a later run.
* A power cut between the two commits leaves half a switch
  (`star_node.rs:18-20`); one before `set_last_run` has the retried run overwrite
  its inverse with an empty one.
* Two handlers at once (`AtOnce = 2`) move `last_run` back, and one's failure
  undoes the catalogue under the other.

### 5.7 In the backups

* A staged snapshot is rotated away by the hourly thinning before the next
  start: `StagedIsThere`, which stays in `Backups`, is refuted in the run's
  instance. The comment says it is refused "now" and "not at a start nobody is
  watching" (REQ003:220).
* A snapshot is copied table by table, each read on its own, and may be a state
  that never was (`backup.rs:59-62`, "Restored together or the resume is half a
  resume").
* A failed question whether a table exists is read as that it does not
  (`backup.rs:155-164`), the table is left out, and as long as one other was
  copied the snapshot gets the good name. The same file says that a
  "half-written snapshot must never look like a good one" (133) and, of a
  snapshot read and put back, that no failed query is read as zero (269-271,
  332-333, "review O-04"). Such a snapshot thins whole ones of its day away, and
  a copy kept before a restore may lack a table that the restore then writes
  over. `OnlyWholeSnapshots` and `WhatWasIsKept` except the tables so passed
  over, and no others; without that exception (`Holds` as
  `f.holds[t] # LeftOut`) TLC refutes both in the run's instance, in five and
  in eleven steps: a thread's copy passes over its first table and is named; a restore by
  hand names a copy without a table that the snapshot put back holds.
* Of two snapshots begun in one second the second removes the first's temporary
  file, and the first to finish gives the other's half-written one the good
  name (`history.clashed`).
* No integrity check is made before a generation is written (SPEC006:171).
* A restore from a partial snapshot restores the tables it has, silently.
* A power cut after the stage is taken down loses the restore; one after the
  restore leaves the page without an outcome.
* After a clock set back the newest is still chosen by its name. Two restores by
  hand within a second overwrite the copy kept first; and `restore_listener` asks
  only once whether a player is running.

## 6. The proofs

`tlapm <module>.tla` for the eight modules named `...Proofs`. The provers take
the constants as arbitrary values satisfying the ASSUMEs of the component's
module, which TLC evaluates in every run; an assumption of a theorem's own is
named below. `PROJECT.json` lists each theorem with the property it states. An
invariant the runs check is seldom inductive; each paragraph gives the
strengthening and why it is needed.

**The queue** (`PassageQueueProofs`). That identifiers stay
distinct needs every identifier to be below the next one to be given out, and
that one shutdown waits needs entries to survive a move as what they were:

    Sound == Numbered /\ Unambiguous /\ OneShutdown

The argument goes through lemmas on the operators of `QueueOps`, one per
operation: what entries it leaves, from where, and at which place. From `Sound`
follow `TypeCorrect`, `QidsAreDistinct`, `ShutdownIsAlone`; and since every
step either drops entries or adds ones stamped at or above the old counter,
`IdentityImplemented`: initial states map to initial states of `EntryIdentity`
and every step to a step of it or to a stutter. `PassagesAssumption` (the
shutdown is not itself a passage) is what separates an added passage from a
second shutdown.

**The engine** (`EngineProofs`, and `EngineAnswersProofs` for the three theorems
on verdicts). The two facts about inserting and removing come from the queue's
proofs, by an instance of them.

* `TypeCorrect`. `TypeOK` says more than types: every admission named by the
  mixer, the ring, the display or the judgement was made; nothing is mixed past
  its end; the ring stays within its capacity; one shutdown waits at most, and
  none gets onto the disk or to the other backend. It falls into the queue and
  four groups, `Sounding`, `Judging`, `Keeping` and `Telling`, and each action
  keeps each. The roll of admissions only grows (`Extends`), so what named an
  admission names it still; a skip is the same from whatever queue it starts, so
  `Skip`, `PlayNow` and `HandOff` share a lemma (`AfterSkip`). That a set of
  contributions has a latest and an eldest member comes, without induction, from
  the library's fact that finite sets are well founded (`LeastOfAny`).
* `ShutdownHasTheLastWord`. Most actions touch neither the disk nor the flag;
  `Refill`, `HandOff` and `HandBack` write the queue column only, `Persist` is
  stopped by the flag, `Play` clears it.
* `UnheardNeverDeclined`, with `Fade > 0` (section 5 has the counterexample for
  a hard cut). The verdict falls a pass or more after the passage was heard, so
  the invariant is `HeardOut`: what was heard last has been listened to, and the
  head being judged has been listened to or covers the device's read position. A
  departing head cannot be the passage under the read position. Nothing but the
  device may take the front of the ring away: a cut keeps its first unit and lays
  the newcomer only beyond `Lead` units (`CutFront`, `FrontIsHeardOf`).
* `CreditIsOnlyListening`. Credit is the distance between two reports of the
  display, so it is listening only if the ring holds each passage as a straight
  line. `Credible` says how: `Lying`, that the units of an admission in the ring
  are single, in step, unbroken, begin where what was heard of it ends, and go on
  to what is mixed; `HasHeard`, what the device took of it; `Judged` and
  `Truthful`, that neither the judgement nor a report on its way is ahead of
  that. A seek leaves a gap and is admitted anew; a skip's crossfade lays two
  lines over each other, each straight.
* `NothingIsQueuedTwice`, if nobody seeks. `OnceEach`: what waits, what was
  carried away and what the disk holds is there once and was offered before, and
  what is being mixed waits no more; `Silent`: a player that is not in charge
  has nothing queued and mixes nothing. An edit of the queue only ever draws
  from it (`OnceDrawn`), a refill adds what was never offered (`RefillAdds`). A
  seek is excluded because of the seek in a crossfade of section 5, which the
  real ring of some fifteen seconds makes rare.
* `ResumeOpensItsOwn`, if no command edits the front of the queue (section 5 has
  what playing at once does). `Resuming`: a
  saved position is pending only until the next pass mixes, nothing mixes
  meanwhile, and the passage it is meant for is at the front.
* `ShutdownComesAfterAll`, if nobody skips, seeks, removes, hands over or pulls
  the plug (`NobodyInterrupts`): those are the ways to end a passage early. The
  invariant is `Uninterrupted`, on top of `Credible`: each passage offered waits
  or was admitted once (`AdmittedOnce`), and from its start (`FromTheStart`);
  what was listened to of it is where the device got to in it (`Accounted`); and
  until that is its end, the mixer has it or its last unit is in the ring
  (`ToTheEnd`). The shutdown falls due when nothing mixes and the ring is empty,
  so what was admitted was then listened to in full.
* `DisplayNeverGoesBack`, with everything a listener and the power can do, if
  what a cut brings in lasts as long as the fade it is laid along
  (`CutsAreCovered`; section 5.2 has what happens otherwise), and if nobody both
  seeks and hands over while also editing the front of the queue
  (`SeeksHaveTheMixer`). The display follows the latest admission of what the
  device reads, so that one must only ever move on. `Ordered`: the mixer holds
  the latest admissions there are, and the later of two has more left to mix
  (`Topmost`); once something later than a unit of the ring sounds, all the units
  after it have it (`Rising`); the display is not ahead of what is heard or
  announced (`Promised`); and a saved position waits for an empty mixer
  (`Waiting`), or what it opens could be shorter than what it is mixed over.
* `EverythingIsAccountedFor`, `VerdictsAreFinal` and `HeardOutIsNoSkip`
  (`NothingVanishes`, `OneVerdict`, `OnlyStoppedIsSkipped`), for all that
  `Engine_listen` lets a listener do (`ListenersAsk`: play, pause, skips, and
  every edit of the queue), and for passages with room (`Roomy`): no shorter than
  the ring, and with half of them and a unit or two outside any overlap and
  outside the fade a skip lays them along. The code does not see to that; passages of
  minutes have it. Each condition is needed: with one of them missed by a unit
  TLC refutes a property (section 5.2), and `Engine_listen` meets them with
  nothing to spare. The invariant is `Answering`, in five parts on top of those
  above. `Whole`: nothing is opened but at its start, and none twice. `Lined`: of
  two that sound or mix together the earlier is past its half (`Far`) or was
  stopped, and what was not come to yet is still mixed (`ToBeHeard`), so that a skip
  finds it. `Current`: the head is credited with all but two units of what was
  heard of it. `Noticed`: every admission has been met by the judgement, is mixed,
  or sounds and will be met by the next look; this is what binds the device,
  which takes a unit at any time, to the engine, which looks once a pass.
  `Settled`: what has a verdict has one, is not mixed unless it played, and is
  `Gone` unless it is the head; what was declined was `Stopped`. A head that
  departs with less than half credited was then stopped, for had it only been
  overtaken it would be past its half (`BehindHeard`, `HeadGone`). That `Nobody`
  is no passage (`NobodyAssumption`) tells an empty head from one.

**The output path** (`OutputPathProofs`). `TypeCorrect`; `RefusedWhileOut`, with
`OnRecord`: who opens a stream has one that failed. `DeviceObeys` needs
`Attuned`: the last play or pause still in the channel is what the engine does,
and what a stream was told agrees with it, a stream on trial included (`Heeded`,
`Flagged`, `Trial`). `MusicComesBack`, with `Prompt = TRUE`, needs `Squared`: who
still has a step to make is a hold on the list or one that ended (`Accounts`), a
pause on its way is remembered as the transfer's (`Remembered`), and what is owed
somebody is about to pay (`Owing`). `HeardAgainInTime` carries `Timely`: music
not heard is not heard because a wait runs (`Present`), and the time without
sound and the wait still to come, together, never exceed the longest wait
(`Counting`).

**The Director's marks** (`MarksProofs`). `MarksAddUp`, `TakenBackUnheard`
and `EitherOrder` are about the operators that mark, close and decline: with
`Consistent(d)` they keep the count of open marks, what is held from before them
and the stamps together; a mark taken back leaves no trace, and marks may be
closed in any order.

`TypeCorrect`, `EveryMarkHasItsNote` and `NothingElseCounts` follow from one
invariant: the session, as a refill takes it up (`Now`), is `Honest` about what
it was told and what the history says was played. `Matched`: the marks open on a
key are as many as there are (passage, number) pairs noted of passages that have
it (`NotedOn`), so that one more note of a passage is one more pair for each of
its keys. `Earned`: what a key holds beside its open marks (`Base`: its stamp
if none is open, else what it held before them) is what it held before this run,
or recent with somebody having heard it; that is why a mark taken back in any
order puts back something true. `ReadFrom` says the same of what the
other thread read, so that a Director just loaded is honest too. A refill is
four folds (drops, outcomes, marks in a new Director, replayed verdicts) and one
over the grace's passages; each is a function on indices (`InTurn`), whose least
index that breaks a property would be a step that breaks it (`RunStays`), and
each has one lemma. The library is assumed finite (`LibraryAssumption`), so that
the passages whose grace is over can be listed.

`WhatWasHeardIsKnown` and `WhatIsComingIsKnown` rest on an account of every passage,
`KInv` (`AccountsStayEven`), which is inductive with `IInv`. Of a passage the Director
is `Sure`: beside the open marks all its keys are recent, or its playing was out of
sight when the Director was adopted (`past.missed`). Or what waits to be told will
make it so: the outcome that says it was played comes while a mark is left for it
(`Answered`). Or the marks noted of it, and those still asked for, cover all that
may yet be said of it -- what is queued, out, dropped and waiting to be told -- and
one more if it was told as played and is not known for it (`Balanced`, `Once`). The
account is kept twice, since what was counted while it sounds has had its word:
`Pending` leaves it out, and `Standing` has it, because a handover sounds it
again as something nobody counted. `OneCountedAtMost` makes the two differ by
the first one out. `Recalls` and `Refuses` say what follows for what was told.
`Holds` and `Keeps` say that it is in the history, or in what the other thread has
read of it, or in the list kept for the Director being built, so that the one
adopted has an even account from the start. `Clear`: no outcome waits while a
choice is made. A list's entries are counted up to an index (`CountTo`), and what
a fold does to an account is one step for each.

The proof found what no run had. `KnowsWhatWasHeard` was false after a second
handover that refuses a pick not told of yet (section 5.4), until the refill of
the same pass; it now says `~past.handed`. The runs have one handover.

**The guest** (`GuestProofs`). `GuestAnswers`: `Guest` implements `Answers`,
where every passage offered gets at most one answer. `Consistent` joins what the
poll, the queue order and the guest's own account say of a song: an answered
song is in none of them, and an unanswered one in exactly the places a later
answer is taken from (`Shaped`, `Queued`, `Holds`, `Polling`).

* `CreditIsWhatSounded` adds `Honest`: an identifier the backend knows is, in
  MPD's queue, the song it stands for, and so is the one a poll asks about
  (`Named`); and not only what is credited, but what the next sample would add to
  it, is no more than sounded (`Truthful`), the first sample of a song about to be
  adopted included. Without the second half one sample too many would break it.
* `TypeCorrect` adds what types alone leave out: every label names a passage
  (`Labelled`), and the stages are the ones there are (`Staged`). What a filter of
  MPD's queue keeps is in lemmas on `Those`.
* `PlayedOutCounts`: a passage played out is recorded as played so long as it is six
  sample intervals long, and six more for every act of a client or of the bar,
  death of MPD and handover so far (`Upheavals`). The invariant is `Reckoned`.
  `AllEven`: what sounded of a song played from its start, and what may yet go
  unseen of it (`Gap`), exceeds its credit by no more than those events cost
  (`Leeway`, less what a handover under way may still cost), wherever the credit
  is kept (`Counted`): by the backend, by the poll about to adopt the song, or
  nowhere yet. `Unheld` and `Unlinked` carry that over a song not adopted and a
  connection lost. `Judged` is what is left of it once there is a verdict. A unit
  is the interval of the samples, and a passage lasts hundreds of them.
* `CarriedIsHonest` adds `Carrying`: while a queue is carried each of its
  passages is still to be offered, was refused or given back, or is held.

**The star** (`FleetProofs`). `AtOnce = 1` is assumed where section 5.6 shows
what two handlers at once do.

* `TypeCorrect`, and `NewestWordStays` with the order of stamps (`Ordered`): a
  patch carries a row forward only, and the merge takes the latest of those a
  node held.
* `HalvesGoTogether`: `Halved` follows a piece of work from step to step
  (`InStep`), and says what is settled once there is none (`Settled`).
* `RunLeavesAllAlike`: while a run is undisturbed every node it took holds what
  was taken or, once the run is shared, what was merged, and a patch or a commit
  under way is that run's (`Boxed`, `Followed`). Reaching everybody then leaves
  everybody with what was merged.
* `OnlyWordPrevails`: the evidence of a removal is as old as the flag it is
  evidence of (`Evidenced`). Until a run is shared after a first word, the
  others all lack the flag and what the node has is newer than any evidence, or
  they all have it and the node is known to have held it since (`SpokenAlone`),
  so that the merge takes that word (`WordTaken`). The proof was begun for any
  run after the word; the step for a second run would not go through, and TLC
  then refuted it with a third run (section 5.6). The property now speaks of
  the first run shared.

**The backups** (`BackupsProofs`). `TypeCorrect`; `PutBackAtMostOnce` (`Once`: a
stage is down before anything is put back). What is true of a copy under way is
`Asked`: of each table it came to it has a state, or the question failed and
`history.unread` says so; no later step forgets that (`UnreadGrows`), and
`LeftOut` is no state of a table (`LeftOutAssumption`). `WrittenOverIsKept` needs
it for the tables passed over, `Fresh` (the name a copy will get is taken by
nothing), `Verbatim` (what the safety copy has of a table is what stands, since
nothing is written while it is made) and `Preserved`; that no thinning takes it
is `SafeStays`. `NoneIsHalf` needs `Asked` and
`Apart`: no two copiers have one name. `LadderIsKept` compares what is there
with what one thinning of all that was ever taken would leave, which no step
computes. `Laddered` says that what is there was taken, that whatever is wanted
of all taken is there, and that what an idle copier wrote is no snapshot yet.
Two facts about the ladder carry it: a thinning of any part of the times keeps
what is wanted of all of them and belongs to the part (`ThinnedKeeps`), and
a time added makes nothing wanted that was not (`WantedBefore`).

**Only model-checked, and why.**

* Liveness (`EverythingIsAnswered`, `ShutdownHappens`): the prover has neither
  ENABLED nor fairness.
* `APowerCutLosesNothing`, which needs there to be no crossfade (section 5.2).
* `PlayedOutIsAPlay` below the bound of its theorem, which suffices and is not
  exact. The run (`Span = 4`, up to three upheavals) lies below it, and TLC finds
  that it holds there. With `MaxClients` and `MaxEvents` 4 it does not: a song
  started, stopped after a unit and started again is recorded as skipped, since
  each start costs the sampler what it had not seen yet.

## 7. Not modelled

`PROJECT.json` gives the reason beside each component. Signal processing and
statistics (decoding, stretch, equalizer, crossfade envelopes, the Director's
weights) have no protocol to check. Echo is arithmetic on rates. Membership,
pairing and trust are a handshake of keys, but for records merged
last-writer-wins. Bundles and the library database are queries and formatting,
as are the web routes that are no transfer. Hosts, peripherals, tools and the
Android application are input and output, but for the star's.

The lines the modules stand for are about a thirteenth of the implementation,
for that reason: the control that the properties are about is in few of them.

## 8. The plan

1. Membership: records merged last-writer-wins, and a retirement that meets an
   edit; scrubbing.
2. Echo's debts and gaps as bounded arithmetic.
3. In the engine: a decode error in the middle of a passage, the second write of
   a queued shutdown, the attempts of a resume, a stall of the host longer than
   a skip's lead.
4. Theorems: the same three with a shutdown queued, a seek or a handover, each
   without the cases of section 5.2; `APowerCutLosesNothing` without a crossfade.
