----------------------------- MODULE OutputPath -----------------------------
(***************************************************************************)
(* The path to the loudspeaker: the supervisor thread of path.rs that owns *)
(* the device, the stream it holds, the engine that only writes into a     *)
(* ring and asks, and the transfer holds of web/transfer.rs that pause the *)
(* music and take the output away for a while.                             *)
(*                                                                         *)
(* Time is counted in units of RETRY.  A pass of the supervisor and one of *)
(* the engine are far shorter, so time moves only between passes.          *)
(*                                                                         *)
(* Beside some definitions stands an altered form, as a plausible mistake  *)
(* would have written it; no specification refers to one.                  *)
(***************************************************************************)
EXTENDS Naturals, Sequences, FiniteSets

CONSTANTS
    RetryMax,       \* RETRY_MAX, in units of RETRY
    Watch,          \* WATCH
    RestartAfter,   \* RESTART_AFTER
    Hosts,          \* the kinds of host explored, of "pipewire" and "windows"
    Holds,          \* transfer holds, by their identifiers
    Prompt,         \* the engine has drained its commands when the web looks
    MaxAsks,        \* bound: what the listener asks for
    MaxFaults       \* bound: changes of the world

ASSUME SpansAssumption ==
    RetryMax \in Nat \ {0} /\ Watch \in Nat \ {0} /\ RestartAfter \in Nat
ASSUME HostsAssumption == Hosts \subseteq {"pipewire", "windows"}
ASSUME PromptAssumption == Prompt \in BOOLEAN
ASSUME BoundsAssumption == MaxAsks \in Nat /\ MaxFaults \in Nat

VARIABLES
    host,           \* which kind of host this is: what it can observe
    world,          \* what an open would find
    path,           \* the supervisor, its stream and the ring's flags
    requests,       \* the supervisor's channel of PathRequests
    playing,        \* Engine::playing, published as the snapshot's
    commands,       \* the engine's channel
    transfer,       \* Holds: live and paused; and what each has to send
    late,           \* a fresh thread given up on is still opening
    history         \* bounds, and what the properties look back at

vars == <<host, world, path, requests, playing, commands, transfer, late, history>>

Smaller(a, b) == IF a < b THEN a ELSE b
Larger(a, b) == IF a > b THEN a ELSE b
Less(n) == IF n = 0 THEN 0 ELSE n - 1

Requests == {"play", "pause", "reopen", "quiet", "unquiet"}

\* What the world can be for a host.  Only a host whose sinks can be observed
\* has a dummy; only Windows refuses a device that is there.
WorldsOf(h) == IF h = "pipewire" THEN {"speaker", "dummy", "absent"}
               ELSE {"speaker", "absent", "refusing", "refusing here"}

Opens(w) == w \in {"speaker", "dummy"}

\* Altered: the sink is never looked at.
NeverLooked(p) == FALSE

\* sink::current().audible = Tristate::No
SeenSilent(p) == host = "pipewire" /\ p.stream = "dummy"

\* PathHandle::audible
Audible == path.mode = "running" /\ ~path.failed

\* A run of refusals, dated from the first.
NotRefused == [some |-> FALSE, since |-> 0, wide |-> FALSE]

NewPath(w) ==
    [mode |-> IF Opens(w) THEN "running" ELSE "awaiting", pc |-> "idle",
     playing |-> FALSE, reattach |-> FALSE, backoff |-> 1,
     retryIn |-> IF Opens(w) THEN 0 ELSE 1, watchIn |-> Watch,
     refused |-> NotRefused, mayRestart |-> TRUE, looked |-> FALSE,
     stream |-> IF Opens(w) THEN w ELSE "none",
     failed |-> FALSE, silent |-> FALSE, backlog |-> FALSE]

NewTransfer == [live |-> {}, paused |-> FALSE, todo |-> [h \in Holds |-> <<>>]]

Resumed == IF playing THEN <<"play">> ELSE <<>>

Init ==
    /\ host \in Hosts
    /\ world \in WorldsOf(host)
    /\ path = NewPath(world)
    /\ playing \in BOOLEAN
    /\ requests = Resumed
    /\ commands = <<>>
    /\ transfer = NewTransfer
    /\ late = FALSE
    /\ history = [asks |-> 0, faults |-> 0, ended |-> {}, owed |-> FALSE,
                  stray |-> FALSE, deaf |-> 0]

\* The process that asked for it is started again: what refused the old one
\* opens for the new, the holds are forgotten, and it resumes as it was.
Restart ==
    /\ path.mode = "restarting"
    /\ world' = IF world \in {"refusing", "refusing here"} THEN "speaker" ELSE world
    /\ path' = NewPath(world')
    /\ requests' = Resumed
    /\ commands' = <<>>
    /\ transfer' = NewTransfer
    /\ late' = FALSE
    /\ history' = [history EXCEPT !.ended = @ \cup transfer.live,
                                  !.owed = FALSE, !.stray = FALSE, !.deaf = 0]
    /\ UNCHANGED <<host, playing>>

-----------------------------------------------------------------------------
(* A pass of the supervisor's loop, as what each part makes of the path.   *)

\* Output::set_playing: nothing without a stream, not even the flag.
SetPlaying(p, on) == IF p.stream = "none" THEN p ELSE [p EXCEPT !.silent = ~on]

\* Output::release
Released(p) == [p EXCEPT !.stream = "none", !.failed = TRUE]

AtOnce(p) == [p EXCEPT !.retryIn = 0, !.backoff = 1]

\* One request taken.
Taken(p, r) ==
    CASE r = "play"    -> [SetPlaying(p, TRUE) EXCEPT !.playing = TRUE, !.watchIn = 0]
      [] r = "pause"   -> [SetPlaying(p, FALSE) EXCEPT !.playing = FALSE]
      [] r = "reopen"  -> [AtOnce(p) EXCEPT !.failed = TRUE]
      [] r = "quiet"   -> [(IF p.stream = "none" THEN p ELSE Released(p)) EXCEPT !.reattach = FALSE]
      [] r = "unquiet" -> IF p.stream = "none" THEN [AtOnce(p) EXCEPT !.reattach = TRUE] ELSE p

\* watch: only an observed No acts.
Watched(p) ==
    IF p.playing /\ ~p.failed /\ p.watchIn = 0
    THEN [p EXCEPT !.watchIn = Watch, !.failed = SeenSilent(p)]
    ELSE p

\* Altered: the backoff has no end.
DoubledForEver(b) == 2 * b

Doubled(b) == Smaller(2 * b, RetryMax)

\* recover: whether this pass tries, and its start.  Released, it waits out
\* the settle before it opens.
Tries(p) == (p.playing \/ p.reattach) /\ p.failed /\ p.retryIn = 0

Trying(p) == [Released(p) EXCEPT !.pc = "open", !.backoff = Doubled(@),
                                 !.retryIn = Doubled(p.backoff)]

\* Refused::wants_restart
WantsRestart(p) ==
    p.refused.some /\ p.refused.wide /\ p.playing /\ p.refused.since >= RestartAfter

\* The end of a pass: restart_if_refused, asked once; and of a reattachment.
Concluded(p) ==
    [p EXCEPT !.pc = "idle", !.looked = TRUE,
              !.reattach = @ /\ p.failed,
              !.mayRestart = @ /\ ~WantsRestart(p),
              !.mode = IF WantsRestart(p) /\ p.mayRestart THEN "restarting" ELSE @]

Supervising(pc) == path.mode = "running" /\ path.pc = pc

\* A pass up to where it may block: one request, or none within IDLE.
Pass ==
    /\ Supervising("idle")
    /\ requests # <<>> \/ ~path.looked
    /\ LET p == Watched(IF requests = <<>> THEN path ELSE Taken(path, Head(requests)))
       IN path' = IF Tries(p) THEN Trying(p) ELSE Concluded(p)
    /\ requests' = IF requests = <<>> THEN <<>> ELSE Tail(requests)
    /\ UNCHANGED <<host, world, playing, commands, transfer, late, history>>

\* Output::attach, then adopt: the callback runs and the failure is cleared,
\* and only then is the backlog thrown away.
Attached(p) ==
    [p EXCEPT !.stream = IF Opens(world) THEN world ELSE "speaker",
              !.failed = FALSE, !.backlog = FALSE, !.pc = "opened"]

NotStray == history' = [history EXCEPT !.stray = FALSE, !.deaf = IF history.stray THEN 0 ELSE @]

\* Output::recover, on the supervisor's own thread.
Open ==
    /\ Supervising("open")
    /\ \/ Opens(world) /\ path' = Attached(path) /\ NotStray
       \/ world = "absent" /\ path' = Concluded(path) /\ UNCHANGED history
       \/ /\ world \in {"refusing", "refusing here"}
          /\ path' = [path EXCEPT !.pc = "fresh"]
          /\ UNCHANGED history
    /\ UNCHANGED <<host, world, requests, playing, commands, transfer, late>>

Refused(p, wide) ==
    [p EXCEPT !.refused = [some |-> TRUE, since |-> p.refused.since, wide |-> wide]]

\* Output::recover_on_fresh_thread, after a refusal on this one; the thread
\* may not answer within HOSTED_WAIT.
OpenFresh ==
    /\ Supervising("fresh")
    /\ \/ /\ Opens(world) \/ world = "refusing here"
          /\ path' = Attached(path) /\ NotStray /\ UNCHANGED late
       \/ /\ world \in {"absent", "refusing"}
          /\ path' = Concluded(Refused(path, world = "refusing"))
          /\ UNCHANGED <<late, history>>
       \/ /\ path' = Concluded(Refused(path, FALSE))
          /\ late' = TRUE
          /\ UNCHANGED history
    /\ UNCHANGED <<host, world, requests, playing, commands, transfer>>

\* The thread given up on opens after all: it clears the failure, finds its
\* channel closed, and closes the stream.
LateOpen ==
    /\ late /\ commands = <<>>
    /\ late' = FALSE
    /\ path' = [path EXCEPT !.failed = FALSE]
    /\ history' = [history EXCEPT !.stray = TRUE]
    /\ UNCHANGED <<host, world, requests, playing, commands, transfer>>

\* Altered: a stream opens as the callback left it, whatever was asked since.
OpenedAsItWas ==
    /\ Supervising("opened")
    /\ path' = Concluded(
           IF SeenSilent(path) THEN [path EXCEPT !.failed = TRUE]
           ELSE [AtOnce(path) EXCEPT !.refused = NotRefused])
    /\ UNCHANGED <<host, world, requests, playing, commands, transfer, late, history>>

\* opened: a dummy accepts audio for ever and is no recovery.
Opened ==
    /\ Supervising("opened")
    /\ path' = Concluded(
           IF SeenSilent(path) THEN [path EXCEPT !.failed = TRUE]
           ELSE [SetPlaying(AtOnce(path), path.playing) EXCEPT !.refused = NotRefused])
    /\ UNCHANGED <<host, world, requests, playing, commands, transfer, late, history>>

\* A process that started without a device, await_device: a request to reopen
\* is tried at once.
AwaitReceive ==
    /\ path.mode = "awaiting" /\ requests # <<>>
    /\ requests' = Tail(requests)
    /\ path' = [path EXCEPT !.retryIn = IF Head(requests) = "reopen" THEN 0 ELSE @]
    /\ UNCHANGED <<host, world, playing, commands, transfer, late, history>>

\* A device that opens is a reason to start again under systemd; elsewhere the
\* thread ends, and says so.
AwaitOpen ==
    /\ path.mode = "awaiting" /\ requests = <<>> /\ path.retryIn = 0
    /\ path' = IF Opens(world)
               THEN [path EXCEPT !.mode = IF host = "pipewire" THEN "restarting" ELSE "ended"]
               ELSE [path EXCEPT !.backoff = Doubled(@), !.retryIn = Doubled(path.backoff)]
    /\ UNCHANGED <<host, world, requests, playing, commands, transfer, late, history>>

-----------------------------------------------------------------------------
(* The engine: it forwards, and mixes only into what is audible.           *)

\* Sending, and deciding what to send, touch nothing a pass uses once it has
\* taken its request; taking them between passes leaves out no outcome.
BetweenPasses == path.pc = "idle" /\ path.mode # "restarting"

\* drain_commands: Play, Pause, ReopenOutput, QuietOutput.
Drain ==
    /\ commands # <<>> /\ BetweenPasses
    /\ LET c == Head(commands) IN
       /\ playing' = IF c.what \in {"play", "pause"} THEN c.what = "play" ELSE playing
       /\ requests' = IF path.mode = "ended" THEN requests ELSE Append(requests, c.what)
       /\ history' = [history EXCEPT !.owed =
              \/ c.what = "pause" /\ c.by = "transfer" /\ (@ \/ playing)
              \/ c.what \notin {"play", "pause"} /\ @]
    /\ commands' = Tail(commands)
    /\ UNCHANGED <<host, world, path, transfer, late>>

\* Engine::tick: nothing audible means nothing advances.
Mix ==
    /\ playing /\ Audible
    /\ ~path.backlog
    /\ path' = [path EXCEPT !.backlog = TRUE]
    /\ UNCHANGED <<host, world, requests, playing, commands, transfer, late, history>>

\* The listener plays, pauses, or picks another output.
Ask(c) ==
    /\ history.asks < MaxAsks
    /\ BetweenPasses /\ commands = <<>>
    /\ history' = [history EXCEPT !.asks = @ + 1]
    /\ commands' = <<[what |-> c, by |-> "listener"]>>
    /\ UNCHANGED <<host, world, path, requests, playing, transfer, late>>

-----------------------------------------------------------------------------
(* Transfer holds: decided under a lock, sent after it.                    *)

Looks == BetweenPasses /\ (Prompt => commands = <<>>)

Said(holds, what) == IF holds THEN <<what>> ELSE <<>>

\* Altered: each hold remembers for all whether it was the one that paused.
HoldAnew(h) ==
    /\ Looks
    /\ h \notin transfer.live \cup history.ended
    /\ LET first == transfer.live = {}
           pause == first /\ playing
       IN transfer' = [live   |-> transfer.live \cup {h},
                       paused |-> pause,
                       todo   |-> [transfer.todo EXCEPT ![h] =
                                      Said(pause, "pause") \o Said(first, "quiet")]]
    /\ UNCHANGED <<host, world, path, requests, playing, commands, late, history>>

\* Holds::hold, on a shared radio.
Hold(h) ==
    /\ Looks
    /\ h \notin transfer.live \cup history.ended
    /\ LET first == transfer.live = {}
           pause == first /\ playing
       IN transfer' = [live   |-> transfer.live \cup {h},
                       paused |-> transfer.paused \/ pause,
                       todo   |-> [transfer.todo EXCEPT ![h] =
                                      Said(pause, "pause") \o Said(first, "quiet")]]
    /\ UNCHANGED <<host, world, path, requests, playing, commands, late, history>>

\* Holds::release, when it is released or expires: only the last undoes.
End(h) ==
    /\ Looks
    /\ h \in transfer.live /\ transfer.todo[h] = <<>>
    /\ LET last == transfer.live = {h}
       IN transfer' = [live   |-> transfer.live \ {h},
                       paused |-> transfer.paused /\ ~last,
                       todo   |-> [transfer.todo EXCEPT ![h] =
                                      Said(last, "unquiet") \o Said(last /\ transfer.paused, "play")]]
    /\ history' = [history EXCEPT !.ended = @ \cup {h}]
    /\ UNCHANGED <<host, world, path, requests, playing, commands, late>>

\* What a hold decided is sent, one command at a time; a resume only to a
\* player that is not playing.
Send(h) ==
    /\ BetweenPasses
    /\ transfer.todo[h] # <<>>
    /\ LET c == Head(transfer.todo[h]) IN
       /\ (c = "play" /\ Prompt) => commands = <<>>
       /\ commands' = IF c = "play" /\ playing THEN commands
                      ELSE Append(commands, [what |-> c, by |-> "transfer"])
    /\ transfer' = [transfer EXCEPT !.todo[h] = Tail(@)]
    /\ UNCHANGED <<host, world, path, requests, playing, late, history>>

-----------------------------------------------------------------------------
(* The world, and time.                                                    *)

\* The speaker comes or goes, or the host begins to refuse.  A stream that led
\* to it dies with an error, or is moved without one where a dummy takes over;
\* whether one is moved back from a dummy is the host's affair.
WorldChanges ==
    /\ history.faults < MaxFaults /\ commands = <<>>
    /\ \E w \in WorldsOf(host) \ {world} :
           /\ world' = w
           /\ history' = [history EXCEPT !.faults = @ + 1,
                                         !.deaf = IF w = "speaker" THEN @ ELSE 0]
           /\ IF path.stream \in {"none", "dead"} \/ w \in {"refusing", "refusing here"}
              THEN UNCHANGED path
              ELSE \/ Opens(w) /\ path' = [path EXCEPT !.stream = w]
                   \/ path.stream = "dummy" /\ UNCHANGED path
                   \/ path' = [path EXCEPT !.stream = "dead", !.failed = TRUE]
    /\ UNCHANGED <<host, requests, playing, commands, transfer, late>>

Heard == path.stream = "speaker" /\ ~path.failed /\ ~path.silent

\* The longer of the two waits of a supervisor that looks for sound.
Longest == Larger(Watch, RetryMax)

\* Music wanted, a speaker there to play it, and nothing heard.
Deaf == playing /\ world = "speaker" /\ ~Heard /\ path.mode # "ended"

\* A unit passes, over whatever is waiting: every channel drained, and the
\* supervisor round its loop at least once.
Tick ==
    /\ requests = <<>> /\ commands = <<>>
    /\ BetweenPasses
    /\ path.mode = "running" => path.looked
    /\ path.mode = "awaiting" => path.retryIn > 0
    /\ path' = [path EXCEPT !.retryIn = Less(@), !.watchIn = Less(@), !.looked = FALSE,
                            !.refused.since = IF path.refused.some
                                              THEN Smaller(@ + 1, RestartAfter) ELSE 0]
    /\ history' = [history EXCEPT !.deaf = IF Deaf THEN Smaller(@ + 1, Longest + 1) ELSE 0]
    /\ UNCHANGED <<host, world, requests, playing, commands, transfer, late>>

-----------------------------------------------------------------------------
Next ==
    \/ Pass \/ Open \/ OpenFresh \/ LateOpen \/ Opened
    \/ AwaitReceive \/ AwaitOpen \/ Restart
    \/ Drain \/ Mix
    \/ \E c \in {"play", "pause", "reopen"} : Ask(c)
    \/ \E h \in Holds : Hold(h) \/ End(h) \/ Send(h)
    \/ WorldChanges \/ Tick

Spec == Init /\ [][Next]_vars

-----------------------------------------------------------------------------
(* Properties.                                                             *)

\* The shape of the state, and what the supervisor's own fields promise each
\* other: a wait never exceeds the backoff that set it.
TypeOK ==
    /\ host \in Hosts /\ world \in WorldsOf(host)
    /\ path.stream \in {"none", "speaker", "dummy", "dead"}
    /\ path.mode \in {"running", "awaiting", "restarting", "ended"}
    /\ path.pc \in {"idle", "open", "fresh", "opened"}
    /\ path.backoff \in 1..RetryMax \cup {1}
    /\ path.retryIn \in 0..path.backoff
    /\ path.watchIn \in 0..Watch
    /\ requests \in Seq(Requests)
    /\ commands \in Seq([what : Requests, by : {"listener", "transfer"}])
    /\ transfer.live \subseteq Holds /\ transfer.todo \in [Holds -> Seq(Requests)]
    /\ playing \in BOOLEAN /\ late \in BOOLEAN

\* Whatever was lost, refused, moved to a dummy or taken for a transfer: music
\* that is wanted is heard from a speaker that stays there within the longer
\* of two waits, the backoff of recover and the period of watch -- unless a
\* thread that was given up on has cleared the failure since.
FoundAgainInTime == ~history.stray => history.deaf <= Longest

Settled == commands = <<>> /\ requests = <<>> /\ path.mode = "running" /\ path.pc = "idle"

\* With nothing left in the channels, a device that is held and works plays
\* exactly if the engine does: a play or a pause that found no stream is made
\* good when one opens.
DeviceDoesAsAsked ==
    (Settled /\ path.stream # "none" /\ ~path.failed)
        => IF playing THEN ~path.silent ELSE path.backlog => path.silent

\* A refusal on record is an outage: no restart is ever asked of a player
\* whose output works.
RefusalIsOutage ==
    path.refused.some => path.failed \/ path.pc = "opened" \/ history.stray

\* The music a transfer paused is put back when the last hold is over, however
\* the holds overlap, unless a person has said otherwise since.
MusicIsPutBack ==
    (transfer.live = {} /\ (\A h \in Holds : transfer.todo[h] = <<>>) /\ commands = <<>>)
        => ~history.owed
=============================================================================
