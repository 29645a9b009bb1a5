------------------------------- MODULE Marks --------------------------------
(***************************************************************************)
(* The session between a backend and the Director (session.rs): every      *)
(* passage chosen is marked as coming, and the mark is kept or taken back  *)
(* once the backend says what became of it.  The Director is replaced      *)
(* while it runs, by one built on another thread from the history as that  *)
(* thread happened to read it.                                             *)
(*                                                                         *)
(* The backend is what Playback and Progress promise of it: passages wait  *)
(* in a queue, are admitted to a mixer that runs ahead of what is heard,   *)
(* and are reported when they are counted, declined or dropped.            *)
(*                                                                         *)
(* Beside some definitions stands an altered form, as a plausible mistake  *)
(* would have written it; no specification refers to one.                  *)
(***************************************************************************)
EXTENDS Rotation, Sequences, SequencesExt

CONSTANTS
    Depth,          \* how many passages are kept queued
    HeardMax,       \* HEARD_MAX
    Writing,        \* Role::writes: whether what is heard reaches the history
    FirstPlayed,    \* the history before this run,
    FirstDeclined,  \* and what may have been declined in it of late
    MaxQueued,      \* bound: passages queued, by anyone
    MaxBuilds,      \* bound: rebuilds asked for
    MaxUpsets       \* bound: restarts and handovers

ASSUME BoundsAssumption ==
    {Depth, MaxQueued, MaxBuilds, MaxUpsets} \subseteq Nat /\ HeardMax \in Nat \ {0}
ASSUME LibraryAssumption == IsFiniteSet(Passages)
ASSUME WritingAssumption == Writing \subseteq BOOLEAN
ASSUME HistoryAssumption ==
    FirstPlayed \in [Keys -> {Never, LongAgo}] /\ FirstDeclined \subseteq Passages

VARIABLES
    backend,        \* queue, out (the first is the one heard), and what it has to say
    director,       \* the running Director, in Rotation's terms
    notes,          \* Session::notes: how many for each passage
    unseen,         \* Marks::unseen_since
    heard,          \* Session::heard
    rebuild,        \* asked for, how far the other thread is, and what it read
    history,        \* the listener's file, and whether it is written
    choosing,       \* a refill is choosing, or rests from it
    past            \* bounds, a handover not refilled after yet, and what the
                    \* properties look back at

\* From base on, each of seq in turn: FoldLeft, as one function that proofs
\* can go through step by step.
InTurn(op(_, _), base, seq) ==
    LET after[i \in 0..Len(seq)] == IF i = 0 THEN base ELSE op(after[i - 1], seq[i])
    IN after[Len(seq)]

\* The entries of seq that are in S.
Those(seq, S) == InTurn(LAMBDA kept, x : IF x \in S THEN Append(kept, x) ELSE kept, <<>>, seq)

vars == <<backend, director, notes, unseen, heard, rebuild, history, choosing, past>>
session == <<director, notes, unseen, heard, rebuild, choosing>>

Ids(entries) == [i \in DOMAIN entries |-> entries[i].p]
InQueue == ToSet(Ids(backend.queue))
Mixing == Those(backend.out, {x \in ToSet(backend.out) : x.mixing})

\* Engine::head_position is the mixer's first passage, which may not be heard
\* yet; Engine::sounding_ids is all that the mixer holds.
OnAir == IF Mixing = <<>> THEN {} ELSE {Mixing[1].p}
Sounding == ToSet(Ids(Mixing))
Short == Len(backend.queue) < Depth

Silent == [queue |-> <<>>, out |-> <<>>, dropped |-> <<>>, outcomes |-> <<>>]
NoMarks == [p \in Passages |-> 0]
AllSeen == [p \in Passages |-> "seen"]
NothingRead == [played |-> FirstPlayed, rejected |-> {}]
Build(asked, phase, read) == [asked |-> asked, phase |-> phase, read |-> read]

Init ==
    /\ backend = Silent
    /\ director = NoDirector
    /\ notes = NoMarks /\ unseen = AllSeen /\ heard = <<>>
    /\ rebuild = Build(TRUE, "none", NothingRead)
    /\ \E w \in Writing, ps \in SUBSET FirstDeclined :
          history = [played |-> FirstPlayed, rejected |-> ps, written |-> w]
    /\ choosing = "idle"
    /\ past = [queued |-> 0, builds |-> 0, upsets |-> 0, told |-> {}, settled |-> {},
               missed |-> {}, forgot |-> FALSE, handed |-> FALSE]

-----------------------------------------------------------------------------
(* The backend, between two refills.  What it judges it writes at once.    *)

Between == choosing # "choosing"

Written(h, o) ==
    IF ~h.written THEN h
    ELSE IF o.what = "played"
    THEN [h EXCEPT !.played = [k \in Keys |-> IF k \in KeysOf[o.p] THEN Recent ELSE @[k]]]
    ELSE [h EXCEPT !.rejected = @ \cup {o.p}]

Outcome(what, p) == [what |-> what, p |-> p]

\* A passage that was counted has had its say; another was declined.
Verdicts(x) == IF x.counted THEN <<>> ELSE <<Outcome("rejected", x.p)>>

Judged(said, b) ==
    /\ backend' = [b EXCEPT !.outcomes = @ \o said]
    /\ history' = InTurn(Written, history, said)

\* Enqueue, EnqueueNext, PlayNow: a person's own pick is told of.
PersonQueues(p) ==
    /\ Between /\ past.queued < MaxQueued
    /\ past' = [past EXCEPT !.queued = @ + 1]
    /\ backend' = [backend EXCEPT !.queue = Append(@, [p |-> p, by |-> "user"]),
                                  !.outcomes = Append(@, Outcome("queued", p))]
    /\ UNCHANGED <<session, history>>

\* RemoveQueued: a person's own pick is dropped, another's is declined.
PersonRemoves(i) ==
    /\ Between /\ i \in DOMAIN backend.queue
    /\ LET e == backend.queue[i]
           b == [backend EXCEPT !.queue = RemoveAt(@, i)]
       IN IF e.by = "user"
          THEN Judged(<<>>, [b EXCEPT !.dropped = Append(@, e.p)])
          ELSE Judged(<<Outcome("rejected", e.p)>>, b)
    /\ UNCHANGED <<session, past>>

\* The head of the queue is opened and mixed, behind what is mixed already; or
\* it does not open.
Admit ==
    /\ Between /\ backend.queue # <<>> /\ Len(backend.out) < 2
    /\ LET p == Head(backend.queue).p
           b == [backend EXCEPT !.queue = Tail(@)]
       IN \/ backend' = [b EXCEPT !.out = Append(@, [p |-> p, mixing |-> TRUE, counted |-> FALSE])]
          \/ backend' = [b EXCEPT !.dropped = Append(@, p)]
    /\ UNCHANGED <<session, history, past>>

\* The mixer is done with its first passage, which is still being heard.
MixedOut ==
    /\ Between
    /\ \E i \in DOMAIN backend.out :
          /\ backend.out[i].mixing /\ \A j \in 1..(i - 1) : ~backend.out[j].mixing
          /\ backend' = [backend EXCEPT !.out[i].mixing = FALSE]
    /\ UNCHANGED <<session, history, past>>

\* record_play: the passage heard crosses the threshold.
Counted ==
    /\ Between /\ backend.out # <<>> /\ ~backend.out[1].counted
    /\ Judged(<<Outcome("played", backend.out[1].p)>>, [backend EXCEPT !.out[1].counted = TRUE])
    /\ UNCHANGED <<session, past>>

\* What was heard is heard no more.
Departs ==
    /\ Between /\ backend.out # <<>> /\ ~backend.out[1].mixing
    /\ Judged(Verdicts(backend.out[1]), [backend EXCEPT !.out = Tail(@)])
    /\ UNCHANGED <<session, past>>

\* A skip passes over what is heard and over what nobody has heard yet.
Skip ==
    /\ Between /\ backend.out # <<>>
    /\ Judged(Verdicts(backend.out[1]),
              [backend EXCEPT !.out = <<>>, !.dropped = @ \o Ids(Tail(backend.out))])
    /\ UNCHANGED <<session, past>>

-----------------------------------------------------------------------------
(* The other thread.                                                       *)

\* A page asks for a rebuild.
Ask ==
    /\ past.builds < MaxBuilds /\ ~rebuild.asked
    /\ past' = [past EXCEPT !.builds = @ + 1]
    /\ rebuild' = [rebuild EXCEPT !.asked = TRUE]
    /\ UNCHANGED <<backend, director, notes, unseen, heard, history, choosing>>

\* The build reads the history once, early; then it is sent, or fails.
BuildReads ==
    /\ rebuild.phase = "started"
    /\ rebuild' = [rebuild EXCEPT !.phase = "read",
                       !.read = [played |-> history.played, rejected |-> history.rejected]]
    /\ UNCHANGED <<backend, director, notes, unseen, heard, history, choosing, past>>

BuildEnds ==
    /\ rebuild.phase = "read"
    /\ \E how \in {"sent", "failed"} : rebuild' = [rebuild EXCEPT !.phase = how]
    /\ UNCHANGED <<backend, director, notes, unseen, heard, history, choosing, past>>

-----------------------------------------------------------------------------
(* A refill, as what each part makes of the session.                       *)

Now == [d |-> director, notes |-> notes, unseen |-> unseen, heard |-> heard,
        settled |-> past.settled, missed |-> past.missed, forgot |-> past.forgot]

\* Session::mark, with a Director to mark it in.
Mark(s, p) ==
    IF s.d.built THEN [s EXCEPT !.d = NoteQueued(@, p), !.notes[p] = @ + 1] ELSE s

\* Session::resolve_mark: the oldest mark of a passage, if it has one.
ResolveMark(s, p, played) ==
    IF s.notes[p] = 0 THEN s
    ELSE [s EXCEPT !.d = Resolve(@, p, played), !.notes[p] = @ - 1,
                   !.unseen[p] = IF s.notes[p] = 1 THEN "seen" ELSE @]

\* Altered: only what was declined is made up for.
ReplayRejections(s, o) == [s EXCEPT !.d = IF o.what = "played" THEN @ ELSE NoteRejection(@, o.p)]

\* Session::replay_heard
Replay(s, o) ==
    [s EXCEPT !.d = IF o.what = "played" THEN Resolve(NoteQueued(@, o.p), o.p, TRUE)
                    ELSE NoteRejection(@, o.p)]

\* Altered: what is heard while a build runs is kept without end.
KeepsAll(s, o, keeping) == IF ~keeping THEN s ELSE [s EXCEPT !.heard = Append(@, o)]

\* Session::keep_heard
KeepHeard(s, o, keeping) ==
    IF ~keeping THEN s
    ELSE [s EXCEPT !.heard = Append(IF Len(@) < HeardMax THEN @ ELSE Tail(@), o),
                   !.forgot = @ \/ Len(s.heard) >= HeardMax]

Forgetting(s) == IF history.written THEN [s EXCEPT !.heard = <<>>] ELSE s

\* Altered: only what is queued is coming.
ProjectedQueue == Ids(backend.queue)

\* Session::projected_starts, in order: the mixer's first, unless the queue's
\* first is that same passage, and all that is queued.
Projected ==
    LET queued == Ids(backend.queue) IN
    IF OnAir = {} \/ (queued # <<>> /\ OnAir = {queued[1]}) THEN queued
    ELSE <<Mixing[1].p>> \o queued

\* How many entries of seq are in S.
HowMany(seq, S) == Cardinality({i \in DOMAIN seq : seq[i] \in S})

\* Playings not over, or over and not told of yet; and those of them that are
\* queued or on the air, one where both begin with the same passage.
Outstanding(p) ==
    HowMany(Ids(backend.queue), {p}) + HowMany(Ids(backend.out), {p})
    + HowMany(backend.dropped, {p})
    + HowMany(backend.outcomes, {Outcome("played", p), Outcome("rejected", p)})

InSight(p) ==
    HowMany(Ids(backend.queue), {p})
    + (IF p \in OnAir /\ (backend.queue # <<>> => backend.queue[1].p # p) THEN 1 ELSE 0)

OutOfSight == {p \in Passages : InSight(p) < Outstanding(p)}

\* Altered: the notes of the Director replaced are counted on.
AdoptedOver(s) ==
    LET fresh == [s EXCEPT !.d = Loaded(rebuild.read), !.unseen = AllSeen, !.settled = {}]
        marked == InTurn(Mark, fresh, Projected)
    IN Forgetting(InTurn(Replay, [marked EXCEPT !.missed = OutOfSight], s.heard))

\* Session::adopt: nothing is marked in a Director just built.
Adopted(s) ==
    LET fresh == [s EXCEPT !.d = Loaded(rebuild.read), !.notes = NoMarks, !.unseen = AllSeen,
                           !.settled = {}]
        marked == InTurn(Mark, fresh, Projected)
    IN Forgetting(InTurn(Replay, [marked EXCEPT !.missed = OutOfSight], s.heard))

Building == rebuild.phase \in {"started", "read"}

\* Session::tend_rebuild: nothing starts while the queue is short and has not
\* minutes of music in it (enough).
Tended(enough) ==
    CASE Building                -> [s |-> Now, rebuild |-> rebuild]
      [] rebuild.phase = "sent"  -> [s |-> Adopted(Now),
                                     rebuild |-> Build(rebuild.asked, "none", NothingRead)]
      [] rebuild.phase = "failed" -> [s |-> Now,
                                     rebuild |-> Build(rebuild.asked, "none", NothingRead)]
      [] rebuild.phase = "none" /\ rebuild.asked /\ (enough \/ ~Short)
                                 -> [s |-> Forgetting(Now),
                                     rebuild |-> Build(FALSE, "started", NothingRead)]
      [] OTHER                   -> [s |-> Now, rebuild |-> rebuild]

\* Altered: whatever is given back was heard.
AlwaysPlayed(s, p) == ResolveMark(s, p, TRUE)

\* Session::hear_outcomes: first what was dropped, then what was said.
NeverPlayed(s, p) == ResolveMark(s, p, FALSE)

Told(s, o, keeping) ==
    CASE o.what = "queued"   -> Mark(s, o.p)
      [] o.what = "played"   -> KeepHeard(ResolveMark(s, o.p, TRUE), o, keeping)
      [] o.what = "rejected" ->
            LET back == ResolveMark(s, o.p, FALSE) IN
            KeepHeard(IF s.d.built THEN [back EXCEPT !.d = NoteRejection(@, o.p)] ELSE back,
                      o, keeping)

HeardOutcomes(s, keeping) ==
    InTurn(LAMBDA t, o : Told(t, o, keeping),
           InTurn(NeverPlayed, s, backend.dropped), backend.outcomes)

\* A passage in both lists, of which nobody can tell what came first.
Muddled == {p \in ToSet(backend.dropped) : \E o \in ToSet(backend.outcomes) : o.p = p}

\* Session::settle_unseen: what has been out of sight for NOTE_GRACE is taken
\* for played.
SettledAsPlayed(s, p) ==
    InTurn(LAMBDA t, x : ResolveMark(t, x, TRUE),
           [s EXCEPT !.settled = @ \cup KeysOf[p]], [i \in 1..s.notes[p] |-> p])

SettleUnseen(s) ==
    LET seen == InQueue \cup OnAir
        gone == {p \in Passages : s.notes[p] > 0 /\ p \notin seen /\ s.unseen[p] = "long"}
        looked == [p \in Passages |->
                      IF s.notes[p] = 0 \/ p \in seen THEN "seen"
                      ELSE IF s.unseen[p] = "seen" THEN "since" ELSE s.unseen[p]]
    IN InTurn(SettledAsPlayed, [s EXCEPT !.unseen = looked], SetToSeq(gone))

Becomes(s) ==
    /\ director' = s.d /\ notes' = s.notes /\ unseen' = s.unseen /\ heard' = s.heard
    /\ past' = [past EXCEPT !.settled = s.settled, !.missed = s.missed \cup Muddled,
                            !.forgot = s.forgot, !.handed = FALSE,
                            !.told = @ \cup {o \in ToSet(backend.outcomes) : o.what # "queued"}]

\* Session::refill, up to where it chooses.
Refill ==
    /\ Between
    /\ \E enough \in BOOLEAN :
          \E tended \in {Tended(enough)} :
             LET keeping == tended.rebuild.phase # "none" \/ ~history.written
             IN /\ rebuild' = tended.rebuild
                /\ \E s \in {SettleUnseen(HeardOutcomes(tended.s, keeping))} : Becomes(s)
    /\ backend' = [backend EXCEPT !.dropped = <<>>, !.outcomes = <<>>]
    /\ choosing' = IF choosing = "resting" /\ rebuild.phase # "sent" THEN "resting"
                   ELSE IF Short THEN "choosing" ELSE "idle"
    /\ UNCHANGED history

\* Without a Director the library's own fallback chooses, by every rule but
\* rotation, and marks nothing.
Candidates ==
    LET skip == InQueue \cup Sounding IN
    IF ~director.built THEN Passages \ (skip \cup history.rejected)
    ELSE IF Running(director, skip) # {} THEN Running(director, skip)
    ELSE Relaxed(director, skip)

Pick(p) ==
    /\ choosing = "choosing" /\ Short /\ past.queued < MaxQueued
    /\ p \in Candidates
    /\ backend' = [backend EXCEPT !.queue = Append(@, [p |-> p, by |-> "director"])]
    /\ IF director.built
       THEN director' = NoteQueued(director, p) /\ notes' = [notes EXCEPT ![p] = @ + 1]
       ELSE UNCHANGED <<director, notes>>
    /\ past' = [past EXCEPT !.queued = @ + 1]
    /\ UNCHANGED <<unseen, heard, rebuild, history, choosing>>

\* A choice that found nothing rests before it is tried again.
Chosen ==
    /\ choosing = "choosing"
    /\ \/ ~Short /\ choosing' = "idle"
       \/ Short /\ (Candidates = {} \/ past.queued = MaxQueued) /\ choosing' = "resting"
    /\ UNCHANGED <<backend, director, notes, unseen, heard, rebuild, history, past>>

-----------------------------------------------------------------------------
(* Time, a restart, a handover.                                            *)

RestOver ==
    /\ choosing = "resting" /\ past.queued < MaxQueued
    /\ choosing' = "idle"
    /\ UNCHANGED <<backend, director, notes, unseen, heard, rebuild, history, past>>

GraceOver ==
    /\ Between /\ \E p \in Passages : unseen[p] = "since"
    /\ unseen' = [p \in Passages |-> IF unseen[p] = "since" THEN "long" ELSE unseen[p]]
    /\ UNCHANGED <<backend, director, notes, heard, rebuild, history, choosing, past>>

Restored(ids) == [i \in DOMAIN ids |-> [p |-> ids[i], by |-> "restored"]]
Smaller(a, b) == IF a < b THEN a ELSE b

Upset == Between /\ past.upsets < MaxUpsets

\* What has not been told is lost with the process; what was written is not.
\* It comes back with the mixer's first passage and the queue it remembered.
Restart ==
    /\ Upset
    /\ backend' = [Silent EXCEPT !.queue =
          Restored([i \in 1..Smaller(1, Len(Mixing)) |-> Mixing[i].p]
                       \o Those(Ids(backend.queue), Passages \ OnAir))]
    /\ director' = NoDirector /\ notes' = NoMarks /\ unseen' = AllSeen /\ heard' = <<>>
    /\ rebuild' = Build(TRUE, "none", NothingRead)
    /\ choosing' = "idle"
    /\ past' = [past EXCEPT !.upsets = @ + 1, !.settled = {}, !.missed = {}, !.forgot = FALSE,
                            !.handed = FALSE, !.told = IF history.written THEN @ ELSE {}]
    /\ UNCHANGED history

\* Session::hand_over_seamless: the other side takes the mixer's first passage
\* unless too little is left of it, and what is queued beside it unless it will
\* not take it; the marks of what was lost are given back at once.  What
\* crosses is rebuilt, and nobody's pick any more.  A pass of the host refills
\* after it, so that no other comes first.
HandOver ==
    /\ Upset /\ ~past.handed
    /\ backend.out # <<>> => backend.out[1].mixing
    /\ \E worth \in BOOLEAN, refused \in SUBSET InQueue :
          LET ids == Those(Ids(backend.queue), Passages \ OnAir)
              s == InTurn(NeverPlayed, Now, Those(ids, refused))
              taken == Those(ids, Passages \ refused)
          IN /\ backend' = [backend EXCEPT
                   !.out = IF worth THEN [i \in 1..Smaller(1, Len(Mixing)) |->
                                             [Mixing[i] EXCEPT !.counted = FALSE]] ELSE <<>>,
                   !.queue = Restored(taken)]
             /\ director' = s.d /\ notes' = s.notes /\ unseen' = s.unseen
    /\ past' = [past EXCEPT !.upsets = @ + 1, !.handed = TRUE]
    /\ UNCHANGED <<heard, rebuild, history, choosing>>

-----------------------------------------------------------------------------
Next ==
    \/ \E p \in Passages : PersonQueues(p) \/ Pick(p)
    \/ \E i \in 1..(Depth + MaxQueued) : PersonRemoves(i)
    \/ Admit \/ MixedOut \/ Counted \/ Departs \/ Skip
    \/ Ask \/ BuildReads \/ BuildEnds
    \/ Refill \/ Chosen \/ RestOver \/ GraceOver \/ Restart \/ HandOver

Spec == Init /\ [][Next]_vars
-----------------------------------------------------------------------------
(* Properties.                                                             *)

\* The shape of the state: no count below zero, no list past its limit.
TypeOK ==
    /\ backend.queue \in Seq([p : Passages, by : {"user", "director", "restored"}])
    /\ backend.out \in Seq([p : Passages, mixing : BOOLEAN, counted : BOOLEAN])
    /\ backend.dropped \in Seq(Passages)
    /\ director.stamp \in [Keys -> Times] /\ director.before \in [Keys -> Times]
    /\ director.open \in [Keys -> Nat] /\ director.windows \subseteq Passages
    /\ notes \in [Passages -> Nat] /\ unseen \in [Passages -> {"seen", "since", "long"}]
    /\ Len(heard) <= HeardMax
    /\ rebuild.phase \in {"none", "started", "read", "sent", "failed"}
    /\ choosing \in {"idle", "choosing", "resting"}
    /\ history.written \in Writing

\* The marks noted of the passages that have a key.
NotedOn(noted, k) == UNION {{p} \X (1..noted[p]) : p \in {q \in Passages : k \in KeysOf[q]}}

\* Every mark the Director holds open has the note that will close it, and
\* every note a mark: none is left behind in a Director that was replaced,
\* and none is closed twice.
MarksMatchNotes == \A k \in Keys : director.open[k] = Cardinality(NotedOn(notes, k))

\* What the running Director was told, or read, of what was heard is never
\* undone: neither by the marks closed after it, in whatever order, nor by
\* the Director built meanwhile from a history read before it.  A handover
\* that gives back a pick not told of yet closes another mark of the passage,
\* if it has one: the refill after it, in the same pass, makes up for it.
KnowsWhatWasHeard ==
    (director.built /\ ~past.forgot /\ ~past.handed) =>
        \A o \in {x \in past.told : x.what = "played" => x.p \notin past.missed} :
            IF o.what = "rejected" THEN o.p \in director.windows
            ELSE \A k \in KeysOf[o.p] : director.stamp[k] = Recent

\* With no mark open, rotation holds against a passage nothing but what was
\* heard: what was chosen, and then declined, dropped or lost, has left no
\* trace on any key it shares with others, and what a key held before it is
\* there again.  What the grace settled is taken for heard.
OnlyWhatWasHeardCounts ==
    (director.built /\ notes = NoMarks) =>
        \A k \in Keys \ past.settled :
            \/ director.stamp[k] = FirstPlayed[k]
            \/ /\ director.stamp[k] = Recent
               /\ \/ history.played[k] = Recent
                  \/ \E o \in past.told : o.what = "played" /\ k \in KeysOf[o.p]

\* When a choice is made rotation knows everything that is coming: what is
\* queued, whoever queued it, and what the mixer holds first, across rebuilds,
\* restarts and handovers -- but for what the Director in place was never
\* told of, being neither when it came.
ComingIsKnown ==
    (choosing = "choosing" /\ director.built) =>
        \A p \in (InQueue \cup OnAir) \ past.missed :
            \A k \in KeysOf[p] : director.stamp[k] = Recent
=============================================================================
