-------------------------- MODULE OutputPathProofs --------------------------
(***************************************************************************)
(* Theorems about the output path, for any waits, any kinds of host, any   *)
(* transfer holds, and any number of faults and requests.                  *)
(*                                                                         *)
(* Shape is the inductive form of TypeOK.  Three more invariants rest on   *)
(* it: what a refusal on record says of the stream, what the flag of a     *)
(* stream says of what the engine wants, and who owes the music back.      *)
(***************************************************************************)
EXTENDS OutputPath, SequenceTheorems, TLAPS

Paths ==
    [mode : {"running", "awaiting", "restarting", "ended"},
     pc : {"idle", "open", "fresh", "opened"},
     playing : BOOLEAN, reattach : BOOLEAN, backoff : 1..RetryMax, retryIn : Nat,
     watchIn : 0..Watch, refused : [some : BOOLEAN, since : Nat, wide : BOOLEAN],
     mayRestart : BOOLEAN, looked : BOOLEAN,
     stream : {"none", "speaker", "dummy", "dead"},
     failed : BOOLEAN, silent : BOOLEAN, backlog : BOOLEAN]

\* A path in good order: its wait is within the backoff that set it.
PathOK(p) == p \in Paths /\ p.retryIn <= p.backoff

Commands == [what : Requests, by : {"listener", "transfer"}]

Transfers == [live : SUBSET Holds, paused : BOOLEAN, todo : [Holds -> Seq(Requests)]]

Histories == [asks : Nat, faults : Nat, ended : SUBSET Holds, owed : BOOLEAN,
              stray : BOOLEAN, deaf : Nat]

Channels == requests \in Seq(Requests) /\ commands \in Seq(Commands)

Shape ==
    /\ host \in Hosts /\ world \in WorldsOf(host)
    /\ PathOK(path)
    /\ Channels
    /\ transfer \in Transfers
    /\ playing \in BOOLEAN /\ late \in BOOLEAN
    /\ history \in Histories

-----------------------------------------------------------------------------
(* What the steps of a pass leave in good order.                           *)

\* Backing off stays within the longest wait.
LEMMA DoublingStops ==
    ASSUME NEW b \in 1..RetryMax
    PROVE  Doubled(b) \in 1..RetryMax
BY SpansAssumption DEF Doubled, Smaller

\* A path made for a world is in good order.
LEMMA NewPathOK ==
    ASSUME NEW h \in Hosts, NEW w \in WorldsOf(h)
    PROVE  PathOK(NewPath(w))
<1>1. w \in {"speaker", "dummy", "absent", "refusing", "refusing here"}
  BY DEF WorldsOf
<1>2. RetryMax \in Nat \ {0} /\ 1 \in 1..RetryMax /\ Watch \in 0..Watch
  BY SpansAssumption
<1>3. NotRefused \in [some : BOOLEAN, since : Nat, wide : BOOLEAN]
  BY DEF NotRefused
<1>4. NewPath(w) \in Paths
  BY <1>1, <1>2, <1>3 DEF Paths, NewPath, Opens
<1>5. NewPath(w).retryIn \in 0..1 /\ NewPath(w).backoff = 1
  BY DEF NewPath
<1>6. QED
  BY <1>4, <1>5 DEF PathOK

\* So is one that has taken a request, or looked at its sink, or tries, or
\* ends its pass.
LEMMA TakenOK ==
    ASSUME NEW p, PathOK(p), NEW r \in Requests
    PROVE  PathOK(Taken(p, r))
<1>1. RetryMax \in Nat \ {0} /\ 1 \in 1..RetryMax /\ 0 \in 0..Watch
  BY SpansAssumption
<1>2. CASE r \in {"play", "pause"}
  BY <1>1, <1>2 DEF PathOK, Paths, Taken, SetPlaying
<1>3. AtOnce(p) \in Paths /\ AtOnce(p).retryIn = 0 /\ AtOnce(p).backoff = 1
  BY <1>1 DEF PathOK, Paths, AtOnce
<1>4. Released(p) \in Paths /\ Released(p).retryIn = p.retryIn /\ Released(p).backoff = p.backoff
  BY DEF PathOK, Paths, Released
<1>5. ASSUME NEW q, PathOK(q), NEW b \in BOOLEAN
      PROVE  PathOK([q EXCEPT !.failed = b]) /\ PathOK([q EXCEPT !.reattach = b])
  BY <1>5 DEF PathOK, Paths
<1>6. PathOK(AtOnce(p)) /\ PathOK(Released(p))
  BY <1>1, <1>3, <1>4 DEF PathOK
<1>7. CASE r = "reopen"
  BY <1>5, <1>6, <1>7 DEF Taken
<1>8. CASE r = "quiet"
  BY <1>5, <1>6, <1>8 DEF Taken
<1>9. CASE r = "unquiet"
  BY <1>5, <1>6, <1>9 DEF Taken
<1>10. QED
  BY <1>2, <1>7, <1>8, <1>9 DEF Requests

LEMMA WatchedOK ==
    ASSUME NEW p, PathOK(p)
    PROVE  PathOK(Watched(p))
<1>1. SeenSilent(p) \in BOOLEAN
  BY DEF SeenSilent
<1>2. Watch \in 0..Watch
  BY SpansAssumption
<1>3. [p EXCEPT !.watchIn = Watch, !.failed = SeenSilent(p)] \in Paths
  BY <1>1, <1>2 DEF PathOK, Paths
<1>4. QED
  BY <1>3 DEF PathOK, Paths, Watched

BackedOff(p, b) == [p EXCEPT !.backoff = b, !.retryIn = b]

LEMMA BackedOffOK ==
    ASSUME NEW p \in Paths, NEW b \in 1..RetryMax
    PROVE  BackedOff(p, b) \in Paths /\ PathOK(BackedOff(p, b))
<1>1. b \in Nat
  BY SpansAssumption
<1>2. BackedOff(p, b) \in Paths
  BY <1>1 DEF Paths, BackedOff
<1>3. BackedOff(p, b).backoff = b /\ BackedOff(p, b).retryIn = b
  BY DEF Paths, BackedOff
<1>4. QED
  BY <1>1, <1>2, <1>3 DEF PathOK

LEMMA TryingOK ==
    ASSUME NEW p, PathOK(p)
    PROVE  PathOK(Trying(p))
<1>1. Doubled(p.backoff) \in 1..RetryMax
  BY DoublingStops DEF PathOK, Paths
<1>2. RetryMax \in Nat
  BY SpansAssumption
<1> DEFINE r == Released(p)
<1>3. r \in Paths
  BY DEF PathOK, Paths, Released
<1>4. Trying(p) = [r EXCEPT !.pc = "open", !.backoff = Doubled(p.backoff),
                            !.retryIn = Doubled(p.backoff)]
  BY DEF Trying, Released, PathOK, Paths
<1>5. BackedOff(r, Doubled(p.backoff)) \in Paths
         /\ PathOK(BackedOff(r, Doubled(p.backoff)))
  BY <1>1, <1>3, BackedOffOK
<1> HIDE DEF r
<1>6. PathOK([BackedOff(r, Doubled(p.backoff)) EXCEPT !.pc = "open"])
  BY <1>5 DEF PathOK, Paths
<1>7. Trying(p) = [BackedOff(r, Doubled(p.backoff)) EXCEPT !.pc = "open"]
  BY <1>3, <1>4 DEF BackedOff, Paths
<1>8. QED
  BY <1>6, <1>7

LEMMA ConcludedOK ==
    ASSUME NEW p, PathOK(p)
    PROVE  PathOK(Concluded(p))
<1> DEFINE w == WantsRestart(p)
<1>1. w \in BOOLEAN
  BY DEF WantsRestart
<1>2. Concluded(p) = [p EXCEPT !.pc = "idle", !.looked = TRUE,
                               !.reattach = @ /\ p.failed, !.mayRestart = @ /\ ~w,
                               !.mode = IF w /\ p.mayRestart THEN "restarting" ELSE @]
  BY DEF Concluded
<1> HIDE DEF w
<1>3. QED
  BY <1>1, <1>2 DEF PathOK, Paths

LEMMA AttachedOK ==
    ASSUME PathOK(path), world \in WorldsOf(host)
    PROVE  PathOK(Attached(path))
BY DEF PathOK, Paths, Attached, Opens, WorldsOf

LEMMA RefusedOK ==
    ASSUME NEW p, PathOK(p), NEW wide \in BOOLEAN
    PROVE  PathOK(Refused(p, wide))
BY DEF PathOK, Paths, Refused

LEMMA OpenedOK ==
    ASSUME PathOK(path)
    PROVE  PathOK(IF SeenSilent(path) THEN [path EXCEPT !.failed = TRUE]
                  ELSE [SetPlaying(AtOnce(path), path.playing) EXCEPT !.refused = NotRefused])
<1>1. RetryMax \in Nat \ {0} /\ 1 \in 1..RetryMax
  BY SpansAssumption
<1>2. NotRefused \in [some : BOOLEAN, since : Nat, wide : BOOLEAN]
  BY DEF NotRefused
<1>3. AtOnce(path) \in Paths /\ AtOnce(path).retryIn = 0 /\ AtOnce(path).backoff = 1
  BY <1>1 DEF PathOK, Paths, AtOnce
<1>4. ASSUME NEW q \in Paths, q.retryIn = 0, q.backoff = 1
      PROVE  PathOK([SetPlaying(q, path.playing) EXCEPT !.refused = NotRefused])
  <2>1. SetPlaying(q, path.playing) \in Paths
    <3>1. [q EXCEPT !.silent = ~path.playing] \in Paths
      BY DEF Paths
    <3>2. QED
      BY <3>1 DEF SetPlaying
  <2>2. SetPlaying(q, path.playing).retryIn = 0 /\ SetPlaying(q, path.playing).backoff = 1
    BY <1>4 DEF Paths, SetPlaying
  <2>3. QED
    BY <1>1, <1>2, <2>1, <2>2 DEF PathOK, Paths
<1>5. PathOK([path EXCEPT !.failed = TRUE])
  BY DEF PathOK, Paths
<1>6. QED
  BY <1>3, <1>4, <1>5

-----------------------------------------------------------------------------
(* Type correctness.                                                       *)

LEMMA InitShape == Init => Shape
<1> SUFFICES ASSUME Init PROVE Shape
  OBVIOUS
<1>1. PathOK(path)
  BY NewPathOK DEF Init
<1>2. Channels
  <2>1. Resumed \in Seq(Requests)
    <3>1. <<"play">> \in Seq(Requests)
      BY DEF Requests
    <3>2. QED
      BY <3>1 DEF Resumed
  <2>2. QED
    BY <2>1 DEF Init, Channels
<1>3. transfer \in Transfers /\ history \in Histories
  BY DEF Init, NewTransfer, Transfers, Histories
<1>4. QED
  BY <1>1, <1>2, <1>3 DEF Init, Shape

LEMMA PassShape == Shape /\ Pass => Shape'
<1> SUFFICES ASSUME Shape, Pass PROVE Shape'
  OBVIOUS
<1> DEFINE t == IF requests = <<>> THEN path ELSE Taken(path, Head(requests))
           p == Watched(t)
<1>1. PathOK(t)
  <2>1. CASE requests = <<>>
    BY <2>1 DEF Shape
  <2>2. CASE requests # <<>>
    <3>1. Head(requests) \in Requests
      BY <2>2 DEF Shape, Channels
    <3>2. QED
      BY <2>2, <3>1, TakenOK DEF Shape
  <2>3. QED
    BY <2>1, <2>2
<1>2. PathOK(p)
  BY <1>1, WatchedOK
<1>3. path' = IF Tries(p) THEN Trying(p) ELSE Concluded(p)
  BY DEF Pass
<1>4. PathOK(path')
  <2> HIDE DEF p
  <2>1. QED
    BY <1>2, <1>3, TryingOK, ConcludedOK
<1>5. requests' \in Seq(Requests)
  BY DEF Pass, Shape, Channels
<1>6. QED
  BY <1>4, <1>5 DEF Pass, Shape, Channels, PathOK, Paths

LEMMA OpeningShape ==
    Shape /\ (Open \/ OpenFresh \/ Opened \/ LateOpen) => Shape'
<1> SUFFICES ASSUME Shape, Open \/ OpenFresh \/ Opened \/ LateOpen PROVE Shape'
  OBVIOUS
<1>1. PathOK(path) /\ world \in WorldsOf(host)
  BY DEF Shape
<1>2. history' \in Histories
  <2>1. history \in Histories
    BY DEF Shape
  <2>2. NotStray => history' \in Histories
    <3> DEFINE d == IF history.stray THEN 0 ELSE history.deaf
    <3>1. d \in Nat
      BY <2>1 DEF Histories
    <3>2. NotStray => history' = [history EXCEPT !.stray = FALSE, !.deaf = d]
      BY <2>1 DEF NotStray, Histories
    <3> HIDE DEF d
    <3>3. QED
      BY <2>1, <3>1, <3>2 DEF Histories
  <2>3. [history EXCEPT !.stray = TRUE] \in Histories
    BY <2>1 DEF Histories
  <2>4. QED
    BY <2>1, <2>2, <2>3 DEF Open, OpenFresh, Opened, LateOpen
<1>3. late' \in BOOLEAN
  BY DEF Open, OpenFresh, Opened, LateOpen, Shape
<1>4. PathOK(path')
  <2>1. CASE Open
    <3>1. PathOK([path EXCEPT !.pc = "fresh"])
      BY <1>1 DEF PathOK, Paths
    <3>2. QED
      BY <1>1, <2>1, <3>1, AttachedOK, ConcludedOK DEF Open
  <2>2. CASE OpenFresh
    <3>1. PathOK(Refused(path, world = "refusing")) /\ PathOK(Refused(path, FALSE))
      BY <1>1, RefusedOK
    <3>2. PathOK(Concluded(Refused(path, world = "refusing"))) /\ PathOK(Concluded(Refused(path, FALSE)))
      BY <3>1, ConcludedOK
    <3>3. QED
      BY <1>1, <2>2, <3>2, AttachedOK DEF OpenFresh
  <2>3. CASE Opened
    BY <1>1, <2>3, OpenedOK, ConcludedOK DEF Opened
  <2>4. CASE LateOpen
    BY <1>1, <2>4 DEF LateOpen, PathOK, Paths
  <2>5. QED
    BY <2>1, <2>2, <2>3, <2>4
<1>5. UNCHANGED <<host, world, requests, playing, commands, transfer>>
  BY DEF Open, OpenFresh, Opened, LateOpen
<1>6. QED
  BY <1>2, <1>3, <1>4, <1>5 DEF Shape, Channels

LEMMA AwaitingShape ==
    Shape /\ (AwaitReceive \/ AwaitOpen \/ Restart) => Shape'
<1> SUFFICES ASSUME Shape, AwaitReceive \/ AwaitOpen \/ Restart PROVE Shape'
  OBVIOUS
<1>1. CASE AwaitReceive
  <2>1. PathOK(path') /\ requests' \in Seq(Requests)
    BY <1>1 DEF AwaitReceive, Shape, Channels, PathOK, Paths
  <2>2. QED
    BY <1>1, <2>1 DEF AwaitReceive, Shape, Channels
<1>2. CASE AwaitOpen
  <2>1. Doubled(path.backoff) \in 1..RetryMax
    BY DoublingStops DEF Shape, PathOK, Paths
  <2>2. PathOK(path')
    <3>1. ASSUME NEW m \in {"restarting", "ended"}
          PROVE  PathOK([path EXCEPT !.mode = m])
      BY DEF Shape, PathOK, Paths
    <3>2. PathOK([path EXCEPT !.backoff = Doubled(@), !.retryIn = Doubled(path.backoff)])
      BY <2>1, BackedOffOK DEF Shape, PathOK, BackedOff
    <3>3. QED
      BY <1>2, <3>1, <3>2 DEF AwaitOpen
  <2>3. QED
    BY <1>2, <2>2 DEF AwaitOpen, Shape, Channels
<1>3. CASE Restart
  <2>1. world' \in WorldsOf(host)
    BY <1>3 DEF Restart, Shape, WorldsOf
  <2>2. PathOK(path')
    BY <1>3, <2>1, NewPathOK DEF Restart, Shape
  <2>3. requests' \in Seq(Requests) /\ commands' \in Seq(Commands)
    <3>1. <<"play">> \in Seq(Requests)
      BY DEF Requests
    <3>2. Resumed \in Seq(Requests)
      BY <3>1 DEF Resumed
    <3>3. requests' = Resumed /\ commands' = <<>>
      BY <1>3 DEF Restart
    <3>4. QED
      BY <3>2, <3>3
  <2>4. transfer' \in Transfers /\ history' \in Histories
    <3>1. NewTransfer \in Transfers
      BY DEF NewTransfer, Transfers
    <3>2. history.ended \cup transfer.live \in SUBSET Holds
      BY DEF Shape, Transfers, Histories
    <3>3. history' \in Histories
      BY <1>3, <3>2 DEF Restart, Histories, Shape
    <3>4. QED
      BY <1>3, <3>1, <3>3 DEF Restart
  <2>5. QED
    BY <1>3, <2>1, <2>2, <2>3, <2>4 DEF Restart, Shape, Channels
<1>4. QED
  BY <1>1, <1>2, <1>3

LEMMA ForwardingShape ==
    Shape /\ (Drain \/ Mix \/ \E c \in {"play", "pause", "reopen"} : Ask(c)) => Shape'
<1> SUFFICES ASSUME Shape, Drain \/ Mix \/ \E c \in {"play", "pause", "reopen"} : Ask(c) PROVE Shape'
  OBVIOUS
<1>1. CASE Drain
  <2>1. Head(commands) \in Commands /\ commands' \in Seq(Commands)
    BY <1>1 DEF Drain, Shape, Channels
  <2>2. requests' \in Seq(Requests)
    BY <1>1, <2>1 DEF Drain, Shape, Channels, Commands
  <2>3. history' \in Histories /\ playing' \in BOOLEAN
    BY <1>1, <2>1 DEF Drain, Shape, Histories, Commands
  <2>4. QED
    BY <1>1, <2>1, <2>2, <2>3 DEF Drain, Shape, Channels, PathOK, Paths
<1>2. CASE Mix
  BY <1>2 DEF Mix, Shape, Channels, PathOK, Paths
<1>3. CASE \E c \in {"play", "pause", "reopen"} : Ask(c)
  <2>1. PICK c \in {"play", "pause", "reopen"} : Ask(c)
    BY <1>3
  <2>2. commands' \in Seq(Commands) /\ history' \in Histories
    BY <2>1 DEF Ask, Shape, Channels, Histories, Commands, Requests
  <2>3. QED
    BY <2>1, <2>2 DEF Ask, Shape, Channels, PathOK, Paths
<1>4. QED
  BY <1>1, <1>2, <1>3

LEMMA HoldsShape ==
    ASSUME NEW h \in Holds
    PROVE  Shape /\ (Hold(h) \/ End(h) \/ Send(h)) => Shape'
<1> SUFFICES ASSUME Shape, Hold(h) \/ End(h) \/ Send(h) PROVE Shape'
  OBVIOUS
<1>1. CASE Hold(h)
  <2>1. transfer' \in Transfers
    BY <1>1 DEF Hold, Said, Shape, Transfers, Requests
  <2>2. QED
    BY <1>1, <2>1 DEF Hold, Shape, Channels, PathOK, Paths
<1>2. CASE End(h)
  <2>1. transfer' \in Transfers /\ history' \in Histories
    <3> DEFINE last == transfer.live = {h}
               said == Said(last, "unquiet") \o Said(last /\ transfer.paused, "play")
    <3>1. said \in Seq(Requests)
      <4>1. \A b, w : w \in Requests => Said(b, w) \in Seq(Requests)
        BY DEF Said
      <4>2. "unquiet" \in Requests /\ "play" \in Requests
        BY DEF Requests
      <4>3. QED
        BY <4>1, <4>2
    <3>2. transfer' = [live   |-> transfer.live \ {h},
                       paused |-> transfer.paused /\ ~last,
                       todo   |-> [transfer.todo EXCEPT ![h] = said]]
      BY <1>2 DEF End
    <3>3. history' = [history EXCEPT !.ended = @ \cup {h}]
      BY <1>2 DEF End
    <3> HIDE DEF last, said
    <3>4. transfer' \in Transfers
      BY <3>1, <3>2 DEF Shape, Transfers
    <3>5. history' \in Histories
      BY <3>3 DEF Shape, Histories
    <3>6. QED
      BY <3>4, <3>5
  <2>2. QED
    BY <1>2, <2>1 DEF End, Shape, Channels, PathOK, Paths
<1>3. CASE Send(h)
  <2>1. Head(transfer.todo[h]) \in Requests /\ Tail(transfer.todo[h]) \in Seq(Requests)
    BY <1>3 DEF Send, Shape, Transfers
  <2>2. transfer' \in Transfers
    BY <1>3, <2>1 DEF Send, Shape, Transfers
  <2>3. commands' \in Seq(Commands)
    <3>1. [what |-> Head(transfer.todo[h]), by |-> "transfer"] \in Commands
      BY <2>1 DEF Commands
    <3>2. QED
      BY <1>3, <3>1 DEF Send, Shape, Channels
  <2>4. QED
    BY <1>3, <2>2, <2>3 DEF Send, Shape, Channels, PathOK, Paths
<1>4. QED
  BY <1>1, <1>2, <1>3

LEMMA WorldShape == Shape /\ (WorldChanges \/ Tick) => Shape'
<1> SUFFICES ASSUME Shape, WorldChanges \/ Tick PROVE Shape'
  OBVIOUS
<1>1. CASE WorldChanges
  <2>1. world' \in WorldsOf(host) /\ host' = host
    BY <1>1 DEF WorldChanges
  <2>2. PathOK(path')
    <3>1. ASSUME NEW w, Opens(w)
          PROVE  PathOK([path EXCEPT !.stream = w])
      BY <3>1 DEF Shape, PathOK, Paths, Opens
    <3>2. PathOK([path EXCEPT !.stream = "dead", !.failed = TRUE])
      BY DEF Shape, PathOK, Paths
    <3>3. PathOK(path)
      BY DEF Shape
    <3>4. QED
      BY <1>1, <3>1, <3>2, <3>3 DEF WorldChanges
  <2>3. history' \in Histories
    <3>1. PICK d \in {history.deaf, 0} :
             history' = [history EXCEPT !.faults = @ + 1, !.deaf = d]
      BY <1>1 DEF WorldChanges, Shape, Histories
    <3>2. d \in Nat /\ history \in Histories /\ history.faults + 1 \in Nat
      BY DEF Shape, Histories
    <3>3. QED
      BY <3>1, <3>2 DEF Histories
  <2>4. QED
    BY <1>1, <2>1, <2>2, <2>3 DEF WorldChanges, Shape, Channels
<1>2. CASE Tick
  <2>1. PathOK(path')
    <3> DEFINE since == IF path.refused.some THEN Smaller(path.refused.since + 1, RestartAfter) ELSE 0
    <3>1. since \in Nat
      BY SpansAssumption DEF Shape, PathOK, Paths, Smaller
    <3>2. Less(path.retryIn) \in Nat /\ Less(path.retryIn) <= path.retryIn
      BY DEF Less, Shape, PathOK, Paths
    <3>3. Less(path.watchIn) \in 0..Watch
      BY SpansAssumption DEF Less, Shape, PathOK, Paths
    <3>4. path' = [path EXCEPT !.retryIn = Less(@), !.watchIn = Less(@), !.looked = FALSE,
                               !.refused.since = since]
      BY <1>2 DEF Tick
    <3> HIDE DEF since
    <3>5. path' \in Paths
      BY <3>1, <3>2, <3>3, <3>4 DEF Shape, PathOK, Paths
    <3>6. path'.retryIn = Less(path.retryIn) /\ path'.backoff = path.backoff
      BY <3>4 DEF Shape, PathOK, Paths
    <3>7. QED
      BY <3>2, <3>5, <3>6, SpansAssumption DEF Shape, PathOK, Paths
  <2>2. history' \in Histories
    BY <1>2, SpansAssumption DEF Tick, Shape, Histories, Smaller, Longest, Larger
  <2>3. QED
    BY <1>2, <2>1, <2>2 DEF Tick, Shape, Channels
<1>3. QED
  BY <1>1, <1>2

LEMMA StepShape == Shape /\ [Next]_vars => Shape'
<1> SUFFICES ASSUME Shape, [Next]_vars PROVE Shape'
  OBVIOUS
<1>1. CASE UNCHANGED vars
  BY <1>1 DEF vars, Shape, Channels, PathOK, Paths
<1>2. CASE Pass
  BY <1>2, PassShape
<1>3. CASE Open \/ OpenFresh \/ Opened \/ LateOpen
  BY <1>3, OpeningShape
<1>4. CASE AwaitReceive \/ AwaitOpen \/ Restart
  BY <1>4, AwaitingShape
<1>5. CASE Drain \/ Mix \/ \E c \in {"play", "pause", "reopen"} : Ask(c)
  BY <1>5, ForwardingShape
<1>6. CASE \E h \in Holds : Hold(h) \/ End(h) \/ Send(h)
  BY <1>6, HoldsShape
<1>7. CASE WorldChanges \/ Tick
  BY <1>7, WorldShape
<1>8. QED
  BY <1>1, <1>2, <1>3, <1>4, <1>5, <1>6, <1>7 DEF Next

LEMMA ShapeTypes == Shape => TypeOK
BY SpansAssumption DEF Shape, PathOK, Paths, Channels, Commands, Transfers, TypeOK

\* The path stays in order whatever fails and whatever is asked: in particular
\* a wait never exceeds the backoff that set it, nor that the longest.
THEOREM TypeCorrect == Spec => []TypeOK
<1>1. Spec => []Shape
  BY InitShape, StepShape, PTL DEF Spec
<1>2. QED
  BY <1>1, ShapeTypes, PTL

-----------------------------------------------------------------------------
(* What each part of a pass leaves as it was.                              *)

LEMMA TakenKeeps ==
    ASSUME NEW p \in Paths, NEW r \in Requests
    PROVE  LET q == Taken(p, r) IN
           /\ q.refused = p.refused /\ q.pc = p.pc /\ q.mode = p.mode
           /\ q.backlog = p.backlog
           /\ p.failed => q.failed
           /\ q.stream \in {p.stream, "none"}
           /\ r = "play"  => q.playing /\ (q.stream # "none" => ~q.silent)
           /\ r = "pause" => ~q.playing /\ (q.stream # "none" => q.silent)
           /\ r \notin {"play", "pause"} =>
                 q.playing = p.playing /\ (q.stream # "none" => q.silent = p.silent)
BY DEF Taken, SetPlaying, Released, AtOnce, Requests, Paths

LEMMA WatchedKeeps ==
    ASSUME NEW p \in Paths
    PROVE  LET q == Watched(p) IN
           /\ q.refused = p.refused /\ q.pc = p.pc /\ q.mode = p.mode
           /\ q.backlog = p.backlog /\ q.stream = p.stream
           /\ q.playing = p.playing /\ q.silent = p.silent
           /\ p.failed => q.failed
BY DEF Watched, Paths

LEMMA TryingKeeps ==
    ASSUME NEW p \in Paths
    PROVE  LET q == Trying(p) IN
           /\ q.refused = p.refused /\ q.pc = "open" /\ q.mode = p.mode
           /\ q.stream = "none" /\ q.failed /\ q.playing = p.playing
BY DEF Trying, Released, Paths

LEMMA ConcludedKeeps ==
    ASSUME NEW p \in Paths
    PROVE  LET q == Concluded(p) IN
           /\ q.refused = p.refused /\ q.pc = "idle"
           /\ q.mode \in {p.mode, "restarting"}
           /\ q.backlog = p.backlog /\ q.stream = p.stream
           /\ q.playing = p.playing /\ q.silent = p.silent /\ q.failed = p.failed
BY DEF Concluded, Paths

LEMMA AttachedKeeps ==
    ASSUME path \in Paths
    PROVE  LET q == Attached(path) IN
           /\ q.refused = path.refused /\ q.pc = "opened" /\ q.mode = path.mode
           /\ q.stream # "none" /\ q.playing = path.playing
BY DEF Attached, Opens, Paths

\* What Opened concludes from.
Settling ==
    IF SeenSilent(path) THEN [path EXCEPT !.failed = TRUE]
    ELSE [SetPlaying(AtOnce(path), path.playing) EXCEPT !.refused = NotRefused]

LEMMA SettlingKeeps ==
    ASSUME path \in Paths
    PROVE  /\ Settling.mode = path.mode /\ Settling.stream = path.stream
           /\ Settling.playing = path.playing
           /\ Settling.failed \/ (~Settling.refused.some /\ Settling.failed = path.failed)
           /\ \/ host = "pipewire" /\ Settling.failed
              \/ path.stream = "none"
              \/ Settling.silent = ~path.playing
<1>1. CASE SeenSilent(path)
  BY <1>1 DEF Settling, SeenSilent, Paths
<1>2. CASE ~SeenSilent(path)
  <2> DEFINE q == SetPlaying(AtOnce(path), path.playing)
  <2>1. /\ q.mode = path.mode /\ q.stream = path.stream /\ q.playing = path.playing
        /\ q.failed = path.failed
        /\ path.stream = "none" \/ q.silent = ~path.playing
        /\ q = [q EXCEPT !.mode = q.mode] /\ DOMAIN q = DOMAIN path
    BY DEF SetPlaying, AtOnce, Paths
  <2>2. Settling = [q EXCEPT !.refused = NotRefused]
    BY <1>2 DEF Settling
  <2> HIDE DEF q
  <2>3. QED
    BY <2>1, <2>2 DEF Paths, NotRefused
<1>3. QED
  BY <1>1, <1>2

\* A path in the middle of its pass: the request taken and the sink looked at.
Midway == Watched(IF requests = <<>> THEN path ELSE Taken(path, Head(requests)))

LEMMA MidwayOK ==
    ASSUME Shape
    PROVE  /\ Midway \in Paths
           /\ Midway.refused = path.refused /\ Midway.mode = path.mode
           /\ path.failed => Midway.failed
<1>1. CASE requests = <<>>
  BY <1>1, WatchedKeeps, WatchedOK DEF Midway, Shape, PathOK
<1>2. CASE requests # <<>>
  <2> DEFINE t == Taken(path, Head(requests))
  <2>1. Head(requests) \in Requests
    BY <1>2 DEF Shape, Channels
  <2>2. /\ PathOK(t)
        /\ t.refused = path.refused /\ t.mode = path.mode
        /\ path.failed => t.failed
    BY <2>1, TakenOK, TakenKeeps DEF Shape, PathOK
  <2>3. Midway = Watched(t)
    BY <1>2 DEF Midway
  <2> HIDE DEF t
  <2>4. t \in Paths /\ PathOK(Midway)
    BY <2>2, <2>3, WatchedOK DEF PathOK
  <2>5. Midway.refused = t.refused /\ Midway.mode = t.mode /\ (t.failed => Midway.failed)
    BY <2>3, <2>4, WatchedKeeps
  <2>6. QED
    BY <2>2, <2>4, <2>5 DEF PathOK
<1>3. QED
  BY <1>1, <1>2

-----------------------------------------------------------------------------
(* A refusal on record is an outage.                                       *)

OnRecord ==
    /\ RefusalIsOutage
    /\ path.pc \in {"open", "fresh"} => path.failed \/ history.stray

LEMMA InitOnRecord == Init => OnRecord
BY DEF Init, OnRecord, RefusalIsOutage, NewPath, NotRefused

LEMMA PassOnRecord == Shape /\ OnRecord /\ Pass => OnRecord'
<1> SUFFICES ASSUME Shape, OnRecord, Pass PROVE OnRecord'
  OBVIOUS
<1>1. path' = (IF Tries(Midway) THEN Trying(Midway) ELSE Concluded(Midway)) /\ history' = history
  BY DEF Pass, Midway
<1>2. path.pc = "idle"
  BY DEF Pass, Supervising
<1>3. Midway.refused.some => Midway.failed \/ history.stray
  BY <1>2, MidwayOK DEF OnRecord, RefusalIsOutage
<1>4. path'.failed = TRUE \/ (path'.pc = "idle" /\ path'.refused = Midway.refused /\ path'.failed = Midway.failed)
  BY <1>1, MidwayOK, TryingKeeps, ConcludedKeeps DEF Paths
<1>5. QED
  BY <1>1, <1>3, <1>4 DEF OnRecord, RefusalIsOutage

LEMMA OpeningOnRecord ==
    Shape /\ OnRecord /\ (Open \/ OpenFresh \/ Opened \/ LateOpen) => OnRecord'
<1> SUFFICES ASSUME Shape, OnRecord, Open \/ OpenFresh \/ Opened \/ LateOpen PROVE OnRecord'
  OBVIOUS
<1>1. path \in Paths /\ history \in Histories
  BY DEF Shape, PathOK
<1>2. path' = Attached(path) => OnRecord'
  BY <1>1, AttachedKeeps DEF OnRecord, RefusalIsOutage
<1>3. CASE Open
  <2>1. path' = Concluded(path) /\ history' = history => OnRecord'
    BY <1>1, <1>3, ConcludedKeeps DEF Open, Supervising, OnRecord, RefusalIsOutage
  <2>2. path' = [path EXCEPT !.pc = "fresh"] /\ history' = history => OnRecord'
    BY <1>1, <1>3 DEF Open, Supervising, OnRecord, RefusalIsOutage, Paths
  <2>3. QED
    BY <1>2, <1>3, <2>1, <2>2 DEF Open
<1>4. CASE OpenFresh
  <2>1. path.failed \/ history.stray
    BY <1>4 DEF OpenFresh, Supervising, OnRecord
  <2>2. ASSUME NEW wide \in BOOLEAN, path' = Concluded(Refused(path, wide)), history' = history
        PROVE  OnRecord'
    <3>1. Refused(path, wide) \in Paths
      BY RefusedOK DEF Shape, PathOK
    <3>2. Refused(path, wide).failed = path.failed
      BY <1>1 DEF Refused, Paths
    <3>3. path'.failed = path.failed /\ path'.pc = "idle"
      BY <2>2, <3>1, <3>2, ConcludedKeeps
    <3>4. QED
      BY <2>1, <2>2, <3>3 DEF OnRecord, RefusalIsOutage
  <2>3. QED
    BY <1>2, <1>4, <2>2 DEF OpenFresh
<1>5. CASE Opened
  <2>1. path' = Concluded(Settling) /\ history' = history
    BY <1>5 DEF Opened, Settling
  <2>2. Settling \in Paths
    BY OpenedOK DEF Shape, PathOK, Settling
  <2>3. path'.failed = Settling.failed /\ path'.refused = Settling.refused /\ path'.pc = "idle"
    BY <2>1, <2>2, ConcludedKeeps
  <2>4. QED
    BY <1>1, <2>3, SettlingKeeps DEF OnRecord, RefusalIsOutage
<1>6. CASE LateOpen
  BY <1>1, <1>6 DEF LateOpen, OnRecord, RefusalIsOutage, Histories
<1>7. QED
  BY <1>3, <1>4, <1>5, <1>6

LEMMA StepOnRecord == Shape /\ OnRecord /\ [Next]_vars => OnRecord'
<1> SUFFICES ASSUME Shape, OnRecord, [Next]_vars PROVE OnRecord'
  OBVIOUS
<1>1. path \in Paths /\ history \in Histories
  BY DEF Shape, PathOK
<1>2. ASSUME path'.refused.some => path.refused.some, path'.pc = path.pc,
             path.failed => path'.failed, history'.stray = history.stray
      PROVE  OnRecord'
  BY <1>2 DEF OnRecord, RefusalIsOutage
<1>3. CASE UNCHANGED vars
  BY <1>2, <1>3 DEF vars
<1>4. CASE Pass
  BY <1>4, PassOnRecord
<1>5. CASE Open \/ OpenFresh \/ Opened \/ LateOpen
  BY <1>5, OpeningOnRecord
<1>6. CASE AwaitReceive
  BY <1>1, <1>2, <1>6 DEF AwaitReceive, Paths
<1>7. CASE AwaitOpen
  <2>1. path'.refused = path.refused /\ path'.pc = path.pc /\ path'.failed = path.failed
    BY <1>1, <1>7 DEF AwaitOpen, Paths
  <2>2. QED
    BY <1>2, <1>7, <2>1 DEF AwaitOpen
<1>8. CASE Restart
  <2>1. ~path'.refused.some /\ path'.pc = "idle"
    BY <1>8 DEF Restart, NewPath, NotRefused
  <2>2. QED
    BY <2>1 DEF OnRecord, RefusalIsOutage
<1>9. CASE Drain \/ \E c \in {"play", "pause", "reopen"} : Ask(c)
  BY <1>1, <1>2, <1>9 DEF Drain, Ask, Histories
<1>10. CASE Mix
  BY <1>1, <1>2, <1>10 DEF Mix, Paths
<1>11. CASE \E h \in Holds : Hold(h) \/ End(h) \/ Send(h)
  BY <1>1, <1>2, <1>11 DEF Hold, End, Send, Histories
<1>12. CASE WorldChanges
  <2>1. path'.refused = path.refused /\ path'.pc = path.pc /\ (path.failed => path'.failed)
    BY <1>1, <1>12 DEF WorldChanges, Paths
  <2>2. QED
    BY <1>1, <1>2, <1>12, <2>1 DEF WorldChanges, Histories
<1>13. CASE Tick
  <2>1. path'.refused.some = path.refused.some /\ path'.pc = path.pc /\ path'.failed = path.failed
    BY <1>1, <1>13 DEF Tick, Paths
  <2>2. QED
    BY <1>1, <1>2, <1>13, <2>1 DEF Tick, Histories
<1>14. QED
  BY <1>3, <1>4, <1>5, <1>6, <1>7, <1>8, <1>9, <1>10, <1>11, <1>12, <1>13 DEF Next

\* Whatever refuses, and however often: with a refusal on record the output is
\* down or a thread given up on has hidden it, so no working player restarts.
THEOREM RefusedWhileOut == Spec => []RefusalIsOutage
<1>1. Init => Shape /\ OnRecord
  BY InitShape, InitOnRecord
<1>2. Shape /\ OnRecord /\ [Next]_vars => (Shape /\ OnRecord)'
  BY StepShape, StepOnRecord
<1>3. Shape /\ OnRecord => RefusalIsOutage
  BY DEF OnRecord
<1>4. QED
  BY <1>1, <1>2, <1>3, PTL DEF Spec

-----------------------------------------------------------------------------
(* The device does as the engine asks.                                     *)

Words == {"play", "pause"}

\* A play or a pause the supervisor has yet to take; and the last of them.
Pending == \E i \in DOMAIN requests : requests[i] \in Words
IsLastWord(i) == /\ i \in DOMAIN requests /\ requests[i] \in Words
                 /\ \A j \in DOMAIN requests : j > i => requests[j] \notin Words

\* What the supervisor believes, once it has taken what waits, is what the
\* engine does.
Heeded ==
    path.mode = "running" =>
        /\ \A i \in DOMAIN requests : IsLastWord(i) => (playing <=> requests[i] = "play")
        /\ ~Pending => path.playing = playing

\* What the flag of a stream says, unless the sink was seen to be silent.
Flagged ==
    (/\ path.mode = "running" /\ path.pc = "idle" /\ path.stream # "none"
     /\ ~(host = "pipewire" /\ path.failed))
        => IF path.playing THEN ~path.silent
           ELSE path.backlog => path.silent \/ Pending

\* While an open is tried no stream is held; and only a host whose sinks
\* cannot be observed tries one on a fresh thread.
Trial ==
    /\ path.pc \in {"open", "fresh"} => path.stream = "none"
    /\ late \/ path.pc = "fresh" => host # "pipewire"

Attuned == Heeded /\ Flagged /\ Trial

\* A process that starts asks its supervisor for what it will do itself.
LEMMA AttunedAtStart == Init => Attuned
<1> SUFFICES ASSUME Init PROVE Attuned
  OBVIOUS
<1>1. path = NewPath(world) /\ requests = Resumed /\ playing \in BOOLEAN /\ late = FALSE
  BY DEF Init
<1>2. ~path.playing /\ ~path.backlog /\ path.pc = "idle"
  BY <1>1 DEF NewPath
<1>3. CASE playing
  <2>1. requests = <<"play">> /\ DOMAIN requests = {1} /\ requests[1] = "play" /\ playing = TRUE
    BY <1>1, <1>3 DEF Resumed
  <2>2. QED
    BY <1>1, <1>2, <1>3, <2>1 DEF Attuned, Heeded, Flagged, Trial, IsLastWord, Pending, Words
<1>4. CASE ~playing
  <2>1. requests = <<>> /\ DOMAIN requests = {} /\ playing = FALSE /\ path.playing = FALSE
    BY <1>1, <1>4 DEF Resumed, NewPath
  <2>2. Heeded
    BY <2>1 DEF Heeded
  <2>3. QED
    BY <1>1, <1>2, <2>2 DEF Attuned, Flagged, Trial
<1>5. QED
  BY <1>3, <1>4

LEMMA AttunedAfterRestart == Shape /\ Restart => Attuned'
<1> SUFFICES ASSUME Shape, Restart PROVE Attuned'
  OBVIOUS
<1>1. /\ path' = NewPath(world') /\ requests' = Resumed /\ playing' = playing
      /\ playing \in BOOLEAN /\ late' = FALSE
  BY DEF Restart, Shape
<1>2. ~path'.playing /\ ~path'.backlog /\ path'.pc = "idle"
  BY <1>1 DEF NewPath
<1>3. CASE playing
  <2>1. requests' = <<"play">> /\ DOMAIN requests' = {1} /\ requests'[1] = "play" /\ playing' = TRUE
    BY <1>1, <1>3 DEF Resumed
  <2>2. QED
    BY <1>1, <1>2, <1>3, <2>1 DEF Attuned, Heeded, Flagged, Trial, IsLastWord, Pending, Words
<1>4. CASE ~playing
  <2>1. requests' = <<>> /\ DOMAIN requests' = {} /\ playing' = FALSE /\ path'.playing = FALSE
    BY <1>1, <1>4 DEF Resumed, NewPath
  <2>2. Heeded'
    BY <2>1 DEF Heeded
  <2>3. QED
    BY <1>1, <1>2, <2>2 DEF Attuned, Flagged, Trial
<1>5. QED
  BY <1>3, <1>4

\* Nothing is said: the engine, what waits, and who is believed are as before.
LEMMA HeededStill ==
    ASSUME Heeded, UNCHANGED <<requests, playing>>,
           path'.mode = "running" => path.mode = "running" /\ path'.playing = path.playing
    PROVE  Heeded'
BY DEF Heeded, IsLastWord, Pending

\* One request is taken.
LEMMA TakingHeeds ==
    ASSUME Shape, Heeded, path.mode = "running", requests # <<>>,
           requests' = Tail(requests), playing' = playing,
           path'.playing = Taken(path, Head(requests)).playing
    PROVE  Heeded'
<1>1. requests \in Seq(Requests) /\ Head(requests) \in Requests /\ path \in Paths
  BY DEF Shape, Channels, PathOK
<1>2. /\ DOMAIN requests = 1..Len(requests) /\ DOMAIN requests' = 1..(Len(requests) - 1)
      /\ \A i \in DOMAIN requests' : requests'[i] = requests[i + 1]
      /\ Len(requests) \in Nat \ {0} /\ Head(requests) = requests[1]
  BY <1>1
<1>3. ASSUME NEW i \in DOMAIN requests', IsLastWord(i)'
      PROVE  playing <=> requests'[i] = "play"
  <2>1. IsLastWord(i + 1)
    <3>1. i + 1 \in DOMAIN requests /\ requests[i + 1] \in Words
      BY <1>2, <1>3 DEF IsLastWord
    <3>2. ASSUME NEW j \in DOMAIN requests, j > i + 1
          PROVE  requests[j] \notin Words
      <4>1. j - 1 \in DOMAIN requests' /\ j - 1 > i /\ requests'[j - 1] = requests[j]
        BY <1>2, <3>2
      <4>2. QED
        BY <1>3, <4>1 DEF IsLastWord
    <3>3. QED
      BY <3>1, <3>2 DEF IsLastWord
  <2>2. QED
    BY <1>2, <2>1 DEF Heeded, IsLastWord
<1>4. ASSUME ~Pending'
      PROVE  path'.playing = playing
  <2>1. \A j \in DOMAIN requests : j > 1 => requests[j] \notin Words
    <3>1. ASSUME NEW j \in DOMAIN requests, j > 1, requests[j] \in Words
          PROVE  FALSE
      <4>1. j - 1 \in DOMAIN requests' /\ requests'[j - 1] = requests[j]
        BY <1>2, <3>1
      <4>2. QED
        BY <1>4, <3>1, <4>1 DEF Pending, Words
    <3>2. QED
      BY <3>1
  <2>2. CASE Head(requests) \in Words
    <3>1. IsLastWord(1)
      BY <1>2, <2>1, <2>2 DEF IsLastWord
    <3>2. playing <=> Head(requests) = "play"
      BY <1>2, <3>1 DEF Heeded
    <3>3. Taken(path, Head(requests)).playing = (Head(requests) = "play")
      BY <2>2 DEF Taken, SetPlaying, Words, Shape, PathOK, Paths
    <3>4. QED
      BY <3>2, <3>3 DEF Shape
  <2>3. CASE Head(requests) \notin Words
    <3>1. ~Pending
      BY <1>2, <2>1, <2>3 DEF Pending
    <3>2. QED
      BY <1>1, <2>3, <3>1, TakenKeeps DEF Heeded, Words
  <2>4. QED
    BY <2>2, <2>3
<1>5. QED
  BY <1>3, <1>4 DEF Heeded

\* The engine passes a command on.
LEMMA DrainHeeds == Shape /\ Heeded /\ Drain => Heeded' /\ (Pending => Pending')
<1> SUFFICES ASSUME Shape, Heeded, Drain PROVE Heeded' /\ (Pending => Pending')
  OBVIOUS
<1> DEFINE w == Head(commands).what
<1>1. requests \in Seq(Requests) /\ playing \in BOOLEAN
  BY DEF Shape, Channels
<1>2. CASE path.mode = "ended"
  BY <1>2 DEF Drain, Heeded, Pending
<1>3. CASE path.mode # "ended"
  <2>1. /\ requests' = Append(requests, w) /\ path' = path
        /\ playing' = (IF w \in Words THEN w = "play" ELSE playing)
    BY <1>3 DEF Drain, Words
  <2> HIDE DEF w
  <2>2. /\ DOMAIN requests = 1..Len(requests) /\ DOMAIN requests' = 1..(Len(requests) + 1)
        /\ \A i \in DOMAIN requests : requests'[i] = requests[i]
        /\ requests'[Len(requests) + 1] = w /\ Len(requests) \in Nat
    BY <1>1, <2>1
  <2>3. Pending => Pending'
    BY <2>2 DEF Pending, Words
  <2>4. CASE w \in Words
    <3>1. Pending'
      BY <2>2, <2>4 DEF Pending, Words
    <3>2. ASSUME NEW i \in DOMAIN requests', IsLastWord(i)'
          PROVE  i = Len(requests) + 1
      BY <2>2, <2>4, <3>2 DEF IsLastWord, Words
    <3>3. QED
      BY <2>1, <2>2, <2>3, <2>4, <3>1, <3>2 DEF Heeded
  <2>5. CASE w \notin Words
    <3>1. Pending' => Pending
      BY <2>2, <2>5 DEF Pending, Words
    <3>2. ASSUME NEW i \in DOMAIN requests', IsLastWord(i)'
          PROVE  i \in DOMAIN requests /\ IsLastWord(i)
      BY <2>2, <2>5, <3>2 DEF IsLastWord, Words
    <3>3. QED
      BY <2>1, <2>2, <2>3, <2>5, <3>1, <3>2 DEF Heeded
  <2>6. QED
    BY <2>4, <2>5
<1>4. QED
  BY <1>2, <1>3

LEMMA PassAttuned == Shape /\ Attuned /\ Pass => Attuned'
<1> SUFFICES ASSUME Shape, Attuned, Pass PROVE Attuned'
  OBVIOUS
<1> DEFINE t == IF requests = <<>> THEN path ELSE Taken(path, Head(requests))
           p == Watched(t)
<1>1. /\ path' = (IF Tries(p) THEN Trying(p) ELSE Concluded(p))
      /\ requests' = (IF requests = <<>> THEN <<>> ELSE Tail(requests))
      /\ path.mode = "running" /\ path.pc = "idle"
      /\ UNCHANGED <<host, playing, late>>
  BY DEF Pass, Supervising
<1>2. path \in Paths /\ (requests # <<>> => Head(requests) \in Requests)
  BY DEF Shape, PathOK, Channels
<1>3. /\ t \in Paths /\ t.backlog = path.backlog
      /\ path.failed => t.failed
      /\ t.stream \in {path.stream, "none"}
  <2>1. CASE requests = <<>>
    BY <1>2, <2>1
  <2>2. CASE requests # <<>>
    BY <1>2, <2>2, TakenKeeps, TakenOK DEF Shape, PathOK
  <2>3. QED
    BY <2>1, <2>2
<1>4. /\ p \in Paths /\ p.backlog = t.backlog /\ p.stream = t.stream
      /\ p.playing = t.playing /\ p.silent = t.silent /\ (t.failed => p.failed)
  <2>1. PathOK(t)
    BY <1>2, TakenOK DEF Shape
  <2> HIDE DEF t
  <2>2. QED
    BY <1>3, <2>1, WatchedKeeps, WatchedOK DEF PathOK
<1>5. path'.playing = t.playing
  <2> HIDE DEF t, p
  <2>1. QED
    BY <1>1, <1>4, TryingKeeps, ConcludedKeeps
<1>6. Heeded'
  <2>1. CASE requests = <<>>
    BY <1>1, <1>5, <2>1, HeededStill DEF Attuned
  <2>2. CASE requests # <<>>
    BY <1>1, <1>5, <2>2, TakingHeeds DEF Attuned
  <2>3. QED
    BY <2>1, <2>2
<1>7. (t.stream # "none" /\ ~(host = "pipewire" /\ t.failed))
         => IF t.playing THEN ~t.silent ELSE t.backlog => t.silent \/ Pending'
  <2> SUFFICES ASSUME t.stream # "none", ~(host = "pipewire" /\ t.failed)
               PROVE  IF t.playing THEN ~t.silent ELSE t.backlog => t.silent \/ Pending'
    OBVIOUS
  <2>1. IF path.playing THEN ~path.silent ELSE path.backlog => path.silent \/ Pending
    BY <1>1, <1>3 DEF Attuned, Flagged
  <2>2. CASE requests = <<>>
    BY <1>1, <2>1, <2>2 DEF Pending
  <2>3. CASE requests # <<>> /\ Head(requests) = "play"
    BY <1>2, <2>3, TakenKeeps
  <2>4. CASE requests # <<>> /\ Head(requests) = "pause"
    BY <1>2, <2>4, TakenKeeps
  <2>5. CASE requests # <<>> /\ Head(requests) \notin Words
    <3>1. t.playing = path.playing /\ t.silent = path.silent
      BY <1>2, <2>5, TakenKeeps DEF Words
    <3>2. Pending => Pending'
      <4>1. requests \in Seq(Requests)
        BY DEF Shape, Channels
      <4>2. ASSUME NEW i \in DOMAIN requests, requests[i] \in Words
            PROVE  i - 1 \in DOMAIN requests' /\ requests'[i - 1] = requests[i]
        <5>1. i # 1 /\ i \in 1..Len(requests)
          BY <2>5, <4>1, <4>2
        <5>2. QED
          BY <1>1, <2>5, <4>1, <5>1
      <4>3. QED
        BY <4>2 DEF Pending, Words
    <3>3. QED
      BY <1>3, <2>1, <3>1, <3>2
  <2>6. QED
    BY <2>2, <2>3, <2>4, <2>5 DEF Words
<1> HIDE DEF t, p
<1>8. CASE Tries(p)
  <2>1. path'.pc = "open" /\ path'.stream = "none"
    BY <1>1, <1>4, <1>8, TryingKeeps
  <2>2. QED
    BY <1>1, <1>6, <2>1 DEF Attuned, Flagged, Trial
<1>9. CASE ~Tries(p)
  <2>1. /\ path'.pc = "idle" /\ path'.stream = t.stream /\ path'.backlog = t.backlog
        /\ path'.silent = t.silent /\ (t.failed => path'.failed)
    BY <1>1, <1>4, <1>9, ConcludedKeeps
  <2>2. Flagged'
    BY <1>1, <1>5, <1>7, <2>1 DEF Flagged
  <2>3. QED
    BY <1>1, <1>6, <2>1, <2>2 DEF Attuned, Trial
<1>10. QED
  BY <1>8, <1>9

LEMMA OpeningAttuned ==
    Shape /\ Attuned /\ (Open \/ OpenFresh \/ Opened \/ LateOpen) => Attuned'
<1> SUFFICES ASSUME Shape, Attuned, Open \/ OpenFresh \/ Opened \/ LateOpen PROVE Attuned'
  OBVIOUS
<1>1. path \in Paths /\ world \in WorldsOf(host) /\ UNCHANGED <<host, requests, playing>>
  BY DEF Shape, PathOK, Open, OpenFresh, Opened, LateOpen
<1>2. path' = Attached(path) /\ late' = late => Attuned'
  <2> SUFFICES ASSUME path' = Attached(path), late' = late PROVE Attuned'
    OBVIOUS
  <2>1. path'.pc = "opened" /\ path'.mode = path.mode /\ path'.playing = path.playing
    BY <1>1, AttachedKeeps
  <2>2. QED
    BY <1>1, <2>1, HeededStill DEF Attuned, Flagged, Trial
<1>3. ASSUME NEW q \in Paths, path' = Concluded(q), q.stream = "none",
             q.playing = path.playing, q.mode = path.mode,
             late' => host # "pipewire"
      PROVE  Attuned'
  <2>1. /\ path'.pc = "idle" /\ path'.stream = "none" /\ path'.playing = path.playing
        /\ path'.mode \in {path.mode, "restarting"}
    BY <1>3, ConcludedKeeps
  <2>2. QED
    BY <1>1, <1>3, <2>1, HeededStill DEF Attuned, Flagged, Trial
<1>4. CASE Open
  <2>1. path.stream = "none"
    BY <1>4 DEF Open, Supervising, Attuned, Trial
  <2>2. path' = Concluded(path) => Attuned'
    BY <1>1, <1>3, <1>4, <2>1 DEF Open, Attuned, Trial
  <2>3. ASSUME world \in {"refusing", "refusing here"}, path' = [path EXCEPT !.pc = "fresh"]
        PROVE  Attuned'
    <3>1. host # "pipewire"
      BY <1>1, <2>3 DEF WorldsOf
    <3>2. /\ path'.pc = "fresh" /\ path'.stream = "none" /\ path'.mode = path.mode
          /\ path'.playing = path.playing
      BY <1>1, <2>1, <2>3 DEF Paths
    <3>3. QED
      BY <1>1, <3>1, <3>2, HeededStill DEF Attuned, Flagged, Trial
  <2>4. QED
    BY <1>2, <1>4, <2>2, <2>3 DEF Open
<1>5. CASE OpenFresh
  <2>1. path.stream = "none" /\ host # "pipewire"
    BY <1>5 DEF OpenFresh, Supervising, Attuned, Trial
  <2>2. ASSUME NEW wide \in BOOLEAN
        PROVE  /\ Refused(path, wide) \in Paths /\ Refused(path, wide).stream = "none"
               /\ Refused(path, wide).playing = path.playing
               /\ Refused(path, wide).mode = path.mode
    BY <1>1, <2>1, RefusedOK DEF Refused, Paths, Shape, PathOK
  <2>3. path' = Concluded(Refused(path, world = "refusing")) => Attuned'
    BY <1>3, <2>1, <2>2
  <2>4. path' = Concluded(Refused(path, FALSE)) => Attuned'
    BY <1>3, <2>1, <2>2
  <2>5. QED
    BY <1>2, <1>5, <2>3, <2>4 DEF OpenFresh
<1>6. CASE Opened
  <2>1. path' = Concluded(Settling) /\ late' = late
    BY <1>6 DEF Opened, Settling
  <2>2. Settling \in Paths
    BY OpenedOK DEF Shape, PathOK, Settling
  <2>3. /\ path'.pc = "idle" /\ path'.stream = path.stream /\ path'.playing = path.playing
        /\ path'.mode \in {path.mode, "restarting"}
        /\ \/ host = "pipewire" /\ path'.failed
           \/ path.stream = "none" \/ path'.silent = ~path.playing
    BY <1>1, <2>1, <2>2, ConcludedKeeps, SettlingKeeps
  <2>4. Heeded'
    BY <1>1, <2>3, HeededStill DEF Attuned
  <2>5. Flagged'
    BY <1>1, <2>3 DEF Flagged, Paths
  <2>6. QED
    BY <1>1, <2>1, <2>3, <2>4, <2>5 DEF Attuned, Trial
<1>7. CASE LateOpen
  <2>1. host # "pipewire" /\ late' = FALSE
    BY <1>7 DEF LateOpen, Attuned, Trial
  <2>2. /\ path'.pc = path.pc /\ path'.stream = path.stream /\ path'.playing = path.playing
        /\ path'.mode = path.mode /\ path'.silent = path.silent /\ path'.backlog = path.backlog
    BY <1>1, <1>7 DEF LateOpen, Paths
  <2>3. QED
    BY <1>1, <2>1, <2>2, HeededStill DEF Attuned, Flagged, Trial, Pending
<1>8. QED
  BY <1>4, <1>5, <1>6, <1>7

LEMMA StepAttuned == Shape /\ Attuned /\ [Next]_vars => Attuned'
<1> SUFFICES ASSUME Shape, Attuned, [Next]_vars PROVE Attuned'
  OBVIOUS
<1>1. path \in Paths /\ playing \in BOOLEAN
  BY DEF Shape, PathOK
<1>2. ASSUME UNCHANGED <<host, requests, playing, late>>,
             path'.mode = path.mode, path'.pc = path.pc, path'.playing = path.playing,
             path'.stream = "none" <=> path.stream = "none", path.failed => path'.failed,
             path'.silent = path.silent,
             path'.backlog = path.backlog \/ (path.mode = "running" /\ playing)
      PROVE  Attuned'
  <2>1. Heeded' /\ Trial'
    BY <1>2, HeededStill DEF Attuned, Trial
  <2>2. Pending' <=> Pending
    BY <1>2 DEF Pending
  <2>3. Flagged'
    BY <1>2, <2>2 DEF Attuned, Flagged, Heeded
  <2>4. QED
    BY <2>1, <2>3 DEF Attuned
<1>3. ASSUME UNCHANGED <<host, requests, playing, late, path>>
      PROVE  Attuned'
  BY <1>3 DEF Attuned, Heeded, Flagged, Trial, IsLastWord, Pending
<1>4. CASE UNCHANGED vars
  BY <1>3, <1>4 DEF vars
<1>5. CASE Pass
  BY <1>5, PassAttuned
<1>6. CASE Open \/ OpenFresh \/ Opened \/ LateOpen
  BY <1>6, OpeningAttuned
<1>7. CASE AwaitReceive \/ AwaitOpen
  <2>1. /\ path.mode = "awaiting" /\ path'.mode # "running" /\ path'.pc = path.pc
        /\ path'.stream = path.stream /\ UNCHANGED <<host, late>>
    BY <1>1, <1>7 DEF AwaitReceive, AwaitOpen, Paths
  <2>2. QED
    BY <2>1 DEF Attuned, Heeded, Flagged, Trial
<1>8. CASE Restart
  BY <1>8, AttunedAfterRestart
<1>9. CASE Drain
  <2>1. UNCHANGED <<host, path, late>>
    BY <1>9 DEF Drain
  <2>2. Heeded' /\ (Pending => Pending')
    BY <1>9, DrainHeeds DEF Attuned
  <2>3. QED
    BY <2>1, <2>2 DEF Attuned, Flagged, Trial
<1>10. CASE Mix
  <2>1. playing /\ path.mode = "running" /\ path' = [path EXCEPT !.backlog = TRUE]
    BY <1>10 DEF Mix, Audible
  <2>2. QED
    BY <1>1, <1>2, <1>10, <2>1 DEF Mix, Paths
<1>11. CASE \E c \in {"play", "pause", "reopen"} : Ask(c)
  BY <1>3, <1>11 DEF Ask
<1>12. CASE \E h \in Holds : Hold(h) \/ End(h) \/ Send(h)
  BY <1>3, <1>12 DEF Hold, End, Send
<1>13. CASE WorldChanges
  <2> DEFINE Alike == /\ path'.mode = path.mode /\ path'.pc = path.pc
                      /\ path'.playing = path.playing
                      /\ (path'.stream = "none" <=> path.stream = "none")
                      /\ (path.failed => path'.failed)
                      /\ path'.silent = path.silent /\ path'.backlog = path.backlog
  <2>1. Alike
    <3>1. ASSUME NEW w, Opens(w), path' = [path EXCEPT !.stream = w], path.stream # "none"
          PROVE  Alike
      BY <1>1, <3>1 DEF Opens, Paths
    <3>2. ASSUME path' = [path EXCEPT !.stream = "dead", !.failed = TRUE], path.stream # "none"
          PROVE  Alike
      BY <1>1, <3>2 DEF Paths
    <3>3. path' = path => Alike
      OBVIOUS
    <3> HIDE DEF Alike
    <3>4. QED
      BY <1>13, <3>1, <3>2, <3>3 DEF WorldChanges
  <2>2. QED
    BY <1>2, <1>3, <1>13, <2>1 DEF WorldChanges
<1>14. CASE Tick
  <2>1. /\ path'.mode = path.mode /\ path'.pc = path.pc /\ path'.playing = path.playing
        /\ path'.stream = path.stream /\ path'.failed = path.failed
        /\ path'.silent = path.silent /\ path'.backlog = path.backlog
    BY <1>1, <1>14 DEF Tick, Paths
  <2>2. QED
    BY <1>2, <1>14, <2>1 DEF Tick
<1>15. QED
  BY <1>4, <1>5, <1>6, <1>7, <1>8, <1>9, <1>10, <1>11, <1>12, <1>13, <1>14 DEF Next

\* Whatever is lost, moved, refused or taken away, and whatever was asked
\* meanwhile: once the channels are empty, a device that is held and works
\* plays exactly if the engine does.
THEOREM DeviceObeys == Spec => []DeviceDoesAsAsked
<1>1. Init => Shape /\ Attuned
  BY InitShape, AttunedAtStart
<1>2. Shape /\ Attuned /\ [Next]_vars => (Shape /\ Attuned)'
  BY StepShape, StepAttuned
<1>3. Shape /\ Attuned => DeviceDoesAsAsked
  <2> SUFFICES ASSUME Shape, Attuned, Settled, path.stream # "none", ~path.failed
               PROVE  IF playing THEN ~path.silent ELSE path.backlog => path.silent
    BY DEF DeviceDoesAsAsked
  <2>1. ~Pending
    BY DEF Settled, Pending
  <2>2. path.playing = playing
    BY <2>1 DEF Attuned, Heeded, Settled
  <2>3. QED
    BY <2>1, <2>2 DEF Attuned, Flagged, Settled
<1>4. QED
  BY <1>1, <1>2, <1>3, PTL DEF Spec

-----------------------------------------------------------------------------
(* The music a transfer paused.                                            *)

\* What a hold may still have to send.
Plans == {<<>>, <<"pause", "quiet">>, <<"quiet">>, <<"unquiet">>, <<"unquiet", "play">>, <<"play">>}
Resumes == {<<"unquiet", "play">>, <<"play">>}

TransferPause == [what |-> "pause", by |-> "transfer"]

\* Only a live hold still pauses, and while its pause is anywhere on the way
\* the holds remember it; and what is owed is remembered, or being sent.
Accounts ==
    /\ \A h \in Holds : transfer.todo[h] \in Plans
    /\ \A h \in Holds : transfer.todo[h] # <<>> => h \in transfer.live \cup history.ended
    /\ \A h \in Holds : transfer.todo[h] = <<"pause", "quiet">>
                            => h \in transfer.live /\ transfer.paused

Remembered ==
    /\ (\E i \in DOMAIN commands : commands[i] = TransferPause) => transfer.paused
    /\ transfer.paused => transfer.live # {}

Owing ==
    history.owed =>
        /\ ~playing
        /\ \/ transfer.paused
           \/ \E h \in Holds : transfer.todo[h] \in Resumes
           \/ \E i \in DOMAIN commands : commands[i].what = "play"

Squared == Accounts /\ Remembered /\ Owing

LEMMA InitSquared == Init => Squared
BY DEF Init, NewTransfer, Squared, Accounts, Remembered, Owing, Plans

LEMMA RestartSquared == Shape /\ Restart => Squared'
<1> SUFFICES ASSUME Shape, Restart PROVE Squared'
  OBVIOUS
<1>1. transfer' = NewTransfer /\ commands' = <<>> /\ history'.owed = FALSE
  BY DEF Restart, Shape, Histories
<1>2. QED
  BY <1>1 DEF NewTransfer, Squared, Accounts, Remembered, Owing, Plans

\* The engine takes a command: a play settles what was owed, a pause of a
\* transfer's is remembered.
LEMMA DrainSquared == Shape /\ Squared /\ Drain => Squared'
<1> SUFFICES ASSUME Shape, Squared, Drain PROVE Squared'
  OBVIOUS
<1> DEFINE c == Head(commands)
<1>1. commands \in Seq(Commands) /\ commands # <<>> /\ history \in Histories /\ playing \in BOOLEAN
  BY DEF Shape, Channels, Drain
<1>2. /\ commands' = Tail(commands) /\ transfer' = transfer
      /\ playing' = (IF c.what \in {"play", "pause"} THEN c.what = "play" ELSE playing)
      /\ history' = [history EXCEPT !.owed =
              \/ c.what = "pause" /\ c.by = "transfer" /\ (@ \/ playing)
              \/ c.what \notin {"play", "pause"} /\ @]
  BY DEF Drain
<1>3. /\ DOMAIN commands = 1..Len(commands) /\ DOMAIN commands' = 1..(Len(commands) - 1)
      /\ \A i \in DOMAIN commands' : commands'[i] = commands[i + 1]
      /\ c = commands[1] /\ c \in Commands /\ Len(commands) \in Nat \ {0}
  BY <1>1, <1>2
<1> HIDE DEF c
<1>4. history'.ended = history.ended
      /\ history'.owed = (\/ c.what = "pause" /\ c.by = "transfer" /\ (history.owed \/ playing)
                          \/ c.what \notin {"play", "pause"} /\ history.owed)
  BY <1>1, <1>2 DEF Histories
<1>5. Accounts'
  BY <1>2, <1>4 DEF Squared, Accounts
<1>6. Remembered'
  BY <1>2, <1>3 DEF Squared, Remembered
<1>7. Owing'
  <2> SUFFICES ASSUME history'.owed
               PROVE  ~playing' /\ (\/ transfer.paused
                                    \/ \E h \in Holds : transfer.todo[h] \in Resumes
                                    \/ \E i \in DOMAIN commands' : commands'[i].what = "play")
    BY <1>2 DEF Owing
  <2>1. CASE c.what = "pause"
    <3>1. c = TransferPause
      BY <1>3, <1>4, <2>1 DEF Commands, TransferPause
    <3>2. 1 \in DOMAIN commands /\ commands[1] = TransferPause
      BY <1>3, <3>1
    <3>3. transfer.paused
      BY <3>2 DEF Squared, Remembered
    <3>4. QED
      BY <1>2, <2>1, <3>3
  <2>2. CASE c.what \notin {"play", "pause"}
    <3>1. history.owed /\ ~playing'
      BY <1>2, <1>4, <2>2 DEF Squared, Owing
    <3>2. ASSUME NEW i \in DOMAIN commands, commands[i].what = "play"
          PROVE  i - 1 \in DOMAIN commands' /\ commands'[i - 1].what = "play"
      <4>1. i # 1
        BY <1>3, <2>2, <3>2
      <4>2. QED
        BY <1>3, <3>2, <4>1
    <3>3. QED
      BY <3>1, <3>2 DEF Squared, Owing
  <2>3. QED
    BY <1>4, <2>1, <2>2
<1>8. QED
  BY <1>5, <1>6, <1>7 DEF Squared

LEMMA AskSquared ==
    Shape /\ Squared /\ (\E c \in {"play", "pause", "reopen"} : Ask(c)) => Squared'
<1> SUFFICES ASSUME Shape, Squared, NEW c \in {"play", "pause", "reopen"}, Ask(c) PROVE Squared'
  OBVIOUS
<1>1. /\ commands = <<>> /\ transfer' = transfer /\ playing' = playing
      /\ commands' = <<[what |-> c, by |-> "listener"]>>
      /\ history'.owed = history.owed /\ history'.ended = history.ended
  BY DEF Ask, Shape, Histories
<1>2. \A i \in DOMAIN commands' : commands'[i].by = "listener"
  BY <1>1
<1>3. Remembered'
  BY <1>1, <1>2 DEF Squared, Remembered, TransferPause
<1>4. QED
  BY <1>1, <1>3 DEF Squared, Accounts, Owing

LEMMA TwoWords ==
    ASSUME NEW a, NEW b
    PROVE  /\ <<a>> \o <<b>> = <<a, b>>
           /\ Head(<<a, b>>) = a /\ Tail(<<a, b>>) = <<b>>
           /\ Head(<<a>>) = a /\ Tail(<<a>>) = <<>>
<1>1. <<a>> \in Seq({a, b}) /\ <<b>> \in Seq({a, b}) /\ <<a, b>> \in Seq({a, b})
  OBVIOUS
<1>2. <<a>> \o <<b>> = <<a, b>>
  <2> DEFINE s == <<a>> \o <<b>>
             t == <<a, b>>
  <2>1. s \in Seq({a, b}) /\ Len(s) = 2 /\ s[1] = a /\ s[2] = b
    BY <1>1, ConcatProperties
  <2>2. t \in Seq({a, b}) /\ Len(t) = 2 /\ t[1] = a /\ t[2] = b
    BY <1>1
  <2> HIDE DEF s, t
  <2>3. \A i \in 1..2 : s[i] = t[i]
    BY <2>1, <2>2
  <2>4. s = t
    BY <2>1, <2>2, <2>3, SeqEqual
  <2>5. QED
    BY <2>4 DEF s, t
<1>3. Tail(<<a, b>>) = <<b>> /\ Tail(<<a>>) = <<>>
  BY <1>1
<1>4. QED
  BY <1>2, <1>3

LEMMA HoldSquared ==
    ASSUME NEW h \in Holds
    PROVE  Shape /\ Squared /\ Hold(h) => Squared'
<1> SUFFICES ASSUME Shape, Squared, Hold(h) PROVE Squared'
  OBVIOUS
<1> DEFINE first == transfer.live = {}
           pause == first /\ playing
           plan == Said(pause, "pause") \o Said(first, "quiet")
<1>1. /\ transfer' = [live |-> transfer.live \cup {h}, paused |-> transfer.paused \/ pause,
                      todo |-> [transfer.todo EXCEPT ![h] = plan]]
      /\ h \notin transfer.live \cup history.ended
      /\ UNCHANGED <<commands, playing, history>>
  BY DEF Hold
<1>2. plan \in Plans /\ (plan = <<"pause", "quiet">> => pause)
  <2>1. CASE pause
    <3>1. plan = <<"pause">> \o <<"quiet">>
      BY <2>1 DEF Said
    <3>2. plan = <<"pause", "quiet">>
      BY <3>1, TwoWords
    <3>3. QED
      BY <2>1, <3>2 DEF Plans
  <2>2. CASE ~pause /\ first
    <3>1. plan = <<>> \o <<"quiet">>
      BY <2>2 DEF Said
    <3>2. plan = <<"quiet">>
      BY <3>1
    <3>3. QED
      BY <3>2 DEF Plans
  <2>3. CASE ~first
    <3>1. plan = <<>> \o <<>>
      BY <2>3 DEF Said
    <3>2. plan = <<>>
      BY <3>1
    <3>3. QED
      BY <3>2 DEF Plans
  <2>4. QED
    BY <2>1, <2>2, <2>3
<1> HIDE DEF first, pause, plan
<1>3. /\ transfer'.live = transfer.live \cup {h} /\ transfer'.paused = (transfer.paused \/ pause)
      /\ transfer'.todo[h] = plan
      /\ \A g \in Holds \ {h} : transfer'.todo[g] = transfer.todo[g]
  BY <1>1 DEF Shape, Transfers
<1>4. transfer.todo[h] = <<>>
  BY <1>1 DEF Squared, Accounts
<1>5. Accounts'
  BY <1>1, <1>2, <1>3 DEF Squared, Accounts
<1>6. Remembered'
  BY <1>1, <1>3 DEF Squared, Remembered
<1>7. Owing'
  <2>1. transfer.todo[h] \notin Resumes
    BY <1>4 DEF Resumes
  <2>2. QED
    BY <1>1, <1>3, <2>1 DEF Squared, Owing
<1>8. QED
  BY <1>5, <1>6, <1>7 DEF Squared

LEMMA EndSquared ==
    ASSUME NEW h \in Holds, Prompt
    PROVE  Shape /\ Squared /\ End(h) => Squared'
<1> SUFFICES ASSUME Shape, Squared, End(h) PROVE Squared'
  OBVIOUS
<1> DEFINE last == transfer.live = {h}
           resume == last /\ transfer.paused
           plan == Said(last, "unquiet") \o Said(resume, "play")
<1>1. /\ transfer' = [live |-> transfer.live \ {h}, paused |-> transfer.paused /\ ~last,
                      todo |-> [transfer.todo EXCEPT ![h] = plan]]
      /\ h \in transfer.live /\ transfer.todo[h] = <<>> /\ commands = <<>>
      /\ UNCHANGED <<commands, playing>>
      /\ history' = [history EXCEPT !.ended = @ \cup {h}]
  BY DEF End, Looks
<1>2. /\ plan \in Plans /\ plan # <<"pause", "quiet">>
      /\ resume => plan \in Resumes
  <2>1. CASE resume
    <3>1. plan = <<"unquiet">> \o <<"play">>
      BY <2>1 DEF Said
    <3>2. plan = <<"unquiet", "play">>
      BY <3>1, TwoWords
    <3>3. QED
      BY <3>2 DEF Plans, Resumes
  <2>2. CASE ~resume /\ last
    <3>1. plan = <<"unquiet">> \o <<>>
      BY <2>2 DEF Said
    <3>2. plan = <<"unquiet">>
      BY <3>1
    <3>3. QED
      BY <2>2, <3>2 DEF Plans
  <2>3. CASE ~last
    <3>1. plan = <<>> \o <<>>
      BY <2>3 DEF Said
    <3>2. plan = <<>>
      BY <3>1
    <3>3. QED
      BY <2>3, <3>2 DEF Plans
  <2>4. QED
    BY <2>1, <2>2, <2>3
<1>3. /\ transfer'.live = transfer.live \ {h} /\ transfer'.paused = (transfer.paused /\ ~last)
      /\ transfer'.todo[h] = plan
      /\ \A g \in Holds \ {h} : transfer'.todo[g] = transfer.todo[g]
      /\ history'.owed = history.owed /\ history'.ended = history.ended \cup {h}
  BY <1>1 DEF Shape, Transfers, Histories
<1>4. Accounts'
  <2>1. ASSUME NEW g \in Holds, transfer'.todo[g] = <<"pause", "quiet">>
        PROVE  g \in transfer'.live /\ transfer'.paused
    <3>1. g # h /\ transfer.todo[g] = <<"pause", "quiet">>
      BY <1>2, <1>3, <2>1
    <3>2. g \in transfer.live /\ transfer.paused
      BY <3>1 DEF Squared, Accounts
    <3>3. QED
      BY <1>3, <3>1, <3>2
  <2>2. ASSUME NEW g \in Holds
        PROVE  /\ transfer'.todo[g] \in Plans
               /\ transfer'.todo[g] # <<>> => g \in transfer'.live \cup history'.ended
    <3> HIDE DEF plan
    <3>1. CASE g = h
      BY <1>2, <1>3, <3>1
    <3>2. CASE g # h
      BY <1>3, <3>2 DEF Squared, Accounts
    <3>3. QED
      BY <3>1, <3>2
  <2>3. QED
    BY <2>1, <2>2 DEF Accounts
<1>5. Remembered'
  <2>1. DOMAIN commands' = {}
    BY <1>1
  <2>2. transfer'.paused => transfer'.live # {}
    BY <1>1, <1>3
  <2>3. QED
    BY <2>1, <2>2 DEF Remembered
<1>6. Owing'
  <2> SUFFICES ASSUME history.owed
               PROVE  ~playing /\ (transfer'.paused \/ \E g \in Holds : transfer'.todo[g] \in Resumes)
    BY <1>1, <1>3 DEF Owing
  <2> HIDE DEF plan
  <2>1. ~playing /\ (transfer.paused \/ \E g \in Holds : transfer.todo[g] \in Resumes)
    BY <1>1 DEF Squared, Owing
  <2>2. CASE transfer.paused
    BY <1>2, <1>3, <2>1, <2>2
  <2>3. ASSUME NEW g \in Holds, transfer.todo[g] \in Resumes
        PROVE  transfer'.todo[g] \in Resumes
    <3>1. g # h
      BY <1>1, <2>3 DEF Resumes
    <3>2. QED
      BY <1>3, <2>3, <3>1
  <2>4. QED
    BY <2>1, <2>2, <2>3
<1>7. QED
  BY <1>4, <1>5, <1>6 DEF Squared

LEMMA SendSquared ==
    ASSUME NEW h \in Holds, Prompt
    PROVE  Shape /\ Squared /\ Send(h) => Squared'
<1> SUFFICES ASSUME Shape, Squared, Send(h) PROVE Squared'
  OBVIOUS
<1> DEFINE plan == transfer.todo[h]
           c == Head(plan)
           sent == [what |-> c, by |-> "transfer"]
<1>1. /\ transfer' = [transfer EXCEPT !.todo[h] = Tail(plan)]
      /\ commands' = (IF c = "play" /\ playing THEN commands ELSE Append(commands, sent))
      /\ plan # <<>> /\ UNCHANGED <<playing, history>>
  BY DEF Send
<1>2. plan \in Plans /\ commands \in Seq(Commands)
  BY DEF Squared, Accounts, Shape, Channels
<1>3. /\ transfer'.live = transfer.live /\ transfer'.paused = transfer.paused
      /\ transfer'.todo[h] = Tail(plan)
      /\ \A g \in Holds \ {h} : transfer'.todo[g] = transfer.todo[g]
  BY <1>1 DEF Shape, Transfers
<1>4. /\ Tail(plan) \in Plans /\ Tail(plan) # <<"pause", "quiet">>
      /\ c = "pause" => plan = <<"pause", "quiet">>
      /\ plan \in Resumes => c = "play" \/ Tail(plan) \in Resumes
  <2>1. /\ plan = <<"pause", "quiet">> => c = "pause" /\ Tail(plan) = <<"quiet">>
        /\ plan = <<"unquiet", "play">> => c = "unquiet" /\ Tail(plan) = <<"play">>
        /\ plan = <<"quiet">> => c = "quiet" /\ Tail(plan) = <<>>
        /\ plan = <<"unquiet">> => c = "unquiet" /\ Tail(plan) = <<>>
        /\ plan = <<"play">> => c = "play" /\ Tail(plan) = <<>>
    BY TwoWords
  <2>2. <<"quiet">> # <<"pause", "quiet">> /\ <<"play">> # <<"pause", "quiet">>
    OBVIOUS
  <2> HIDE DEF plan, c
  <2>3. QED
    BY <1>1, <1>2, <2>1, <2>2 DEF Plans, Resumes
<1> HIDE DEF plan, c
<1>5. Accounts'
  <2>1. ASSUME NEW g \in Holds
        PROVE  /\ transfer'.todo[g] \in Plans
               /\ transfer'.todo[g] # <<>> => g \in transfer'.live \cup history'.ended
               /\ transfer'.todo[g] = <<"pause", "quiet">> => g \in transfer'.live /\ transfer'.paused
    <3>1. CASE g = h
      <4>1. h \in transfer.live \cup history.ended
        BY <1>1 DEF Squared, Accounts, plan
      <4>2. QED
        BY <1>1, <1>3, <1>4, <3>1, <4>1
    <3>2. CASE g # h
      BY <1>1, <1>3, <3>2 DEF Squared, Accounts
    <3>3. QED
      BY <3>1, <3>2
  <2>2. QED
    BY <2>1 DEF Accounts
<1>6. \A i \in DOMAIN commands' : (i \in DOMAIN commands /\ commands'[i] = commands[i]) \/ commands'[i] = sent
  BY <1>1, <1>2
<1>7. Remembered'
  <2>1. sent = TransferPause => transfer.paused
    <3>1. sent = TransferPause => c = "pause"
      BY DEF sent, TransferPause
    <3>2. QED
      BY <1>4, <3>1 DEF Squared, Accounts, plan
  <2>2. QED
    BY <1>3, <1>6, <2>1 DEF Squared, Remembered
<1>8. Owing'
  <2> SUFFICES ASSUME history.owed
               PROVE  ~playing /\ (\/ transfer.paused
                                   \/ \E g \in Holds : transfer'.todo[g] \in Resumes
                                   \/ \E i \in DOMAIN commands' : commands'[i].what = "play")
    BY <1>1, <1>3 DEF Owing
  <2>1. /\ ~playing
        /\ \/ transfer.paused
           \/ \E g \in Holds : transfer.todo[g] \in Resumes
           \/ \E i \in DOMAIN commands : commands[i].what = "play"
    BY DEF Squared, Owing
  <2>2. commands' = Append(commands, sent)
    BY <1>1, <2>1
  <2>3. ASSUME NEW i \in DOMAIN commands, commands[i].what = "play"
        PROVE  i \in DOMAIN commands' /\ commands'[i].what = "play"
    BY <1>2, <2>2, <2>3
  <2>4. ASSUME NEW g \in Holds, transfer.todo[g] \in Resumes, ~(transfer'.todo[g] \in Resumes)
        PROVE  \E i \in DOMAIN commands' : commands'[i].what = "play"
    <3>1. g = h /\ c = "play"
      BY <1>3, <1>4, <2>4 DEF plan
    <3>2. Len(commands) + 1 \in DOMAIN commands' /\ commands'[Len(commands) + 1] = sent
      BY <1>2, <2>2
    <3>3. QED
      BY <3>1, <3>2 DEF sent
  <2>5. QED
    BY <2>1, <2>3, <2>4
<1>9. QED
  BY <1>5, <1>7, <1>8 DEF Squared

LEMMA StepSquared ==
    ASSUME Prompt
    PROVE  Shape /\ Squared /\ [Next]_vars => Squared'
<1> SUFFICES ASSUME Shape, Squared, [Next]_vars PROVE Squared'
  OBVIOUS
<1>1. ASSUME UNCHANGED <<commands, playing, transfer>>,
             history'.owed = history.owed, history'.ended = history.ended
      PROVE  Squared'
  BY <1>1 DEF Squared, Accounts, Remembered, Owing
<1>2. history \in Histories
  BY DEF Shape
<1>3. CASE UNCHANGED vars
  BY <1>1, <1>3 DEF vars
<1>4. CASE Pass \/ AwaitReceive \/ AwaitOpen \/ Mix \/ Opened
  BY <1>1, <1>4 DEF Pass, AwaitReceive, AwaitOpen, Mix, Opened
<1>5. CASE Open \/ OpenFresh
  <2>1. NotStray => history'.owed = history.owed /\ history'.ended = history.ended
    BY <1>2 DEF NotStray, Histories
  <2>2. QED
    BY <1>1, <1>5, <2>1 DEF Open, OpenFresh
<1>6. CASE LateOpen \/ WorldChanges
  BY <1>1, <1>2, <1>6 DEF LateOpen, WorldChanges, Histories
<1>7. CASE Tick
  <2>1. history'.owed = history.owed /\ history'.ended = history.ended
    BY <1>2, <1>7 DEF Tick, Histories
  <2>2. QED
    BY <1>1, <1>7, <2>1 DEF Tick
<1>8. CASE Restart
  BY <1>8, RestartSquared
<1>9. CASE Drain
  BY <1>9, DrainSquared
<1>10. CASE \E c \in {"play", "pause", "reopen"} : Ask(c)
  BY <1>10, AskSquared
<1>11. CASE \E h \in Holds : Hold(h) \/ End(h) \/ Send(h)
  BY <1>11, HoldSquared, EndSquared, SendSquared
<1>12. QED
  BY <1>3, <1>4, <1>5, <1>6, <1>7, <1>8, <1>9, <1>10, <1>11 DEF Next

\* If the engine has taken its commands by the time a transfer looks, the
\* music that transfers paused is put back when the last hold is over, for any
\* number of holds in any order.
THEOREM MusicComesBack == ASSUME Prompt = TRUE PROVE Spec => []MusicIsPutBack
<1>1. Init => Shape /\ Squared
  BY InitShape, InitSquared
<1>2. Shape /\ Squared /\ [Next]_vars => (Shape /\ Squared)'
  BY StepShape, StepSquared
<1>3. Squared => MusicIsPutBack
  BY DEF Squared, Remembered, Owing, MusicIsPutBack, Resumes
<1>4. QED
  BY <1>1, <1>2, <1>3, PTL DEF Spec

-----------------------------------------------------------------------------
(* Found again in time.                                                    *)

LEMMA Longests ==
    /\ Longest \in Nat \ {0} /\ Watch \in Nat /\ RetryMax \in Nat
    /\ Watch <= Longest /\ RetryMax <= Longest
BY SpansAssumption DEF Longest, Larger

\* When there is nothing to be deaf to, and what a stream that does not lead
\* to the speaker says of the failure.
Present ==
    /\ world # "speaker" => history.deaf = 0
    /\ path.pc = "fresh" => history.deaf = 0
    /\ path.pc = "opened" => (path.stream = "speaker" /\ ~path.failed) \/ history.deaf = 0
    /\ path.stream = "dummy" => host = "pipewire"
    /\ path.mode = "running" /\ path.stream \in {"none", "dead"} => path.failed \/ history.stray

\* Time without sound and the wait still to come, together, never exceed the
\* wait that was set; and a supervisor that has looked has one to come.
Awaited == path.mode = "awaiting" => history.deaf + path.retryIn <= Longest

Retried ==
    (path.mode = "running" /\ path.pc = "idle" /\ path.failed) =>
        /\ history.deaf + path.retryIn <= Longest
        /\ path.looked /\ path.playing => path.retryIn > 0 \/ history.deaf = 0

WatchedOver ==
    (path.mode = "running" /\ path.pc = "idle" /\ ~path.failed) =>
        /\ path.retryIn = 0
        /\ path.stream = "dummy" =>
              /\ history.deaf + path.watchIn <= Watch
              /\ path.looked /\ path.playing => path.watchIn > 0 \/ history.deaf = 0

Counting == ~history.stray => history.deaf <= Longest /\ Awaited /\ Retried /\ WatchedOver

Timely == Present /\ Counting

LEMMA TakenTimes ==
    ASSUME NEW p \in Paths, NEW r \in Requests
    PROVE  LET q == Taken(p, r) IN
           /\ q.retryIn \in {p.retryIn, 0} /\ q.watchIn \in {p.watchIn, 0}
           /\ q.stream = p.stream \/ (q.stream = "none" /\ q.failed)
BY DEF Taken, SetPlaying, Released, AtOnce, Requests, Paths

LEMMA WatchedTimes ==
    ASSUME NEW p \in Paths
    PROVE  LET q == Watched(p) IN
           /\ q.retryIn = p.retryIn
           /\ ~q.failed => ~p.failed
           /\ ~q.failed /\ SeenSilent(p) => q.watchIn = p.watchIn /\ (p.playing => p.watchIn # 0)
BY DEF Watched, Paths

LEMMA ConcludedTimes ==
    ASSUME NEW p \in Paths
    PROVE  LET q == Concluded(p) IN
           /\ q.retryIn = p.retryIn /\ q.watchIn = p.watchIn /\ q.looked
BY DEF Concluded, Paths

LEMMA StartTimely ==
    ASSUME NEW h, NEW w \in WorldsOf(h)
    PROVE  LET q == NewPath(w) IN
           /\ q.pc = "idle" /\ ~q.failed /\ q.retryIn \in 0..1
           /\ q.mode \in {"running", "awaiting"} /\ (q.mode = "running" => q.retryIn = 0)
           /\ q.mode = "running" => q.stream = w
           /\ q.stream = "dummy" => h = "pipewire"
           /\ q.stream \in {"none", "dead"} => q.mode = "awaiting"
           /\ q.watchIn = Watch
<1>1. w \in {"speaker", "dummy", "absent", "refusing", "refusing here"} /\ (w = "dummy" => h = "pipewire")
  BY DEF WorldsOf
<1> DEFINE q == NewPath(w)
<1>2. /\ q.pc = "idle" /\ q.failed = FALSE /\ q.watchIn = Watch
      /\ q.mode = (IF Opens(w) THEN "running" ELSE "awaiting")
      /\ q.retryIn = (IF Opens(w) THEN 0 ELSE 1)
      /\ q.stream = (IF Opens(w) THEN w ELSE "none")
  BY DEF NewPath
<1> HIDE DEF q
<1>3. CASE w = "speaker"
  BY <1>2, <1>3 DEF Opens, q
<1>4. CASE w = "dummy"
  BY <1>1, <1>2, <1>4 DEF Opens, q
<1>5. CASE w \notin {"speaker", "dummy"}
  BY <1>2, <1>5 DEF Opens, q
<1>6. QED
  BY <1>3, <1>4, <1>5

LEMMA InitTimely == Init => Timely
<1> SUFFICES ASSUME Init PROVE Timely
  OBVIOUS
<1>1. path = NewPath(world) /\ world \in WorldsOf(host) /\ history.deaf = 0
  BY DEF Init
<1>2. QED
  BY <1>1, StartTimely, Longests DEF Timely, Present, Counting, Awaited, Retried, WatchedOver

LEMMA RestartTimely == Shape /\ Restart => Timely'
<1> SUFFICES ASSUME Shape, Restart PROVE Timely'
  OBVIOUS
<1>1. path' = NewPath(world') /\ history'.deaf = 0 /\ host' = host
  BY DEF Restart, Shape, Histories
<1>2. world' \in WorldsOf(host)
  BY <1>1, AwaitingShape DEF Shape
<1>3. QED
  BY <1>1, <1>2, StartTimely, Longests DEF Timely, Present, Counting, Awaited, Retried, WatchedOver

LEMMA PassTimely == Shape /\ Timely /\ Pass => Timely'
<1> SUFFICES ASSUME Shape, Timely, Pass PROVE Timely'
  OBVIOUS
<1> DEFINE t == IF requests = <<>> THEN path ELSE Taken(path, Head(requests))
           p == Watched(t)
           d == history.deaf
<1>1. /\ path' = (IF Tries(p) THEN Trying(p) ELSE Concluded(p))
      /\ path.mode = "running" /\ path.pc = "idle"
      /\ UNCHANGED <<host, world, history>>
  BY DEF Pass, Supervising
<1>2. path \in Paths /\ (requests # <<>> => Head(requests) \in Requests) /\ d \in Nat
  BY DEF Shape, PathOK, Channels, Histories
<1>3. /\ PathOK(t) /\ t \in Paths /\ t.mode = path.mode
      /\ path.failed => t.failed
      /\ t.retryIn \in {path.retryIn, 0} /\ t.watchIn \in {path.watchIn, 0}
      /\ t.stream = path.stream \/ (t.stream = "none" /\ t.failed)
  <2>1. CASE requests = <<>>
    BY <1>2, <2>1 DEF Shape
  <2>2. CASE requests # <<>>
    BY <1>2, <2>2, TakenKeeps, TakenTimes, TakenOK DEF Shape, PathOK
  <2>3. QED
    BY <2>1, <2>2
<1> HIDE DEF t
<1>4. /\ p \in Paths /\ p.mode = t.mode /\ p.stream = t.stream /\ p.retryIn = t.retryIn
      /\ p.playing = t.playing /\ (t.failed => p.failed)
      /\ ~p.failed /\ SeenSilent(t) => p.watchIn = t.watchIn /\ (t.playing => t.watchIn # 0)
  BY <1>3, WatchedKeeps, WatchedTimes, WatchedOK DEF PathOK
<1> HIDE DEF p
<1>5. ASSUME ~history.stray
      PROVE  /\ d <= Longest
             /\ p.failed => d + p.retryIn <= Longest
             /\ ~p.failed => p.retryIn = 0 /\ (p.stream = "dummy" =>
                                 d + p.watchIn <= Watch /\ (p.playing => p.watchIn > 0))
  <2>1. d <= Longest /\ Retried /\ WatchedOver
    BY <1>5 DEF Timely, Counting
  <2>2. path.retryIn \in Nat /\ path.watchIn \in 0..Watch /\ t.watchIn \in Nat
    BY <1>2, <1>3, Longests DEF Paths
  <2>3. p.failed => d + p.retryIn <= Longest
    <3>1. CASE path.failed
      BY <1>1, <1>2, <1>3, <1>4, <2>1, <2>2, <3>1, Longests DEF Retried
    <3>2. CASE ~path.failed
      BY <1>1, <1>2, <1>3, <1>4, <2>1, <2>2, <3>2, Longests DEF WatchedOver
    <3>3. QED
      BY <3>1, <3>2
  <2>4. ASSUME ~p.failed
        PROVE  p.retryIn = 0 /\ (p.stream = "dummy" =>
                                    d + p.watchIn <= Watch /\ (p.playing => p.watchIn > 0))
    <3>1. ~path.failed /\ t.stream = path.stream
      BY <1>3, <1>4, <2>4
    <3>2. p.retryIn = 0
      BY <1>1, <1>3, <1>4, <2>1, <3>1 DEF WatchedOver
    <3>3. ASSUME p.stream = "dummy"
          PROVE  d + p.watchIn <= Watch /\ (p.playing => p.watchIn > 0)
      <4>1. SeenSilent(t)
        BY <1>4, <3>1, <3>3 DEF SeenSilent, Timely, Present
      <4>2. p.watchIn = t.watchIn /\ (p.playing => t.watchIn # 0)
        BY <1>4, <2>4, <4>1
      <4>3. d + path.watchIn <= Watch
        BY <1>1, <1>4, <2>1, <3>1, <3>3 DEF WatchedOver
      <4>4. QED
        BY <1>2, <1>3, <2>2, <4>2, <4>3, Longests
    <3>4. QED
      BY <3>2, <3>3
  <2>5. QED
    BY <2>1, <2>3, <2>4
<1>6. /\ p.stream = "dummy" => host = "pipewire"
      /\ p.stream \in {"none", "dead"} => p.failed \/ history.stray
  BY <1>1, <1>3, <1>4 DEF Timely, Present
<1>7. CASE Tries(p)
  <2>1. path'.pc = "open" /\ path'.stream = "none" /\ path'.failed /\ path'.mode = "running"
    BY <1>1, <1>3, <1>4, <1>7, TryingKeeps
  <2>2. QED
    BY <1>1, <1>5, <2>1 DEF Timely, Present, Counting, Awaited, Retried, WatchedOver
<1>8. CASE ~Tries(p)
  <2>1. /\ path'.pc = "idle" /\ path'.stream = p.stream /\ path'.failed = p.failed
        /\ path'.playing = p.playing /\ path'.mode \in {"running", "restarting"}
        /\ path'.retryIn = p.retryIn /\ path'.watchIn = p.watchIn
    BY <1>1, <1>3, <1>4, <1>8, ConcludedKeeps, ConcludedTimes
  <2>2. p.failed /\ p.playing => p.retryIn > 0
    BY <1>4, <1>8 DEF Tries, Paths
  <2>3. Present'
    BY <1>1, <1>6, <2>1 DEF Timely, Present
  <2>4. Counting'
    BY <1>1, <1>5, <2>1, <2>2 DEF Counting, Awaited, Retried, WatchedOver
  <2>5. QED
    BY <2>3, <2>4 DEF Timely
<1>9. QED
  BY <1>7, <1>8

LEMMA OpeningTimely ==
    Shape /\ Attuned /\ Timely /\ (Open \/ OpenFresh \/ Opened \/ LateOpen) => Timely'
<1> SUFFICES ASSUME Shape, Attuned, Timely, Open \/ OpenFresh \/ Opened \/ LateOpen PROVE Timely'
  OBVIOUS
<1>1. /\ path \in Paths /\ history \in Histories /\ world \in WorldsOf(host)
      /\ UNCHANGED <<host, world>>
  BY DEF Shape, PathOK, Open, OpenFresh, Opened, LateOpen
<1>2. /\ path.retryIn \in Nat /\ path.retryIn <= Longest
      /\ history.deaf \in Nat
  BY <1>1, Longests DEF Shape, PathOK, Paths, Histories
<1>3. ASSUME path' = Attached(path), NotStray, path.mode = "running",
             Opens(world) \/ world = "refusing here"
      PROVE  Timely'
  <2>1. /\ path'.pc = "opened" /\ path'.mode = "running" /\ ~path'.failed
        /\ path'.stream = (IF Opens(world) THEN world ELSE "speaker")
    BY <1>1, <1>3 DEF Attached, Opens, Paths
  <2>2. ~history'.stray /\ (history'.deaf = 0 \/ (~history.stray /\ history'.deaf = history.deaf))
    BY <1>1, <1>3 DEF NotStray, Histories
  <2>3. Present'
    <3>1. world # "speaker" => history'.deaf = 0
      BY <2>2 DEF Timely, Present
    <3>2. path'.stream = "dummy" => host = "pipewire" /\ world = "dummy"
      BY <1>1, <2>1 DEF Opens, WorldsOf
    <3>3. path'.stream \in {"speaker", "dummy"}
      BY <2>1 DEF Opens
    <3>4. QED
      BY <1>1, <2>1, <3>1, <3>2, <3>3 DEF Present
  <2>4. history'.deaf <= Longest
    BY <2>2, Longests DEF Timely, Counting
  <2>5. QED
    BY <2>1, <2>3, <2>4 DEF Timely, Counting, Awaited, Retried, WatchedOver
<1>4. ASSUME NEW q \in Paths, path' = Concluded(q), history' = history,
             history.deaf = 0, q.failed \/ history.stray, q.stream = "none",
             q.mode = "running", q.retryIn = path.retryIn
      PROVE  Timely'
  <2>1. /\ path'.pc = "idle" /\ path'.stream = "none" /\ path'.failed = q.failed
        /\ path'.mode \in {"running", "restarting"} /\ path'.retryIn = path.retryIn
    BY <1>4, ConcludedKeeps, ConcludedTimes
  <2>2. Present'
    BY <1>1, <1>4, <2>1 DEF Present
  <2>3. Counting'
    BY <1>2, <1>4, <2>1, Longests DEF Counting, Awaited, Retried, WatchedOver
  <2>4. QED
    BY <2>2, <2>3 DEF Timely
<1>5. CASE Open
  <2>1. path.stream = "none" /\ path.mode = "running" /\ (path.failed \/ history.stray)
    BY <1>5 DEF Open, Supervising, Attuned, Trial, Timely, Present
  <2>2. ASSUME world = "absent", path' = Concluded(path), history' = history
        PROVE  Timely'
    BY <1>1, <1>4, <2>1, <2>2 DEF Timely, Present
  <2>3. ASSUME world \in {"refusing", "refusing here"}, path' = [path EXCEPT !.pc = "fresh"],
               history' = history
        PROVE  Timely'
    <3>1. /\ history.deaf = 0 /\ path'.pc = "fresh" /\ path'.mode = "running"
          /\ path'.stream = "none" /\ path'.failed = path.failed
      BY <1>1, <2>1, <2>3 DEF Timely, Present, Paths
    <3>2. QED
      BY <1>1, <2>1, <2>3, <3>1, Longests
         DEF Timely, Present, Counting, Awaited, Retried, WatchedOver
  <2>4. QED
    BY <1>3, <1>5, <2>1, <2>2, <2>3 DEF Open
<1>6. CASE OpenFresh
  <2>1. /\ path.stream = "none" /\ path.mode = "running" /\ (path.failed \/ history.stray)
        /\ history.deaf = 0
    BY <1>6 DEF OpenFresh, Supervising, Attuned, Trial, Timely, Present
  <2>2. ASSUME NEW wide \in BOOLEAN
        PROVE  /\ Refused(path, wide) \in Paths /\ Refused(path, wide).stream = "none"
               /\ Refused(path, wide).failed = path.failed
               /\ Refused(path, wide).retryIn = path.retryIn
               /\ Refused(path, wide).mode = "running"
    BY <1>1, <2>1, RefusedOK DEF Refused, Paths, Shape, PathOK
  <2>3. path' = Concluded(Refused(path, world = "refusing")) /\ history' = history => Timely'
    BY <1>4, <2>1, <2>2
  <2>4. path' = Concluded(Refused(path, FALSE)) /\ history' = history => Timely'
    BY <1>4, <2>1, <2>2
  <2>5. QED
    BY <1>3, <1>6, <2>1, <2>3, <2>4 DEF OpenFresh
<1>7. CASE Opened
  <2>1. path' = Concluded(Settling) /\ history' = history /\ path.mode = "running" /\ path.pc = "opened"
    BY <1>7 DEF Opened, Settling, Supervising
  <2>2. Settling \in Paths
    BY OpenedOK DEF Shape, PathOK, Settling
  <2>3. /\ Settling.mode = "running" /\ Settling.stream = path.stream
        /\ path.failed => Settling.failed
        /\ ~SeenSilent(path) => Settling.retryIn = 0 /\ Settling.failed = path.failed
        /\ SeenSilent(path) => Settling.retryIn = path.retryIn /\ Settling.failed
    <3>1. CASE SeenSilent(path)
      BY <1>1, <2>1, <3>1 DEF Settling, SeenSilent, Paths
    <3>2. CASE ~SeenSilent(path)
      BY <1>1, <2>1, <3>2 DEF Settling, SetPlaying, AtOnce, Paths
    <3>3. QED
      BY <3>1, <3>2
  <2>4. /\ path'.pc = "idle" /\ path'.stream = path.stream /\ path'.failed = Settling.failed
        /\ path'.mode \in {"running", "restarting"} /\ path'.retryIn = Settling.retryIn
    BY <2>1, <2>2, <2>3, ConcludedKeeps, ConcludedTimes
  <2>5. Present'
    BY <1>1, <2>1, <2>3, <2>4 DEF Timely, Present
  <2>6. path.stream = "dummy" => SeenSilent(path)
    BY DEF SeenSilent, Timely, Present
  <2>7. path.failed \/ SeenSilent(path) => history.deaf = 0
    BY <2>1 DEF Timely, Present, SeenSilent
  <2>8. ASSUME ~history.stray
        PROVE  history.deaf <= Longest /\ Awaited' /\ Retried' /\ WatchedOver'
    <3>1. history.deaf <= Longest
      BY <2>8 DEF Timely, Counting
    <3>2. Retried'
      <4>1. CASE SeenSilent(path)
        BY <1>2, <2>1, <2>3, <2>4, <2>7, <4>1, Longests DEF Retried
      <4>2. CASE ~SeenSilent(path) /\ path.failed
        BY <2>1, <2>3, <2>4, <2>7, <4>2, Longests DEF Retried
      <4>3. CASE ~SeenSilent(path) /\ ~path.failed
        BY <2>3, <2>4, <4>3 DEF Retried
      <4>4. QED
        BY <4>1, <4>2, <4>3
    <3>3. WatchedOver'
      BY <2>3, <2>4, <2>6 DEF WatchedOver
    <3>4. QED
      BY <2>4, <3>1, <3>2, <3>3 DEF Awaited
  <2>9. QED
    BY <2>1, <2>5, <2>8 DEF Timely, Counting
<1>8. CASE LateOpen
  <2>1. history'.stray /\ history'.deaf = history.deaf
    BY <1>1, <1>8 DEF LateOpen, Histories
  <2>2. /\ path'.pc = path.pc /\ path'.stream = path.stream /\ ~path'.failed
    BY <1>1, <1>8 DEF LateOpen, Paths
  <2>3. QED
    BY <1>1, <2>1, <2>2 DEF Timely, Present, Counting
<1>9. QED
  BY <1>5, <1>6, <1>7, <1>8

LEMMA AwaitingTimely == Shape /\ Timely /\ (AwaitReceive \/ AwaitOpen) => Timely'
<1> SUFFICES ASSUME Shape, Timely, AwaitReceive \/ AwaitOpen PROVE Timely'
  OBVIOUS
<1>1. /\ path \in Paths /\ path.mode = "awaiting" /\ UNCHANGED <<host, world, history>>
      /\ history.deaf \in Nat /\ path.retryIn \in Nat /\ path.backoff \in 1..RetryMax
  BY DEF Shape, PathOK, Paths, AwaitReceive, AwaitOpen, Histories
<1>2. /\ path'.pc = path.pc /\ path'.stream = path.stream /\ path'.failed = path.failed
      /\ path'.mode # "running"
  BY <1>1 DEF AwaitReceive, AwaitOpen, Paths
<1>3. Present'
  BY <1>1, <1>2 DEF Timely, Present
<1>4. path'.mode = "awaiting" =>
         path'.retryIn \in {path.retryIn, 0} \/ (history.deaf = 0 /\ path'.retryIn \in 1..RetryMax)
  <2>1. CASE AwaitReceive
    BY <1>1, <2>1 DEF AwaitReceive, Paths
  <2>2. CASE AwaitOpen
    <3>1. Doubled(path.backoff) \in 1..RetryMax
      BY <1>1, DoublingStops
    <3>2. ~Opens(world) => history.deaf = 0
      BY DEF Opens, Timely, Present
    <3>3. ~Opens(world) => path'.retryIn = Doubled(path.backoff)
      BY <1>1, <2>2 DEF AwaitOpen, Paths
    <3>4. Opens(world) => path'.mode # "awaiting"
      BY <1>1, <2>2 DEF AwaitOpen, Paths
    <3>5. QED
      BY <3>1, <3>2, <3>3, <3>4
  <2>3. QED
    BY <2>1, <2>2
<1>5. Counting'
  <2> SUFFICES ASSUME ~history.stray
               PROVE  history.deaf <= Longest /\ Awaited' /\ Retried' /\ WatchedOver'
    BY <1>1 DEF Counting
  <2>1. history.deaf <= Longest /\ history.deaf + path.retryIn <= Longest
    BY <1>1 DEF Timely, Counting, Awaited
  <2>2. Awaited'
    BY <1>1, <1>4, <2>1, Longests DEF Awaited
  <2>3. QED
    BY <1>2, <2>1, <2>2 DEF Retried, WatchedOver
<1>6. QED
  BY <1>3, <1>5 DEF Timely

LEMMA WorldTimely == Shape /\ Timely /\ WorldChanges => Timely'
<1> SUFFICES ASSUME Shape, Timely, WorldChanges PROVE Timely'
  OBVIOUS
<1>1. PICK w \in WorldsOf(host) \ {world} :
         /\ world' = w
         /\ history' = [history EXCEPT !.faults = @ + 1, !.deaf = IF w = "speaker" THEN @ ELSE 0]
         /\ \/ path' = path
            \/ /\ path.stream \notin {"none", "dead"} /\ Opens(w)
               /\ path' = [path EXCEPT !.stream = w]
            \/ /\ path.stream \notin {"none", "dead"}
               /\ path' = [path EXCEPT !.stream = "dead", !.failed = TRUE]
  BY DEF WorldChanges
<1>2. path \in Paths /\ history \in Histories /\ host' = host /\ history.deaf \in Nat
  BY DEF Shape, PathOK, WorldChanges, Histories
\* Whichever way it changed, there is nothing yet to be deaf to.
<1>3. history'.deaf = 0 /\ history'.stray = history.stray
  <2>1. w = "speaker" => history.deaf = 0
    BY <1>1 DEF Timely, Present
  <2>2. QED
    BY <1>1, <1>2, <2>1 DEF Histories
<1>4. /\ path'.mode = path.mode /\ path'.pc = path.pc /\ path'.retryIn = path.retryIn
      /\ path'.watchIn = path.watchIn
      /\ path.failed => path'.failed
      /\ path'.stream \in {path.stream, w, "dead"}
      /\ path'.stream = "dead" => path'.failed \/ path.stream = "dead"
      /\ path'.stream = "none" => path.stream = "none"
      /\ path'.stream \in {"none", "dead"} => path'.failed \/ path.stream \in {"none", "dead"}
  <2>1. CASE path' = path
    BY <2>1
  <2>2. CASE Opens(w) /\ path' = [path EXCEPT !.stream = w]
    BY <1>2, <2>2 DEF Opens, Paths
  <2>3. CASE path' = [path EXCEPT !.stream = "dead", !.failed = TRUE]
    BY <1>2, <2>3 DEF Paths
  <2>4. QED
    BY <1>1, <2>1, <2>2, <2>3
<1>5. Present'
  <2>1. w = "dummy" => host = "pipewire"
    BY <1>1 DEF WorldsOf
  <2>2. QED
    BY <1>2, <1>3, <1>4, <2>1 DEF Timely, Present
<1>6. Counting'
  <2> SUFFICES ASSUME ~history.stray
               PROVE  0 <= Longest /\ Awaited' /\ Retried' /\ WatchedOver'
    BY <1>3 DEF Counting
  <2>1. /\ path.retryIn \in Nat /\ path.retryIn <= Longest
        /\ path.watchIn \in Nat /\ path.watchIn <= Watch
    BY Longests DEF Shape, PathOK, Paths
  <2>2. path.mode = "running" /\ path.pc = "idle" /\ ~path.failed => path.retryIn = 0
    BY DEF Timely, Counting, WatchedOver
  <2>3. QED
    BY <1>3, <1>4, <2>1, <2>2, Longests DEF Awaited, Retried, WatchedOver
<1>7. QED
  BY <1>5, <1>6 DEF Timely

\* A unit passes without sound: either there is a wait that has grown shorter
\* by as much, or the first unit of it.
LEMMA TickTimely == Shape /\ Attuned /\ Timely /\ Tick => Timely'
<1> SUFFICES ASSUME Shape, Attuned, Timely, Tick PROVE Timely'
  OBVIOUS
<1>1. /\ path \in Paths /\ history \in Histories /\ UNCHANGED <<host, world, playing>>
      /\ history.deaf \in Nat /\ path.retryIn \in Nat /\ path.watchIn \in 0..Watch
  BY DEF Shape, PathOK, Paths, Histories, Tick
<1>2. /\ path'.mode = path.mode /\ path'.pc = path.pc /\ path'.stream = path.stream
      /\ path'.failed = path.failed /\ path'.playing = path.playing /\ ~path'.looked
      /\ path'.retryIn = Less(path.retryIn) /\ path'.watchIn = Less(path.watchIn)
  BY <1>1 DEF Tick, Paths
<1>3. /\ history'.stray = history.stray
      /\ history'.deaf = (IF Deaf THEN Smaller(history.deaf + 1, Longest + 1) ELSE 0)
  BY <1>1 DEF Tick, Histories
<1>4. /\ requests = <<>> /\ path.pc = "idle" /\ path.mode # "restarting"
      /\ (path.mode = "running" => path.looked) /\ (path.mode = "awaiting" => path.retryIn > 0)
  BY DEF Tick, BetweenPasses
<1>5. Present'
  <2>1. world # "speaker" => ~Deaf
    BY DEF Deaf
  <2>2. QED
    BY <1>1, <1>2, <1>3, <1>4, <2>1 DEF Timely, Present
<1>6. ASSUME ~Deaf
      PROVE  Counting'
  <2>1. history'.deaf = 0
    BY <1>3, <1>6
  <2>2. path'.retryIn \in Nat /\ path'.retryIn <= Longest /\ path'.watchIn \in Nat /\ path'.watchIn <= Watch
    BY <1>1, <1>2, Longests DEF Less, Shape, PathOK, Paths
  <2>3. ~history.stray /\ path.mode = "running" /\ ~path.failed => path'.retryIn = 0
    BY <1>2, <1>4 DEF Timely, Counting, WatchedOver, Less
  <2>4. QED
    BY <1>2, <1>3, <1>4, <2>1, <2>2, <2>3, Longests
       DEF Counting, Awaited, Retried, WatchedOver
<1>7. ASSUME Deaf, ~history.stray
      PROVE  Counting'
  <2>1. history.deaf <= Longest /\ Awaited /\ Retried /\ WatchedOver
    BY <1>7 DEF Timely, Counting
  <2>2. history'.deaf \in Nat /\ history'.deaf <= history.deaf + 1
    BY <1>1, <1>3, <1>7, Longests DEF Smaller
  <2>3. CASE path.mode = "awaiting"
    <3>1. history'.deaf + path'.retryIn <= Longest
      <4>1. path'.retryIn = path.retryIn - 1
        BY <1>1, <1>2, <1>4, <2>3 DEF Less
      <4>2. QED
        BY <1>1, <2>1, <2>2, <2>3, <4>1, Longests DEF Awaited
    <3>2. path'.retryIn \in Nat
      BY <1>1, <1>2 DEF Less
    <3>3. QED
      BY <1>2, <2>2, <2>3, <3>1, <3>2, Longests DEF Counting, Awaited, Retried, WatchedOver
  <2>4. CASE path.mode = "running"
    <3>1. playing /\ path.playing /\ path.looked /\ world = "speaker" /\ ~Heard
      <4>1. ~Pending
        BY <1>4 DEF Pending
      <4>2. path.playing = playing
        BY <2>4, <4>1 DEF Attuned, Heeded
      <4>3. QED
        BY <1>4, <1>7, <2>4, <4>2 DEF Deaf
    <3>2. CASE path.failed
      <4>1. path.retryIn > 0 \/ history.deaf = 0
        BY <1>4, <2>1, <2>4, <3>1, <3>2 DEF Retried
      <4>2. history.deaf + path.retryIn <= Longest
        BY <1>4, <2>1, <2>4, <3>2 DEF Retried
      <4>3. path'.retryIn \in Nat /\ history'.deaf + path'.retryIn <= Longest
        BY <1>1, <1>2, <2>2, <4>1, <4>2, Longests DEF Less
      <4>4. QED
        BY <1>2, <2>2, <2>4, <3>2, <4>3, Longests
           DEF Counting, Awaited, Retried, WatchedOver
    <3>3. CASE ~path.failed
      <4>1. path.stream = "dummy"
        <5>1. path.stream \notin {"none", "dead"}
          BY <1>7, <2>4, <3>3 DEF Timely, Present
        <5>2. ~path.silent
          BY <1>4, <2>4, <3>1, <3>3, <5>1 DEF Attuned, Flagged
        <5>3. path.stream # "speaker"
          BY <3>1, <3>3, <5>2 DEF Heard
        <5>4. QED
          BY <1>1, <5>1, <5>3 DEF Paths
      <4>2. /\ path.retryIn = 0 /\ history.deaf + path.watchIn <= Watch
            /\ path.watchIn > 0 \/ history.deaf = 0
        BY <1>4, <2>1, <2>4, <3>1, <3>3, <4>1 DEF WatchedOver
      <4>3. path'.retryIn = 0
        BY <1>2, <4>2 DEF Less
      <4>4. path'.watchIn \in Nat /\ history'.deaf + path'.watchIn <= Watch
        BY <1>1, <1>2, <2>2, <4>2, SpansAssumption DEF Less
      <4>5. history'.deaf <= Longest
        BY <2>2, <4>4, Longests
      <4>6. QED
        BY <1>2, <2>4, <3>3, <4>3, <4>4, <4>5 DEF Counting, Awaited, Retried, WatchedOver
    <3>4. QED
      BY <3>2, <3>3
  <2>5. CASE path.mode \notin {"awaiting", "running"}
    BY <1>1, <1>4, <1>7, <2>5 DEF Deaf, Paths
  <2>6. QED
    BY <2>3, <2>4, <2>5
<1>8. QED
  BY <1>3, <1>5, <1>6, <1>7 DEF Timely, Counting

LEMMA StepTimely == Shape /\ Attuned /\ Timely /\ [Next]_vars => Timely'
<1> SUFFICES ASSUME Shape, Attuned, Timely, [Next]_vars PROVE Timely'
  OBVIOUS
<1>1. path \in Paths /\ history \in Histories
  BY DEF Shape, PathOK
<1>2. ASSUME UNCHANGED <<host, world, path>>,
             history'.deaf = history.deaf, history'.stray = history.stray
      PROVE  Timely'
  BY <1>2 DEF Timely, Present, Counting, Awaited, Retried, WatchedOver
<1>3. CASE UNCHANGED vars
  BY <1>2, <1>3 DEF vars
<1>4. CASE Pass
  BY <1>4, PassTimely
<1>5. CASE Open \/ OpenFresh \/ Opened \/ LateOpen
  BY <1>5, OpeningTimely
<1>6. CASE AwaitReceive \/ AwaitOpen
  BY <1>6, AwaitingTimely
<1>7. CASE Restart
  BY <1>7, RestartTimely
<1>8. CASE Drain \/ (\E c \in {"play", "pause", "reopen"} : Ask(c))
           \/ (\E h \in Holds : Hold(h) \/ End(h) \/ Send(h))
  <2>1. UNCHANGED <<host, world, path>>
    BY <1>8 DEF Drain, Ask, Hold, End, Send
  <2>2. history'.deaf = history.deaf /\ history'.stray = history.stray
    BY <1>1, <1>8 DEF Drain, Ask, Hold, End, Send, Histories
  <2>3. QED
    BY <1>2, <2>1, <2>2
<1>9. CASE Mix
  <2>1. path' = [path EXCEPT !.backlog = TRUE] /\ UNCHANGED <<host, world, history>>
    BY <1>9 DEF Mix
  <2>2. /\ path'.mode = path.mode /\ path'.pc = path.pc /\ path'.stream = path.stream
        /\ path'.failed = path.failed /\ path'.playing = path.playing
        /\ path'.looked = path.looked
        /\ path'.retryIn = path.retryIn /\ path'.watchIn = path.watchIn
    BY <1>1, <2>1 DEF Paths
  <2>3. QED
    BY <2>1, <2>2 DEF Timely, Present, Counting, Awaited, Retried, WatchedOver
<1>10. CASE WorldChanges
  BY <1>10, WorldTimely
<1>11. CASE Tick
  BY <1>11, TickTimely
<1>12. QED
  BY <1>3, <1>4, <1>5, <1>6, <1>7, <1>8, <1>9, <1>10, <1>11 DEF Next

\* Whatever happened to the output: music that is wanted is heard, from a
\* speaker that stays there, within the longer of the supervisor's two waits.
THEOREM HeardAgainInTime == Spec => []FoundAgainInTime
<1>1. Init => Shape /\ Attuned /\ Timely
  BY InitShape, AttunedAtStart, InitTimely
<1>2. Shape /\ Attuned /\ Timely /\ [Next]_vars => (Shape /\ Attuned /\ Timely)'
  BY StepShape, StepAttuned, StepTimely
<1>3. Timely => FoundAgainInTime
  BY DEF Timely, Counting, FoundAgainInTime
<1>4. QED
  BY <1>1, <1>2, <1>3, PTL DEF Spec

=============================================================================
