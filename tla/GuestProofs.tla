----------------------------- MODULE GuestProofs -----------------------------
(***************************************************************************)
(* That the MPD guest keeps what a backend promises of the passages it     *)
(* takes, for any passages, any lengths and any bounds.                    *)
(***************************************************************************)
EXTENDS Guest, SequenceTheorems, TLAPS, FiniteSetTheorems

Entries == [id : Nat, n : Nat]

\* What a queue is without its i-th song.
LEMMA Shorter ==
    ASSUME NEW S, NEW q \in Seq(S), NEW i \in DOMAIN q
    PROVE  /\ RemoveAt(q, i) \in Seq(S) /\ Len(RemoveAt(q, i)) = Len(q) - 1
           /\ Len(q) - 1 \in Nat
           /\ \A k \in 1 .. Len(q) - 1 :
                 RemoveAt(q, i)[k] = IF k < i THEN q[k] ELSE q[k + 1]
<1> DEFINE front == SubSeq(q, 1, i - 1)
           back == SubSeq(q, i + 1, Len(q))
<1>0. Len(q) \in Nat /\ i \in 1 .. Len(q)
  BY LenProperties
<1>1. front \in Seq(S) /\ Len(front) = i - 1 /\ \A k \in 1 .. i - 1 : front[k] = q[k]
  <2>1. \A k \in 1 .. i - 1 : q[k] \in S
    BY <1>0, ElementOfSeq
  <2>2. QED
    BY <1>0, <2>1, SubSeqProperties
<1>2. back \in Seq(S) /\ Len(back) = Len(q) - i /\ \A k \in 1 .. Len(q) - i : back[k] = q[k + i]
  <2>1. \A k \in i + 1 .. Len(q) : q[k] \in S
    BY <1>0, ElementOfSeq
  <2>2. QED
    BY <1>0, <2>1, SubSeqProperties
<1> HIDE DEF front, back
<1>3. /\ front \o back \in Seq(S) /\ Len(front \o back) = Len(q) - 1
      /\ \A k \in 1 .. Len(q) - 1 :
            (front \o back)[k] = IF k <= i - 1 THEN front[k] ELSE back[k - (i - 1)]
  <2>1. Len(front) + Len(back) = Len(q) - 1
    BY <1>0, <1>1, <1>2
  <2>2. /\ front \o back \in Seq(S) /\ Len(front \o back) = Len(front) + Len(back)
        /\ \A k \in 1 .. Len(front) + Len(back) :
              (front \o back)[k] = IF k <= Len(front) THEN front[k] ELSE back[k - Len(front)]
    BY <1>1, <1>2, ConcatProperties
  <2>3. QED
    BY <1>1, <2>1, <2>2
<1>4. \A k \in 1 .. Len(q) - 1 : (front \o back)[k] = IF k < i THEN q[k] ELSE q[k + 1]
  <2> TAKE k \in 1 .. Len(q) - 1
  <2>1. CASE k < i
    BY <1>0, <1>1, <1>3, <2>1
  <2>2. CASE ~(k < i)
    <3>1. k - (i - 1) \in 1 .. Len(q) - i /\ ~(k <= i - 1) /\ (k - (i - 1)) + i = k + 1
      BY <1>0, <2>2
    <3>2. QED
      BY <1>2, <1>3, <2>2, <3>1
  <2>3. QED
    BY <2>1, <2>2
<1>5. RemoveAt(q, i) = front \o back
  BY DEF RemoveAt, front, back
<1>6. QED
  BY <1>0, <1>3, <1>4, <1>5

-----------------------------------------------------------------------------
(* The invariant: what MPD's queue, what is held of it, and a poll that is *)
(* under way owe each other.                                               *)

MpdFields == {"up", "linked", "queue", "cur", "at", "state", "nextId"}
BackendFields == {"ours", "order", "head", "playing", "len", "lost", "dropped"}

Shaped ==
    /\ DOMAIN mpd = MpdFields /\ mpd.queue \in Seq(Entries) /\ mpd.nextId \in Nat \ {0}
    /\ DOMAIN backend = BackendFields
    /\ \A id \in DOMAIN backend.ours : id \in Nat \ {0} /\ "n" \in DOMAIN backend.ours[id]
    /\ "stage" \in DOMAIN hand /\ "step" \in DOMAIN poll
    /\ \E S : songs \in Seq(S)
    /\ \A n \in DOMAIN songs : "answer" \in DOMAIN songs[n]

\* Songs in MPD's queue go by one number and one identifier, both given out.
Queued ==
    LET q == mpd.queue IN
    /\ mpd.linked => mpd.up
    /\ mpd.cur \in IdsIn(q) \cup {None}
    /\ \A i \in DOMAIN q : q[i].id \in 1 .. mpd.nextId - 1 /\ q[i].n \in DOMAIN songs
    /\ \A i, j \in DOMAIN q : q[i].id = q[j].id \/ q[i].n = q[j].n => i = j

\* An offering is held under one identifier until it is answered, and while the
\* connection lasts it is the song with that identifier.
Holds ==
    LET ours == backend.ours
        q == mpd.queue
    IN
    /\ \A id \in DOMAIN ours :
          /\ ours[id].n \in DOMAIN songs /\ songs[ours[id].n].answer = "none"
          /\ mpd.linked => /\ id < mpd.nextId
                           /\ \A i \in DOMAIN q : q[i].n = ours[id].n => q[i].id = id
    /\ \A id, jd \in DOMAIN ours : ours[id].n = ours[jd].n => id = jd

\* While a poll is under way nothing else touches what is held, and the song it
\* asks about is nobody's.
Polling ==
    /\ poll.step # "idle" => hand.stage \in {"none", "refresh", "look", "wait", "waited"}
    /\ poll.step = "song" /\ mpd.linked =>
          /\ poll.id \in 1 .. mpd.nextId - 1 /\ poll.id \notin DOMAIN backend.ours
          /\ poll.n \in DOMAIN songs
          /\ \A id \in DOMAIN backend.ours : backend.ours[id].n # poll.n
          /\ \A i \in DOMAIN mpd.queue : mpd.queue[i].n = poll.n => mpd.queue[i].id = poll.id

Consistent == Shaped /\ Queued /\ Holds /\ Polling


LEMMA InitConsistent == Init => Consistent
<1> SUFFICES ASSUME Init PROVE Consistent
  OBVIOUS
<1>1. Shaped
  <2>1. <<>> \in Seq(Entries) /\ songs \in Seq({}) /\ DOMAIN songs = {}
    BY DEF Init
  <2>2. DOMAIN backend.ours = {}
    BY DEF Init
  <2>3. /\ DOMAIN mpd = MpdFields /\ mpd.queue = <<>> /\ mpd.nextId = 1
        /\ DOMAIN backend = BackendFields /\ "stage" \in DOMAIN hand /\ "step" \in DOMAIN poll
    BY DEF Init, MpdFields, BackendFields
  <2>4. QED
    BY <2>1, <2>2, <2>3 DEF Shaped
<1>2. Queued
  BY DEF Init, Queued
<1>3. Holds /\ Polling
  BY DEF Init, Holds, Polling
<1>4. QED
  BY <1>1, <1>2, <1>3 DEF Consistent

-----------------------------------------------------------------------------
(* Steps that leave alone what is held.                                    *)

\* r is q, some songs of which may be gone.
Within(q, r) ==
    \E f \in [DOMAIN r -> DOMAIN q] :
        /\ \A k \in DOMAIN r : r[k] = q[f[k]]
        /\ \A j, k \in DOMAIN r : f[j] = f[k] => j = k

LEMMA WithinItself ==
    ASSUME NEW q
    PROVE  Within(q, q)
<1> DEFINE f == [k \in DOMAIN q |-> k]
<1>1. f \in [DOMAIN q -> DOMAIN q] /\ \A k \in DOMAIN q : f[k] = k
  OBVIOUS
<1> HIDE DEF f
<1>2. QED
  BY <1>1 DEF Within

LEMMA WithinShorter ==
    ASSUME NEW q \in Seq(Entries), NEW i \in DOMAIN q
    PROVE  RemoveAt(q, i) \in Seq(Entries) /\ Within(q, RemoveAt(q, i))
<1> DEFINE r == RemoveAt(q, i)
           f == [k \in DOMAIN r |-> IF k < i THEN k ELSE k + 1]
<1>1. /\ r \in Seq(Entries) /\ DOMAIN r = 1 .. Len(q) - 1 /\ Len(q) \in Nat
      /\ DOMAIN q = 1 .. Len(q) /\ i \in 1 .. Len(q)
      /\ \A k \in DOMAIN r : r[k] = IF k < i THEN q[k] ELSE q[k + 1]
  <2>1. r \in Seq(Entries) /\ Len(r) = Len(q) - 1
    BY Shorter
  <2>2. DOMAIN r = 1 .. Len(q) - 1
    BY <2>1, LenProperties
  <2>3. QED
    BY <2>1, <2>2, Shorter, LenProperties
<1> HIDE DEF r
<1>2. f \in [DOMAIN r -> DOMAIN q]
  BY <1>1
<1>3. \A k \in DOMAIN r : r[k] = q[f[k]]
  BY <1>1
<1>4. \A j, k \in DOMAIN r : f[j] = f[k] => j = k
  BY <1>1
<1> HIDE DEF f
<1>5. Within(q, r)
  BY <1>2, <1>3, <1>4 DEF Within
<1>6. QED
  BY <1>1, <1>5 DEF r

\* MPD goes on, with some of its songs gone.
GoesOn(m) ==
    /\ DOMAIN m = MpdFields /\ m.queue \in Seq(Entries) /\ m.nextId = mpd.nextId
    /\ m.linked => m.up /\ mpd.linked
    /\ m.cur \in IdsIn(m.queue) \cup {None}
    /\ Within(mpd.queue, m.queue)

LEMMA Indexed ==
    ASSUME NEW q, NEW id \in IdsIn(q)
    PROVE  IndexOf(q, id) \in DOMAIN q /\ q[IndexOf(q, id)].id = id
BY DEF IdsIn, IndexOf

LEMMA ConsumedGoesOn ==
    ASSUME Shaped, Queued, mpd.cur # None
    PROVE  GoesOn(Consumed(mpd))
<1> DEFINE i == IndexOf(mpd.queue, mpd.cur)
           rest == RemoveAt(mpd.queue, i)
<1>1. i \in DOMAIN mpd.queue /\ mpd.queue \in Seq(Entries)
  BY Indexed DEF Queued, Shaped
<1>2. rest \in Seq(Entries) /\ Within(mpd.queue, rest)
  BY <1>1, WithinShorter
<1>3. i \in Nat \ {0} /\ DOMAIN rest = 1 .. Len(rest) /\ Len(rest) \in Nat
  <2>1. DOMAIN mpd.queue = 1 .. Len(mpd.queue)
    BY <1>1, LenProperties
  <2>2. DOMAIN rest = 1 .. Len(rest) /\ Len(rest) \in Nat
    BY <1>2, LenProperties
  <2>3. QED
    BY <1>1, <2>1, <2>2
<1>4. Consumed(mpd) =
         IF i <= Len(rest) THEN [mpd EXCEPT !.queue = rest, !.cur = rest[i].id, !.at = 0]
         ELSE [mpd EXCEPT !.queue = rest, !.cur = None, !.at = 0, !.state = "stop"]
  BY DEF Consumed
<1>5. DOMAIN mpd = MpdFields /\ (mpd.linked => mpd.up)
  BY DEF Shaped, Queued
<1> HIDE DEF i, rest
<1>6. CASE i <= Len(rest)
  <2>1. rest[i].id \in IdsIn(rest)
    BY <1>3, <1>6 DEF IdsIn
  <2>2. /\ DOMAIN Consumed(mpd) = MpdFields /\ Consumed(mpd).queue = rest
        /\ Consumed(mpd).cur = rest[i].id /\ Consumed(mpd).nextId = mpd.nextId
        /\ Consumed(mpd).linked = mpd.linked /\ Consumed(mpd).up = mpd.up
    BY <1>4, <1>5, <1>6 DEF MpdFields
  <2>3. QED
    BY <1>2, <1>5, <2>1, <2>2 DEF GoesOn
<1>7. CASE ~(i <= Len(rest))
  <2>1. /\ DOMAIN Consumed(mpd) = MpdFields /\ Consumed(mpd).queue = rest
        /\ Consumed(mpd).cur = None /\ Consumed(mpd).nextId = mpd.nextId
        /\ Consumed(mpd).linked = mpd.linked /\ Consumed(mpd).up = mpd.up
    BY <1>4, <1>5, <1>7 DEF MpdFields
  <2>2. QED
    BY <1>2, <1>5, <2>1 DEF GoesOn
<1>8. QED
  BY <1>6, <1>7

LEMMA RemovedGoesOn ==
    ASSUME Shaped, Queued, NEW id \in IdsIn(mpd.queue)
    PROVE  GoesOn(Removed(mpd, id))
<1>1. CASE id = mpd.cur
  <2>1. id # None
    <3>1. PICK i \in DOMAIN mpd.queue : id = mpd.queue[i].id
      BY DEF IdsIn
    <3>2. id \in 1 .. mpd.nextId - 1 /\ mpd.nextId \in Nat
      BY <3>1 DEF Queued, Shaped
    <3>3. QED
      BY <3>2 DEF None
  <2>2. QED
    BY <1>1, <2>1, ConsumedGoesOn DEF Removed
<1>2. CASE id # mpd.cur
  <2> DEFINE i == IndexOf(mpd.queue, id)
             rest == RemoveAt(mpd.queue, i)
  <2>1. i \in DOMAIN mpd.queue /\ mpd.queue[i].id = id /\ mpd.queue \in Seq(Entries)
    BY Indexed DEF Shaped
  <2>2. rest \in Seq(Entries) /\ Within(mpd.queue, rest)
    BY <2>1, WithinShorter
  <2>3. ASSUME mpd.cur # None PROVE mpd.cur \in IdsIn(rest)
    <3>1. PICK j \in DOMAIN mpd.queue : mpd.queue[j].id = mpd.cur
      BY <2>3 DEF Queued, IdsIn
    <3>2. /\ Len(mpd.queue) \in Nat /\ DOMAIN mpd.queue = 1 .. Len(mpd.queue)
          /\ DOMAIN rest = 1 .. Len(mpd.queue) - 1
          /\ \A k \in 1 .. Len(mpd.queue) - 1 :
                rest[k] = IF k < i THEN mpd.queue[k] ELSE mpd.queue[k + 1]
      <4>1. Len(rest) = Len(mpd.queue) - 1
        BY <2>1, Shorter
      <4>2. DOMAIN rest = 1 .. Len(rest)
        BY <2>2, LenProperties
      <4>3. QED
        BY <2>1, <4>1, <4>2, Shorter, LenProperties
    <3>3. j # i
      BY <1>2, <2>1, <3>1
    <3> HIDE DEF i, rest
    <3>4. CASE j < i
      <4>1. j \in DOMAIN rest /\ rest[j] = mpd.queue[j]
        BY <2>1, <3>2, <3>4
      <4>2. QED
        BY <3>1, <4>1 DEF IdsIn
    <3>5. CASE j > i
      <4>1. j - 1 \in DOMAIN rest /\ rest[j - 1] = mpd.queue[j]
        BY <2>1, <3>2, <3>5
      <4>2. QED
        BY <3>1, <4>1 DEF IdsIn
    <3>6. QED
      BY <2>1, <3>2, <3>3, <3>4, <3>5
  <2>4. Removed(mpd, id) = [mpd EXCEPT !.queue = rest]
    BY <1>2 DEF Removed
  <2> HIDE DEF i, rest
  <2>5. /\ DOMAIN Removed(mpd, id) = MpdFields /\ Removed(mpd, id).queue = rest
        /\ Removed(mpd, id).cur = mpd.cur /\ Removed(mpd, id).nextId = mpd.nextId
        /\ Removed(mpd, id).linked = mpd.linked /\ Removed(mpd, id).up = mpd.up
    BY <2>4 DEF MpdFields, Shaped
  <2>6. QED
    BY <2>2, <2>3, <2>5 DEF GoesOn, Queued
<1>3. QED
  BY <1>1, <1>2


\* What is held by number, and what is answered.
Held == {backend.ours[id].n : id \in DOMAIN backend.ours}
Settled == {n \in DOMAIN songs : songs[n].answer # "none"}

\* Nothing answered is asked again, and nothing held is lost sight of.
Kept == Settled \subseteq Settled' /\ Held \subseteq Held' \cup Settled'

\* The songs and their answers are as they were.
SameSongs ==
    /\ songs' = [n \in DOMAIN songs |-> songs'[n]]
    /\ \A n \in DOMAIN songs : "answer" \in DOMAIN songs'[n] /\ songs'[n].answer = songs[n].answer

\* And so is what is held.
SameOurs ==
    /\ DOMAIN backend' = BackendFields
    /\ DOMAIN backend'.ours = DOMAIN backend.ours
    /\ \A id \in DOMAIN backend.ours :
          "n" \in DOMAIN backend'.ours[id] /\ backend'.ours[id].n = backend.ours[id].n

\* The poll that is under way asks what it asked.
SamePoll ==
    /\ "stage" \in DOMAIN hand' /\ "step" \in DOMAIN poll'
    /\ poll'.step = "song" => poll' = poll
    /\ poll'.step # "idle" => hand'.stage \in {"none", "refresh", "look", "wait", "waited"}

LEMMA AsSequence ==
    ASSUME NEW S, NEW q \in Seq(S), NEW r, r = [n \in DOMAIN q |-> r[n]]
    PROVE  \E T : r \in Seq(T)
<1> DEFINE T == {r[n] : n \in DOMAIN q}
<1>1. Len(q) \in Nat /\ DOMAIN q = 1 .. Len(q)
  BY LenProperties
<1>2. r \in [1 .. Len(q) -> T]
  BY <1>1
<1> HIDE DEF T
<1>3. r \in Seq(T)
  BY <1>1, <1>2, SeqDef
<1>4. QED
  BY <1>3

LEMMA SameSongsShaped ==
    ASSUME Shaped, SameSongs
    PROVE  /\ \E S : songs' \in Seq(S)
           /\ DOMAIN songs' = DOMAIN songs
           /\ \A n \in DOMAIN songs' : "answer" \in DOMAIN songs'[n]
           /\ Settled' = Settled
<1>1. PICK S : songs \in Seq(S)
  BY DEF Shaped
<1>2. \E T : songs' \in Seq(T)
  BY <1>1, AsSequence DEF SameSongs
<1>3. DOMAIN songs' = DOMAIN songs
  BY DEF SameSongs
<1>4. QED
  BY <1>2, <1>3 DEF SameSongs, Settled

LEMMA MuchAsItWas ==
    ASSUME Consistent, SameSongs, SameOurs, GoesOn(mpd'),
           "stage" \in DOMAIN hand', "step" \in DOMAIN poll'
    PROVE  Shaped' /\ Queued' /\ Holds' /\ Kept
<1>1. PICK f \in [DOMAIN mpd'.queue -> DOMAIN mpd.queue] :
         /\ \A k \in DOMAIN mpd'.queue : mpd'.queue[k] = mpd.queue[f[k]]
         /\ \A j, k \in DOMAIN mpd'.queue : f[j] = f[k] => j = k
  BY DEF GoesOn, Within
<1>2. Shaped'
  BY SameSongsShaped DEF Consistent, Shaped, GoesOn, SameOurs
<1>3. Queued'
  <2>1. \A k \in DOMAIN mpd'.queue :
           /\ mpd'.queue[k].id \in 1 .. mpd.nextId - 1 /\ mpd'.queue[k].n \in DOMAIN songs
    BY <1>1 DEF Consistent, Queued
  <2>2. \A j, k \in DOMAIN mpd'.queue :
           mpd'.queue[j].id = mpd'.queue[k].id \/ mpd'.queue[j].n = mpd'.queue[k].n => j = k
    BY <1>1 DEF Consistent, Queued
  <2>3. DOMAIN songs' = DOMAIN songs
    BY SameSongsShaped DEF Consistent
  <2>4. QED
    BY <2>1, <2>2, <2>3 DEF Queued, GoesOn
<1>4. Holds'
  <2>1. ASSUME NEW id \in DOMAIN backend.ours
        PROVE  /\ backend'.ours[id].n \in DOMAIN songs'
               /\ songs'[backend'.ours[id].n].answer = "none"
               /\ mpd'.linked =>
                     /\ id < mpd'.nextId
                     /\ \A k \in DOMAIN mpd'.queue :
                           mpd'.queue[k].n = backend'.ours[id].n => mpd'.queue[k].id = id
    <3>1. /\ backend'.ours[id].n = backend.ours[id].n
          /\ backend.ours[id].n \in DOMAIN songs /\ songs[backend.ours[id].n].answer = "none"
      BY DEF Consistent, Holds, SameOurs
    <3>2. DOMAIN songs' = DOMAIN songs
      BY SameSongsShaped DEF Consistent
    <3>3. songs'[backend.ours[id].n].answer = "none"
      BY <3>1 DEF SameSongs
    <3>4. ASSUME mpd'.linked
          PROVE  /\ id < mpd.nextId
                 /\ \A j \in DOMAIN mpd.queue :
                       mpd.queue[j].n = backend.ours[id].n => mpd.queue[j].id = id
      BY <3>4 DEF Consistent, Holds, GoesOn
    <3>5. QED
      BY <1>1, <3>1, <3>2, <3>3, <3>4 DEF GoesOn
  <2>2. QED
    BY <2>1 DEF Holds, Consistent, SameOurs
<1>5. Kept
  <2>1. Settled' = Settled
    BY SameSongsShaped DEF Consistent
  <2>2. Held \subseteq Held'
    BY DEF Held, SameOurs
  <2>3. QED
    BY <2>1, <2>2 DEF Kept
<1>6. QED
  BY <1>2, <1>3, <1>4, <1>5

LEMMA Undisturbed ==
    ASSUME Consistent, SameSongs, SameOurs, SamePoll, GoesOn(mpd')
    PROVE  Consistent' /\ Kept
<1>1. PICK f \in [DOMAIN mpd'.queue -> DOMAIN mpd.queue] :
         \A k \in DOMAIN mpd'.queue : mpd'.queue[k] = mpd.queue[f[k]]
  BY DEF GoesOn, Within
<1>2. Shaped' /\ Queued' /\ Holds' /\ Kept
  BY MuchAsItWas DEF SamePoll
<1>3. Polling'
  <2>1. CASE poll'.step = "song" /\ mpd'.linked
    <3>1. poll' = poll /\ poll.step = "song" /\ mpd.linked
      BY <2>1 DEF SamePoll, GoesOn
    <3>2. /\ poll.id \in 1 .. mpd.nextId - 1 /\ poll.id \notin DOMAIN backend.ours
          /\ poll.n \in DOMAIN songs
          /\ \A id \in DOMAIN backend.ours : backend.ours[id].n # poll.n
          /\ \A j \in DOMAIN mpd.queue : mpd.queue[j].n = poll.n => mpd.queue[j].id = poll.id
      BY <3>1 DEF Consistent, Polling
    <3>3. \A j \in DOMAIN mpd'.queue : mpd'.queue[j].n = poll.n => mpd'.queue[j].id = poll.id
      BY <1>1, <3>2
    <3>4. DOMAIN songs' = DOMAIN songs
      BY SameSongsShaped DEF Consistent
    <3>5. \A id \in DOMAIN backend'.ours : backend'.ours[id].n # poll.n
      BY <3>2 DEF SameOurs
    <3>6. QED
      BY <3>1, <3>2, <3>3, <3>4, <3>5 DEF Polling, SamePoll, SameOurs, GoesOn
  <2>2. CASE ~(poll'.step = "song" /\ mpd'.linked)
    BY <2>2 DEF Polling, SamePoll
  <2>3. QED
    BY <2>1, <2>2
<1>4. QED
  BY <1>2, <1>3 DEF Consistent

\* MPD as it was, but for what it plays, or dead.
LEMMA PlaysOn ==
    ASSUME Shaped, Queued, DOMAIN mpd' = MpdFields,
           mpd'.queue = mpd.queue, mpd'.nextId = mpd.nextId,
           mpd'.linked => mpd'.up /\ mpd.linked,
           mpd'.cur \in IdsIn(mpd.queue) \cup {None}
    PROVE  GoesOn(mpd')
BY WithinItself DEF GoesOn, Shaped, Queued

LEMMA AsItIs == ASSUME Shaped, Queued PROVE GoesOn(mpd)
BY WithinItself DEF GoesOn, Shaped, Queued

LEMMA SongsUntouched == ASSUME Shaped, songs' = songs PROVE SameSongs
<1>1. PICK S : songs \in Seq(S)
  BY DEF Shaped
<1>2. songs = [n \in DOMAIN songs |-> songs[n]]
  BY <1>1, LenProperties
<1>3. QED
  BY <1>2 DEF Shaped, SameSongs

LEMMA OursUntouched ==
    ASSUME Shaped, DOMAIN backend' = BackendFields, backend'.ours = backend.ours
    PROVE  SameOurs
BY DEF Shaped, SameOurs

LEMMA PollUntouched == ASSUME Consistent, UNCHANGED <<poll, hand>> PROVE SamePoll
BY DEF Consistent, Shaped, Polling, SamePoll

\* Offerings given up are answered, and no others.
LEMMA Retired ==
    ASSUME Consistent, NEW verdict, DOMAIN verdict \subseteq DOMAIN backend.ours,
           \A id \in DOMAIN verdict : verdict[id] # "none", songs' = Answered(verdict)
    PROVE  /\ \E S : songs' \in Seq(S)
           /\ DOMAIN songs' = DOMAIN songs
           /\ \A n \in DOMAIN songs' : "answer" \in DOMAIN songs'[n]
           /\ Settled \subseteq Settled'
           /\ \A id \in DOMAIN verdict : backend.ours[id].n \in Settled'
           /\ \A id \in DOMAIN backend.ours \ DOMAIN verdict :
                 songs'[backend.ours[id].n].answer = "none"
<1>1. PICK S : songs \in Seq(S)
  BY DEF Consistent, Shaped
<1> DEFINE mine(n) == \E id \in DOMAIN verdict : backend.ours[id].n = n
           whose(n) == CHOOSE id \in DOMAIN verdict : backend.ours[id].n = n
<1>2. /\ DOMAIN songs' = DOMAIN songs /\ songs' = [n \in DOMAIN songs |-> songs'[n]]
      /\ \A n \in DOMAIN songs :
            songs'[n] = IF mine(n) THEN [songs[n] EXCEPT !.answer = verdict[whose(n)]]
                        ELSE songs[n]
  BY DEF Answered
<1>3. \A n : mine(n) => whose(n) \in DOMAIN verdict
  OBVIOUS
<1> HIDE DEF whose
<1>4. \E T : songs' \in Seq(T)
  BY <1>1, <1>2, AsSequence
<1>5. ASSUME NEW n \in DOMAIN songs
      PROVE  /\ "answer" \in DOMAIN songs'[n]
             /\ mine(n) => songs'[n].answer # "none"
             /\ ~mine(n) => songs'[n].answer = songs[n].answer
  <2>1. "answer" \in DOMAIN songs[n]
    BY DEF Consistent, Shaped
  <2>2. CASE mine(n)
    BY <1>2, <1>3, <2>1, <2>2
  <2>3. CASE ~mine(n)
    BY <1>2, <2>1, <2>3
  <2>4. QED
    BY <2>2, <2>3
<1>6. Settled \subseteq Settled'
  BY <1>2, <1>5 DEF Settled
<1>7. ASSUME NEW id \in DOMAIN verdict PROVE backend.ours[id].n \in Settled'
  <2>1. backend.ours[id].n \in DOMAIN songs
    BY DEF Consistent, Holds
  <2>2. mine(backend.ours[id].n)
    OBVIOUS
  <2>3. QED
    BY <1>2, <1>5, <2>1, <2>2 DEF Settled
<1>8. ASSUME NEW id \in DOMAIN backend.ours \ DOMAIN verdict
      PROVE  songs'[backend.ours[id].n].answer = "none"
  <2>1. backend.ours[id].n \in DOMAIN songs /\ songs[backend.ours[id].n].answer = "none"
    BY DEF Consistent, Holds
  <2>2. ~mine(backend.ours[id].n)
    BY DEF Consistent, Holds
  <2>3. QED
    BY <1>5, <2>1, <2>2
<1>9. QED
  BY <1>2, <1>4, <1>5, <1>6, <1>7, <1>8

\* A song is added to MPD's queue, and perhaps held.
LEMMA OneMoreSong ==
    ASSUME Consistent, mpd' = Added(mpd), NEW song, "answer" \in DOMAIN song,
           song.answer = "none", songs' = Append(songs, song)
    PROVE  /\ Queued' /\ Settled' = Settled
           /\ DOMAIN mpd' = MpdFields /\ mpd'.queue \in Seq(Entries)
           /\ mpd'.nextId = mpd.nextId + 1 /\ mpd'.nextId \in Nat \ {0}
           /\ mpd'.linked = mpd.linked
           /\ Len(songs) \in Nat /\ DOMAIN songs = 1 .. Len(songs)
           /\ DOMAIN songs' = 1 .. Len(songs) + 1
           /\ \A n \in DOMAIN songs : songs'[n] = songs[n]
           /\ songs'[Len(songs) + 1] = song
           /\ \E S : songs' \in Seq(S)
           /\ \A n \in DOMAIN songs' : "answer" \in DOMAIN songs'[n]
           /\ \A i \in DOMAIN mpd'.queue :
                 \/ i \in DOMAIN mpd.queue /\ mpd'.queue[i] = mpd.queue[i]
                 \/ mpd'.queue[i] = [id |-> mpd.nextId, n |-> Len(songs) + 1]
<1>1. PICK S : songs \in Seq(S)
  BY DEF Consistent, Shaped
<1>2. /\ Len(songs) \in Nat /\ DOMAIN songs = 1 .. Len(songs)
      /\ DOMAIN songs' = 1 .. Len(songs) + 1
      /\ \A n \in DOMAIN songs : songs'[n] = songs[n]
      /\ songs'[Len(songs) + 1] = song
      /\ \E T : songs' \in Seq(T)
  <2>1. songs \in Seq(S \cup {song})
    BY <1>1, SeqMonotonic
  <2>2. /\ songs' \in Seq(S \cup {song}) /\ Len(songs') = Len(songs) + 1
        /\ \A n \in 1 .. Len(songs) : songs'[n] = songs[n]
        /\ songs'[Len(songs) + 1] = song
    BY <2>1, AppendProperties
  <2>3. QED
    BY <2>1, <2>2, LenProperties
<1>3. \A n \in DOMAIN songs' : "answer" \in DOMAIN songs'[n]
  BY <1>2 DEF Consistent, Shaped
<1>4. Settled' = Settled
  <2>1. \A n \in DOMAIN songs' : n \in DOMAIN songs \/ n = Len(songs) + 1
    BY <1>2
  <2>2. Len(songs) + 1 \notin DOMAIN songs /\ DOMAIN songs \subseteq DOMAIN songs'
    BY <1>2
  <2>3. QED
    BY <1>2, <2>1, <2>2 DEF Settled
<1> DEFINE e == [id |-> mpd.nextId, n |-> Len(songs) + 1]
           q == mpd.queue
<1>5. /\ DOMAIN mpd' = MpdFields /\ mpd'.queue = Append(q, e)
      /\ mpd'.nextId = mpd.nextId + 1 /\ mpd'.linked = mpd.linked /\ mpd'.up = mpd.up
      /\ mpd'.cur = mpd.cur
  BY DEF Added, Consistent, Shaped, MpdFields
<1>6. e \in Entries /\ q \in Seq(Entries) /\ mpd.nextId \in Nat \ {0}
  BY <1>2 DEF Entries, Consistent, Shaped
<1>7. /\ mpd'.queue \in Seq(Entries) /\ Len(q) \in Nat /\ DOMAIN q = 1 .. Len(q)
      /\ DOMAIN mpd'.queue = 1 .. Len(q) + 1
      /\ \A i \in DOMAIN q : mpd'.queue[i] = q[i]
      /\ mpd'.queue[Len(q) + 1] = e
  <2>1. /\ Append(q, e) \in Seq(Entries) /\ Len(Append(q, e)) = Len(q) + 1
        /\ \A i \in 1 .. Len(q) : Append(q, e)[i] = q[i]
        /\ Append(q, e)[Len(q) + 1] = e
    BY <1>6, AppendProperties
  <2>2. /\ Len(q) \in Nat /\ DOMAIN q = 1 .. Len(q)
        /\ DOMAIN Append(q, e) = 1 .. Len(Append(q, e))
    BY <1>6, <2>1, LenProperties
  <2>3. QED
    BY <1>5, <2>1, <2>2
<1>8. e.id = mpd.nextId /\ e.n = Len(songs) + 1
  OBVIOUS
<1> HIDE DEF e, q
<1>9. \A i \in DOMAIN mpd'.queue : i \in DOMAIN q \/ i = Len(q) + 1
  BY <1>7
<1>10. Queued'
  <2>1. \A i \in DOMAIN q : /\ q[i].id \in 1 .. mpd.nextId - 1 /\ q[i].n \in DOMAIN songs
    BY DEF q, Consistent, Queued
  <2>2. \A i \in DOMAIN mpd'.queue :
           mpd'.queue[i].id \in 1 .. mpd'.nextId - 1 /\ mpd'.queue[i].n \in DOMAIN songs'
    <3>1. ASSUME NEW i \in DOMAIN q
          PROVE  mpd'.queue[i].id \in 1 .. mpd'.nextId - 1 /\ mpd'.queue[i].n \in DOMAIN songs'
      <4>1. mpd'.queue[i] = q[i] /\ q[i].id \in 1 .. mpd.nextId - 1 /\ q[i].n \in DOMAIN songs
        BY <1>7, <2>1
      <4>2. q[i].id \in 1 .. mpd'.nextId - 1
        BY <1>5, <1>6, <4>1
      <4>3. q[i].n \in DOMAIN songs'
        BY <1>2, <4>1
      <4>4. QED
        BY <4>1, <4>2, <4>3
    <3>2. e.id \in 1 .. mpd'.nextId - 1 /\ e.n \in DOMAIN songs'
      BY <1>2, <1>5, <1>6, <1>8
    <3>3. QED
      BY <1>7, <1>9, <3>1, <3>2
  <2>3. \A i, j \in DOMAIN mpd'.queue :
           mpd'.queue[i].id = mpd'.queue[j].id \/ mpd'.queue[i].n = mpd'.queue[j].n => i = j
    <3>1. \A i, j \in DOMAIN q : q[i].id = q[j].id \/ q[i].n = q[j].n => i = j
      BY DEF q, Consistent, Queued
    <3>2. \A i \in DOMAIN q : q[i].id # e.id /\ q[i].n # e.n
      BY <1>2, <1>6, <1>8, <2>1
    <3>3. QED
      BY <1>7, <1>9, <3>1, <3>2
  <2>4. mpd'.cur \in IdsIn(mpd'.queue) \cup {None}
    <3>1. IdsIn(q) \subseteq IdsIn(mpd'.queue)
      BY <1>7 DEF IdsIn
    <3>2. QED
      BY <1>5, <3>1 DEF q, Consistent, Queued
  <2>5. mpd'.linked => mpd'.up
    BY <1>5 DEF Consistent, Queued
  <2>6. QED
    BY <2>2, <2>3, <2>4, <2>5 DEF Queued
<1>11. QED
  BY <1>2, <1>3, <1>4, <1>5, <1>6, <1>7, <1>9, <1>10 DEF e, q


-----------------------------------------------------------------------------
(* Every step keeps the invariant, and what is promised.                   *)

LEMMA WorldKeeps == ASSUME Consistent, World PROVE Consistent' /\ Kept
<1>0. PICK S : songs \in Seq(S)
  BY DEF Consistent, Shaped
<1>a. DOMAIN songs = 1 .. Len(songs) /\ \A n \in DOMAIN songs : "answer" \in DOMAIN songs[n]
  BY <1>0, LenProperties DEF Consistent, Shaped
<1>b. DOMAIN mpd = MpdFields /\ Shaped /\ Queued
  BY DEF Consistent, Shaped
<1>c. ASSUME UNCHANGED <<backend, poll, hand>>, SameSongs, GoesOn(mpd')
      PROVE  Consistent' /\ Kept
  <2>1. SameOurs
    BY <1>b, <1>c, OursUntouched DEF Shaped
  <2>2. SamePoll
    BY <1>c, PollUntouched
  <2>3. QED
    BY <1>c, <2>1, <2>2, Undisturbed
<1>1. CASE MpdPlays
  <2>1. SameSongs
    <3>1. PICK x, y : songs' = [songs EXCEPT ![SongOf(mpd.cur)].sounded = x,
                                             ![SongOf(mpd.cur)].through = y]
      BY <1>1 DEF MpdPlays
    <3>2. QED
      BY <1>a, <3>1 DEF SameSongs
  <2>2. GoesOn(mpd')
    <3>1. mpd.cur # None /\ (mpd' = [mpd EXCEPT !.at = @ + 1] \/ mpd' = Consumed(mpd))
      BY <1>1 DEF MpdPlays
    <3>2. CASE mpd' = [mpd EXCEPT !.at = @ + 1]
      <4>1. /\ DOMAIN mpd' = MpdFields /\ mpd'.queue = mpd.queue /\ mpd'.nextId = mpd.nextId
            /\ mpd'.linked = mpd.linked /\ mpd'.up = mpd.up /\ mpd'.cur = mpd.cur
        BY <1>b, <3>2 DEF MpdFields
      <4>2. QED
        BY <1>b, <4>1, PlaysOn DEF Queued
    <3>3. QED
      BY <1>b, <3>1, <3>2, ConsumedGoesOn
  <2>3. QED
    BY <1>1, <1>c, <2>1, <2>2 DEF MpdPlays
<1>2. CASE MpdDies
  <2>1. SameSongs
    <3>1. songs' = [n \in DOMAIN songs |-> [songs[n] EXCEPT !.through = FALSE]]
      BY <1>2 DEF MpdDies
    <3>2. QED
      BY <1>a, <3>1 DEF SameSongs
  <2>2. GoesOn(mpd')
    <3>1. mpd' = [mpd EXCEPT !.up = FALSE, !.linked = FALSE]
      BY <1>2 DEF MpdDies
    <3>2. /\ DOMAIN mpd' = MpdFields /\ mpd'.queue = mpd.queue /\ mpd'.nextId = mpd.nextId
          /\ mpd'.linked = FALSE /\ mpd'.cur = mpd.cur
      BY <1>b, <3>1 DEF MpdFields
    <3>3. QED
      BY <1>b, <3>2, PlaysOn DEF Queued
  <2>3. QED
    BY <1>2, <1>c, <2>1, <2>2 DEF MpdDies
<1>3. CASE MpdReturns
  <2>1. PICK state \in {mpd.state, "pause"} :
          mpd' = [mpd EXCEPT !.up = TRUE, !.nextId = Len(mpd.queue) + 1,
                      !.queue = [i \in DOMAIN mpd.queue |-> [id |-> i, n |-> mpd.queue[i].n]],
                      !.cur = IF mpd.cur = None THEN None ELSE IndexOf(mpd.queue, mpd.cur),
                      !.state = IF mpd.cur = None THEN "stop" ELSE state]
    BY <1>3 DEF MpdReturns
  <2>2. ~mpd.up /\ ~mpd.linked
    BY <1>3, <1>b DEF MpdReturns, Queued
  <2> DEFINE q == [i \in DOMAIN mpd.queue |-> [id |-> i, n |-> mpd.queue[i].n]]
  <2>3. /\ DOMAIN mpd' = MpdFields /\ mpd'.queue = q /\ mpd'.nextId = Len(mpd.queue) + 1
        /\ mpd'.linked = mpd.linked
        /\ mpd'.cur = IF mpd.cur = None THEN None ELSE IndexOf(mpd.queue, mpd.cur)
    BY <1>b, <2>1 DEF MpdFields
  <2>4. mpd.queue \in Seq(Entries) /\ Len(mpd.queue) \in Nat /\ DOMAIN mpd.queue = 1 .. Len(mpd.queue)
    BY <1>b, LenProperties DEF Shaped
  <2>5. /\ DOMAIN q = DOMAIN mpd.queue
        /\ \A i \in DOMAIN q : q[i].id = i /\ q[i].n = mpd.queue[i].n
    OBVIOUS
  <2>6. q \in Seq(Entries)
    <3>1. \A i \in DOMAIN mpd.queue : mpd.queue[i] \in Entries /\ mpd.queue[i].n \in Nat
      <4>1. \A i \in DOMAIN mpd.queue : mpd.queue[i] \in Entries
        BY <2>4, ElementOfSeq
      <4>2. QED
        BY <4>1 DEF Entries
    <3>2. q \in [1 .. Len(mpd.queue) -> Entries]
      BY <2>4, <3>1 DEF Entries
    <3>3. QED
      BY <2>4, <3>2, SeqDef
  <2> HIDE DEF q
  <2>7. UNCHANGED <<backend, poll, hand, songs>>
    BY <1>3 DEF MpdReturns
  <2>8. Shaped'
    BY <1>b, <2>3, <2>4, <2>6, <2>7 DEF Shaped
  <2>9. Queued'
    <3>1. mpd'.linked => mpd'.up
      BY <2>2, <2>3
    <3>2. mpd'.cur \in IdsIn(q) \cup {None}
      <4>1. CASE mpd.cur # None
        <5>1. IndexOf(mpd.queue, mpd.cur) \in DOMAIN q
          BY <1>b, <2>5, <4>1, Indexed DEF Queued
        <5>2. QED
          BY <2>3, <2>5, <4>1, <5>1 DEF IdsIn
      <4>2. QED
        BY <2>3, <4>1
    <3>3. \A i \in DOMAIN q : q[i].id \in 1 .. mpd'.nextId - 1 /\ q[i].n \in DOMAIN songs
      BY <1>b, <2>3, <2>4, <2>5 DEF Queued
    <3>4. \A i, j \in DOMAIN q : q[i].id = q[j].id \/ q[i].n = q[j].n => i = j
      BY <1>b, <2>5 DEF Queued
    <3>5. QED
      BY <2>3, <2>7, <3>1, <3>2, <3>3, <3>4 DEF Queued
  <2>10. Holds' /\ Polling'
    BY <2>2, <2>3, <2>7 DEF Consistent, Holds, Polling
  <2>11. QED
    BY <2>7, <2>8, <2>9, <2>10 DEF Consistent, Kept, Held, Settled
<1>4. CASE ClientPlaysOrPauses
  <2>1. /\ mpd.queue # <<>>
        /\ \/ mpd' = [mpd EXCEPT !.state = "pause"] \/ mpd' = [mpd EXCEPT !.state = "play"]
           \/ mpd' = [mpd EXCEPT !.cur = mpd.queue[1].id, !.at = 0, !.state = "play"]
    BY <1>4 DEF ClientPlaysOrPauses, Sought
  <2>2. 1 \in DOMAIN mpd.queue
    BY <1>b, <2>1, EmptySeq, LenProperties DEF Shaped
  <2>3. mpd.queue[1].id \in IdsIn(mpd.queue)
    BY <2>2 DEF IdsIn
  <2>4. /\ DOMAIN mpd' = MpdFields /\ mpd'.queue = mpd.queue /\ mpd'.nextId = mpd.nextId
        /\ mpd'.linked = mpd.linked /\ mpd'.up = mpd.up
        /\ mpd'.cur \in {mpd.cur, mpd.queue[1].id}
    BY <1>b, <2>1 DEF MpdFields
  <2>5. GoesOn(mpd')
    BY <1>b, <2>3, <2>4, PlaysOn DEF Queued
  <2>6. QED
    BY <1>4, <1>b, <1>c, <2>5, SongsUntouched DEF ClientPlaysOrPauses
<1>5. ASSUME NEW p, ClientAdds(p) PROVE Consistent' /\ Kept
  <2>1. /\ mpd' = Added(mpd) /\ songs' = Append(songs, NewSong(p, TRUE))
        /\ UNCHANGED <<backend, poll, hand>>
    BY <1>5 DEF ClientAdds
  <2>2. "answer" \in DOMAIN NewSong(p, TRUE) /\ NewSong(p, TRUE).answer = "none"
    BY DEF NewSong
  <2>3. /\ Queued' /\ Settled' = Settled
        /\ DOMAIN mpd' = MpdFields /\ mpd'.queue \in Seq(Entries)
        /\ mpd'.nextId = mpd.nextId + 1 /\ mpd'.nextId \in Nat \ {0}
        /\ mpd'.linked = mpd.linked
        /\ Len(songs) \in Nat /\ DOMAIN songs = 1 .. Len(songs)
        /\ DOMAIN songs' = 1 .. Len(songs) + 1
        /\ \A n \in DOMAIN songs : songs'[n] = songs[n]
        /\ \E T : songs' \in Seq(T)
        /\ \A n \in DOMAIN songs' : "answer" \in DOMAIN songs'[n]
        /\ \A i \in DOMAIN mpd'.queue :
              \/ i \in DOMAIN mpd.queue /\ mpd'.queue[i] = mpd.queue[i]
              \/ mpd'.queue[i] = [id |-> mpd.nextId, n |-> Len(songs) + 1]
    BY <2>1, <2>2, OneMoreSong
  <2>4. Shaped'
    BY <1>b, <2>1, <2>3 DEF Shaped
  <2>5. \A n \in DOMAIN songs : n \in DOMAIN songs' /\ n # Len(songs) + 1
    BY <2>3
  <2>6. mpd.nextId \in Nat
    BY <1>b DEF Shaped
  <2>7. Holds'
    <3>1. ASSUME NEW id \in DOMAIN backend.ours
          PROVE  /\ backend.ours[id].n \in DOMAIN songs'
                 /\ songs'[backend.ours[id].n].answer = "none"
                 /\ mpd'.linked =>
                       /\ id < mpd'.nextId
                       /\ \A i \in DOMAIN mpd'.queue :
                             mpd'.queue[i].n = backend.ours[id].n => mpd'.queue[i].id = id
      <4>1. backend.ours[id].n \in DOMAIN songs /\ songs[backend.ours[id].n].answer = "none"
            /\ id \in Nat
        BY DEF Consistent, Holds, Shaped
      <4>2. mpd.linked => /\ id < mpd.nextId
                          /\ \A i \in DOMAIN mpd.queue :
                                mpd.queue[i].n = backend.ours[id].n => mpd.queue[i].id = id
        BY DEF Consistent, Holds
      <4>3. mpd.linked => id < mpd'.nextId
        BY <2>3, <2>6, <4>1, <4>2
      <4>4. ASSUME mpd.linked, NEW i \in DOMAIN mpd'.queue, mpd'.queue[i].n = backend.ours[id].n
            PROVE  mpd'.queue[i].id = id
        <5>1. i \in DOMAIN mpd.queue /\ mpd'.queue[i] = mpd.queue[i]
          BY <2>3, <2>5, <4>1, <4>4
        <5>2. QED
          BY <4>2, <4>4, <5>1
      <4>5. QED
        BY <2>3, <2>5, <4>1, <4>3, <4>4
    <3>2. \A id, jd \in DOMAIN backend.ours : backend.ours[id].n = backend.ours[jd].n => id = jd
      BY DEF Holds, Consistent
    <3>3. backend' = backend
      BY <2>1
    <3>4. QED
      BY <3>1, <3>2, <3>3, SMTT(30) DEF Holds
  <2>8. Polling'
    <3>1. CASE poll.step = "song" /\ mpd.linked
      <4>1. /\ poll.id \in 1 .. mpd.nextId - 1 /\ poll.id \notin DOMAIN backend.ours
            /\ poll.n \in DOMAIN songs
            /\ \A id \in DOMAIN backend.ours : backend.ours[id].n # poll.n
            /\ \A i \in DOMAIN mpd.queue : mpd.queue[i].n = poll.n => mpd.queue[i].id = poll.id
        BY <3>1 DEF Consistent, Polling
      <4>2. poll.id \in 1 .. mpd'.nextId - 1 /\ poll.n \in DOMAIN songs'
        BY <2>3, <2>5, <2>6, <4>1
      <4>3. ASSUME NEW i \in DOMAIN mpd'.queue, mpd'.queue[i].n = poll.n
            PROVE  mpd'.queue[i].id = poll.id
        <5>1. i \in DOMAIN mpd.queue /\ mpd'.queue[i] = mpd.queue[i]
          BY <2>3, <2>5, <4>1, <4>3
        <5>2. QED
          BY <4>1, <4>3, <5>1
      <4>4. QED
        BY <2>1, <2>3, <4>1, <4>2, <4>3 DEF Polling, Consistent
    <3>2. QED
      BY <2>1, <2>3, <3>1 DEF Polling, Consistent
  <2>9. QED
    BY <2>1, <2>3, <2>4, <2>7, <2>8 DEF Consistent, Kept, Held
<1>6. ASSUME NEW id \in IdsIn(mpd.queue), ClientDeletes(id) PROVE Consistent' /\ Kept
  BY <1>6, <1>b, <1>c, RemovedGoesOn, SongsUntouched DEF ClientDeletes
<1>7. ASSUME NEW at, ClientSeeks(at) PROVE Consistent' /\ Kept
  <2>1. SameSongs
    <3>1. PICK x : songs' = [songs EXCEPT ![SongOf(mpd.cur)].seeks = x,
                                          ![SongOf(mpd.cur)].through = FALSE]
      BY <1>7 DEF ClientSeeks
    <3>2. QED
      BY <1>a, <3>1 DEF SameSongs
  <2>2. GoesOn(mpd')
    <3>1. mpd' = [mpd EXCEPT !.at = at]
      BY <1>7 DEF ClientSeeks
    <3>2. /\ DOMAIN mpd' = MpdFields /\ mpd'.queue = mpd.queue /\ mpd'.nextId = mpd.nextId
          /\ mpd'.linked = mpd.linked /\ mpd'.up = mpd.up /\ mpd'.cur = mpd.cur
      BY <1>b, <3>1 DEF MpdFields
    <3>3. QED
      BY <1>b, <3>2, PlaysOn DEF Queued
  <2>3. QED
    BY <1>7, <1>c, <2>1, <2>2 DEF ClientSeeks
<1>8. QED
  BY <1>1, <1>2, <1>3, <1>4, <1>5, <1>6, <1>7 DEF World


LEMMA SampledSame ==
    ASSUME NEW b, DOMAIN b = BackendFields, NEW id, NEW at,
           \A i \in DOMAIN b.ours : "n" \in DOMAIN b.ours[i]
    PROVE  /\ DOMAIN Sampled(b, id, at) = BackendFields
           /\ DOMAIN Sampled(b, id, at).ours = DOMAIN b.ours
           /\ \A i \in DOMAIN b.ours : /\ "n" \in DOMAIN Sampled(b, id, at).ours[i]
                                       /\ Sampled(b, id, at).ours[i].n = b.ours[i].n
<1>1. CASE id \notin DOMAIN b.ours
  BY <1>1 DEF Sampled
<1>2. CASE id \in DOMAIN b.ours /\ ~b.playing
  <2>1. Sampled(b, id, at) = [b EXCEPT !.ours[id].current = TRUE]
    BY <1>2 DEF Sampled
  <2>2. QED
    BY <2>1 DEF BackendFields
<1>3. CASE id \in DOMAIN b.ours /\ b.playing
  <2>1. PICK x, y : Sampled(b, id, at) =
           [b EXCEPT !.ours[id].current = TRUE, !.ours[id].seen = at,
                     !.ours[id].heard = x, !.ours[id].furthest = y]
    BY <1>3 DEF Sampled
  <2>2. QED
    BY <2>1 DEF BackendFields
<1>4. QED
  BY <1>1, <1>2, <1>3

LEMMA EnqueuedKeeps ==
    ASSUME Consistent, NEW p, Enqueued(p), poll' = poll, poll.step = "idle",
           "stage" \in DOMAIN hand'
    PROVE  Consistent' /\ Kept
<1>b. Shaped /\ Queued /\ Holds
  BY DEF Consistent
<1>1. CASE /\ songs' = songs /\ mpd' = mpd
           /\ DOMAIN backend' = BackendFields /\ backend'.ours = backend.ours
  <2>1. SameSongs /\ SameOurs /\ GoesOn(mpd')
    BY <1>1, <1>b, SongsUntouched, OursUntouched, AsItIs
  <2>2. SamePoll
    BY <1>b DEF SamePoll, Shaped
  <2>3. QED
    BY <2>1, <2>2, Undisturbed
<1>2. ASSUME mpd.linked, NEW honoured,
             LET o == Offered(Len(songs) + 1, p, honoured, FALSE, FALSE)
             IN  /\ backend' = [backend EXCEPT !.len = @ + 1,
                        !.ours = [i \in DOMAIN @ \cup {mpd.nextId} |->
                                     IF i = mpd.nextId THEN o ELSE @[i]]]
                 /\ mpd' = Added(mpd)
                 /\ songs' = Append(songs, NewSong(p, honoured))
      PROVE  Consistent' /\ Kept
  <2> DEFINE o == Offered(Len(songs) + 1, p, honoured, FALSE, FALSE)
             ours == [i \in DOMAIN backend.ours \cup {mpd.nextId} |->
                         IF i = mpd.nextId THEN o ELSE backend.ours[i]]
  <2>1. "answer" \in DOMAIN NewSong(p, honoured) /\ NewSong(p, honoured).answer = "none"
    BY DEF NewSong
  <2>2. /\ Queued' /\ Settled' = Settled
        /\ DOMAIN mpd' = MpdFields /\ mpd'.queue \in Seq(Entries)
        /\ mpd'.nextId = mpd.nextId + 1 /\ mpd'.nextId \in Nat \ {0}
        /\ mpd'.linked = mpd.linked
        /\ Len(songs) \in Nat /\ DOMAIN songs = 1 .. Len(songs)
        /\ DOMAIN songs' = 1 .. Len(songs) + 1
        /\ \A n \in DOMAIN songs : songs'[n] = songs[n]
        /\ songs'[Len(songs) + 1] = NewSong(p, honoured)
        /\ \E T : songs' \in Seq(T)
        /\ \A n \in DOMAIN songs' : "answer" \in DOMAIN songs'[n]
        /\ \A i \in DOMAIN mpd'.queue :
              \/ i \in DOMAIN mpd.queue /\ mpd'.queue[i] = mpd.queue[i]
              \/ mpd'.queue[i] = [id |-> mpd.nextId, n |-> Len(songs) + 1]
    BY <1>2, <2>1, OneMoreSong
  <2>3. o.n = Len(songs) + 1 /\ "n" \in DOMAIN o
    BY DEF Offered
  <2>4. /\ DOMAIN ours = DOMAIN backend.ours \cup {mpd.nextId}
        /\ ours[mpd.nextId] = o
        /\ \A i \in DOMAIN backend.ours : i # mpd.nextId => ours[i] = backend.ours[i]
    OBVIOUS
  <2>5. DOMAIN backend' = BackendFields /\ backend'.ours = ours
    BY <1>2, <1>b DEF Shaped, BackendFields
  <2>6. mpd.nextId \in Nat \ {0}
    BY <1>b DEF Shaped
  <2>7. \A i \in DOMAIN backend.ours :
           /\ i \in Nat \ {0} /\ i < mpd.nextId /\ i # mpd.nextId
           /\ "n" \in DOMAIN backend.ours[i]
           /\ backend.ours[i].n \in DOMAIN songs /\ backend.ours[i].n # Len(songs) + 1
           /\ songs[backend.ours[i].n].answer = "none"
    <3>1. \A i \in DOMAIN backend.ours :
           /\ i \in Nat \ {0} /\ i < mpd.nextId
           /\ "n" \in DOMAIN backend.ours[i]
           /\ backend.ours[i].n \in DOMAIN songs
           /\ songs[backend.ours[i].n].answer = "none"
      BY <1>2, <1>b DEF Shaped, Holds
    <3>2. QED
      BY <2>2, <2>6, <3>1
  <2> HIDE DEF o, ours
  <2>8. Shaped'
    BY <1>b, <2>2, <2>3, <2>4, <2>5, <2>6, <2>7 DEF Shaped
  <2>9. ASSUME NEW id \in DOMAIN ours
        PROVE  /\ ours[id].n \in DOMAIN songs' /\ songs'[ours[id].n].answer = "none"
               /\ id < mpd'.nextId
               /\ \A i \in DOMAIN mpd'.queue : mpd'.queue[i].n = ours[id].n
                                                  => mpd'.queue[i].id = id
    <3>1. CASE id = mpd.nextId
      <4>1. ours[id].n = Len(songs) + 1
        BY <2>3, <2>4, <3>1
      <4>2. /\ ours[id].n \in DOMAIN songs' /\ songs'[ours[id].n].answer = "none"
            /\ id < mpd'.nextId
        BY <2>1, <2>2, <2>6, <3>1, <4>1
      <4>3. ASSUME NEW i \in DOMAIN mpd'.queue, mpd'.queue[i].n = ours[id].n
            PROVE  mpd'.queue[i].id = id
        <5>1. CASE i \in DOMAIN mpd.queue /\ mpd'.queue[i] = mpd.queue[i]
          <6>1. mpd.queue[i].n \in DOMAIN songs
            BY <1>b, <5>1 DEF Queued
          <6>2. QED
            BY <2>2, <4>1, <4>3, <5>1, <6>1
        <5>2. CASE mpd'.queue[i] = [id |-> mpd.nextId, n |-> Len(songs) + 1]
          BY <3>1, <5>2
        <5>3. QED
          BY <2>2, <5>1, <5>2
      <4>4. QED
        BY <4>2, <4>3
    <3>2. CASE id # mpd.nextId
      <4>1. id \in DOMAIN backend.ours /\ ours[id] = backend.ours[id]
        BY <2>4, <3>2
      <4>2. /\ ours[id].n \in DOMAIN songs' /\ songs'[ours[id].n].answer = "none"
            /\ id < mpd'.nextId
        BY <2>2, <2>6, <2>7, <4>1
      <4>3. ASSUME NEW i \in DOMAIN mpd'.queue, mpd'.queue[i].n = ours[id].n
            PROVE  mpd'.queue[i].id = id
        <5>1. i \in DOMAIN mpd.queue /\ mpd'.queue[i] = mpd.queue[i]
          BY <2>2, <2>7, <4>1, <4>3
        <5>2. QED
          BY <1>2, <1>b, <4>1, <4>3, <5>1 DEF Holds
      <4>4. QED
        BY <4>2, <4>3
    <3>3. QED
      BY <3>1, <3>2
  <2>10. \A id, jd \in DOMAIN ours : ours[id].n = ours[jd].n => id = jd
    <3>1. \A id, jd \in DOMAIN backend.ours : backend.ours[id].n = backend.ours[jd].n => id = jd
      BY <1>b DEF Holds
    <3>2. QED
      BY <2>3, <2>4, <2>7, <3>1
  <2>11. Holds'
    BY <2>5, <2>9, <2>10, SMTT(30) DEF Holds
  <2>12. Polling'
    BY DEF Polling
  <2>13. Held \subseteq Held'
    <3>1. \A id \in DOMAIN backend.ours : id \in DOMAIN backend'.ours
                                          /\ backend'.ours[id].n = backend.ours[id].n
      BY <2>4, <2>5, <2>7
    <3>2. QED
      BY <3>1 DEF Held
  <2>14. QED
    BY <2>2, <2>8, <2>11, <2>12, <2>13 DEF Consistent, Kept
<1>3. CASE p \in Outside
  <2>1. backend' = [backend EXCEPT !.dropped = Append(@, p)] /\ UNCHANGED <<mpd, songs>>
    BY <1>3 DEF Enqueued
  <2>2. DOMAIN backend' = BackendFields /\ backend'.ours = backend.ours
    BY <1>b, <2>1 DEF Shaped, BackendFields
  <2>3. QED
    BY <1>1, <2>1, <2>2
<1>4. CASE p \notin Outside /\ ~mpd.linked
  <2>1. backend' = [backend EXCEPT !.dropped = Append(@, p), !.lost = TRUE]
        /\ UNCHANGED <<mpd, songs>>
    BY <1>4 DEF Enqueued
  <2>2. DOMAIN backend' = BackendFields /\ backend'.ours = backend.ours
    BY <1>b, <2>1 DEF Shaped, BackendFields
  <2>3. QED
    BY <1>1, <2>1, <2>2
<1>5. CASE p \notin Outside /\ mpd.linked
  <2>1. PICK honoured \in {TRUE, (p \in Whole)} :
           LET o == Offered(Len(songs) + 1, p, honoured, FALSE, FALSE)
           IN  /\ backend' = [backend EXCEPT !.len = @ + 1,
                        !.ours = [i \in DOMAIN @ \cup {mpd.nextId} |->
                                     IF i = mpd.nextId THEN o ELSE @[i]]]
               /\ mpd' = Added(mpd)
               /\ songs' = Append(songs, NewSong(p, honoured))
    BY <1>5 DEF Enqueued
  <2>2. QED
    BY <1>2, <1>5, <2>1
<1>6. QED
  BY <1>3, <1>4, <1>5


LEMMA GivenUp ==
    ASSUME Consistent, NEW verdict, DOMAIN verdict \subseteq DOMAIN backend.ours,
           \A id \in DOMAIN verdict : verdict[id] # "none", songs' = Answered(verdict),
           DOMAIN backend' = BackendFields,
           DOMAIN backend'.ours = DOMAIN backend.ours \ DOMAIN verdict,
           \A id \in DOMAIN backend'.ours : backend'.ours[id] = backend.ours[id],
           \/ mpd' = mpd
           \/ /\ DOMAIN verdict = DOMAIN backend.ours /\ mpd.up
              /\ mpd' = [mpd EXCEPT !.linked = TRUE],
           "stage" \in DOMAIN hand', "step" \in DOMAIN poll', poll'.step = "idle"
    PROVE  Consistent' /\ Kept
<1>1. /\ \E S : songs' \in Seq(S)
      /\ DOMAIN songs' = DOMAIN songs
      /\ \A n \in DOMAIN songs' : "answer" \in DOMAIN songs'[n]
      /\ Settled \subseteq Settled'
      /\ \A id \in DOMAIN verdict : backend.ours[id].n \in Settled'
      /\ \A id \in DOMAIN backend.ours \ DOMAIN verdict :
            songs'[backend.ours[id].n].answer = "none"
  BY Retired
<1>2. /\ DOMAIN mpd' = MpdFields /\ mpd'.queue = mpd.queue /\ mpd'.nextId = mpd.nextId
      /\ mpd'.cur = mpd.cur /\ mpd'.up = mpd.up
      /\ mpd'.linked => (mpd.linked \/ (mpd.up /\ DOMAIN backend'.ours = {}))
  BY DEF Consistent, Shaped, MpdFields
<1>3. Shaped'
  BY <1>1, <1>2 DEF Consistent, Shaped
<1>4. Queued'
  BY <1>1, <1>2 DEF Consistent, Queued
<1>5. Holds'
  <2>1. ASSUME NEW id \in DOMAIN backend'.ours
        PROVE  /\ backend'.ours[id].n \in DOMAIN songs'
               /\ songs'[backend'.ours[id].n].answer = "none"
               /\ mpd'.linked =>
                     /\ id < mpd'.nextId
                     /\ \A i \in DOMAIN mpd'.queue :
                           mpd'.queue[i].n = backend'.ours[id].n => mpd'.queue[i].id = id
    <3>1. id \in DOMAIN backend.ours \ DOMAIN verdict /\ backend'.ours[id] = backend.ours[id]
      OBVIOUS
    <3>2. /\ backend.ours[id].n \in DOMAIN songs
          /\ mpd.linked =>
                     /\ id < mpd.nextId
                     /\ \A i \in DOMAIN mpd.queue :
                           mpd.queue[i].n = backend.ours[id].n => mpd.queue[i].id = id
      BY <3>1 DEF Consistent, Holds
    <3>3. QED
      BY <1>1, <1>2, <3>1, <3>2
  <2>2. \A id, jd \in DOMAIN backend'.ours :
           backend'.ours[id].n = backend'.ours[jd].n => id = jd
    BY DEF Consistent, Holds
  <2>3. QED
    BY <2>1, <2>2 DEF Holds
<1>6. Polling'
  BY DEF Polling
<1>7. Held \subseteq Held' \cup Settled'
  <2>1. ASSUME NEW id \in DOMAIN backend.ours
        PROVE  backend.ours[id].n \in Held' \cup Settled'
    <3>1. CASE id \in DOMAIN verdict
      BY <1>1, <3>1
    <3>2. CASE id \notin DOMAIN verdict
      BY <3>2 DEF Held
    <3>3. QED
      BY <3>1, <3>2
  <2>2. QED
    BY <2>1 DEF Held
<1>8. QED
  BY <1>1, <1>3, <1>4, <1>5, <1>6, <1>7 DEF Consistent, Kept

LEMMA QueuedAfter ==
    ASSUME NEW r, mpd'.queue = r, mpd'.linked => mpd'.up, mpd'.cur \in IdsIn(r) \cup {None},
           \A i \in DOMAIN r : r[i].id \in 1 .. mpd'.nextId - 1 /\ r[i].n \in DOMAIN songs',
           \A i, j \in DOMAIN r : r[i].id = r[j].id \/ r[i].n = r[j].n => i = j
    PROVE  Queued'
BY DEF Queued

LEMMA HoldsAfter ==
    ASSUME NEW r, mpd'.queue = r,
           \A id \in DOMAIN backend'.ours :
              /\ backend'.ours[id].n \in DOMAIN songs'
              /\ songs'[backend'.ours[id].n].answer = "none"
              /\ id < mpd'.nextId
              /\ \A i \in DOMAIN r : r[i].n = backend'.ours[id].n => r[i].id = id,
           \A id, jd \in DOMAIN backend'.ours :
              backend'.ours[id].n = backend'.ours[jd].n => id = jd
    PROVE  Holds'
BY DEF Holds

\* Somebody else's song is adopted: under its own number, or under a new one where
\* that was answered before MPD restarted.
LEMMA AdoptedKeeps ==
    ASSUME Consistent, mpd.linked, poll.step = "song", UNCHANGED hand,
           DOMAIN poll' = DOMAIN poll, poll'.step = "list", "step" \in DOMAIN poll,
           NEW n \in Nat,
           \E S : songs' \in Seq(S), DOMAIN songs \subseteq DOMAIN songs',
           \A m \in DOMAIN songs : songs'[m] = songs[m],
           \A m \in DOMAIN songs' : "answer" \in DOMAIN songs'[m],
           n \in DOMAIN songs', songs'[n].answer = "none",
           n = poll.n \/ n \notin DOMAIN songs,
           mpd' = [mpd EXCEPT !.queue = [i \in DOMAIN @ |->
                      IF @[i].id = poll.id THEN [@[i] EXCEPT !.n = n] ELSE @[i]]],
           DOMAIN backend' = BackendFields,
           DOMAIN backend'.ours = DOMAIN backend.ours \cup {poll.id},
           \A id \in DOMAIN backend'.ours :
              /\ "n" \in DOMAIN backend'.ours[id]
              /\ backend'.ours[id].n = IF id = poll.id THEN n ELSE backend.ours[id].n
    PROVE  Consistent' /\ Kept
<1> DEFINE q == mpd.queue
           r == [i \in DOMAIN q |-> IF q[i].id = poll.id THEN [q[i] EXCEPT !.n = n] ELSE q[i]]
<1>1. /\ poll.id \in 1 .. mpd.nextId - 1 /\ poll.id \notin DOMAIN backend.ours
      /\ poll.n \in DOMAIN songs
      /\ \A id \in DOMAIN backend.ours : backend.ours[id].n # poll.n
      /\ \A i \in DOMAIN q : q[i].n = poll.n => q[i].id = poll.id
  BY DEF Consistent, Polling
<1>2. q \in Seq(Entries) /\ Len(q) \in Nat /\ DOMAIN q = 1 .. Len(q)
      /\ \A i \in DOMAIN q : q[i] \in Entries
  BY LenProperties, ElementOfSeq DEF Consistent, Shaped
<1>3. /\ DOMAIN r = DOMAIN q
      /\ \A i \in DOMAIN q : r[i] \in Entries /\ r[i].id = q[i].id
                             /\ r[i].n = IF q[i].id = poll.id THEN n ELSE q[i].n
  BY <1>2 DEF Entries
<1>4. r \in Seq(Entries)
  <2>1. r \in [1 .. Len(q) -> Entries]
    BY <1>2, <1>3
  <2>2. QED
    BY <1>2, <2>1, SeqDef
<1>5. /\ DOMAIN mpd' = MpdFields /\ mpd'.queue = r /\ mpd'.nextId = mpd.nextId
      /\ mpd'.cur = mpd.cur /\ mpd'.up = mpd.up /\ mpd'.linked = mpd.linked
  BY DEF Consistent, Shaped, MpdFields
<1> HIDE DEF r
<1>6. Shaped'
  <2>1. mpd.nextId \in Nat \ {0} /\ \A id \in DOMAIN backend.ours : id \in Nat \ {0}
    BY DEF Consistent, Shaped
  <2>2. poll.id \in Nat \ {0}
    BY <1>1, <2>1
  <2>3. QED
    BY <1>4, <1>5, <2>1, <2>2 DEF Consistent, Shaped
<1> HIDE DEF q
<1>7. Queued'
  <2>1. /\ mpd.linked => mpd.up
        /\ mpd.cur \in IdsIn(q) \cup {None}
        /\ \A i \in DOMAIN q : q[i].id \in 1 .. mpd.nextId - 1 /\ q[i].n \in DOMAIN songs
        /\ \A i, j \in DOMAIN q : q[i].id = q[j].id \/ q[i].n = q[j].n => i = j
    BY DEF Consistent, Queued, q
  <2>2. mpd.cur \in IdsIn(r) \cup {None}
    <3>1. IdsIn(r) = IdsIn(q)
      BY <1>3 DEF IdsIn
    <3>2. QED
      BY <2>1, <3>1
  <2>3. \A i \in DOMAIN r : r[i].id \in 1 .. mpd.nextId - 1 /\ r[i].n \in DOMAIN songs'
    BY <1>3, <2>1
  <2>4. ASSUME NEW i \in DOMAIN r, NEW j \in DOMAIN r, r[i].id = r[j].id \/ r[i].n = r[j].n
        PROVE  i = j
    <3>1. CASE r[i].id = r[j].id
      BY <1>3, <2>1, <3>1
    <3>2. CASE r[i].n = r[j].n /\ q[i].id # poll.id /\ q[j].id # poll.id
      BY <1>3, <2>1, <3>2
    <3>3. CASE r[i].n = r[j].n /\ q[i].id = poll.id
      <4>1. r[j].n = n
        BY <1>3, <3>3
      <4>2. q[j].id = poll.id
        BY <1>1, <1>3, <2>1, <4>1
      <4>3. QED
        BY <1>3, <2>1, <3>3, <4>2
    <3>4. CASE r[i].n = r[j].n /\ q[j].id = poll.id
      <4>1. r[i].n = n
        BY <1>3, <3>4
      <4>2. q[i].id = poll.id
        BY <1>1, <1>3, <2>1, <4>1
      <4>3. QED
        BY <1>3, <2>1, <3>4, <4>2
    <3>5. QED
      BY <2>4, <3>1, <3>2, <3>3, <3>4
  <2>5. QED
    BY <1>5, <2>1, <2>2, <2>3, <2>4, QueuedAfter
<1>8. Holds'
  <2>1. \A id \in DOMAIN backend.ours :
           /\ backend.ours[id].n \in DOMAIN songs /\ songs[backend.ours[id].n].answer = "none"
           /\ id < mpd.nextId /\ id # poll.id /\ backend.ours[id].n # n
           /\ \A i \in DOMAIN q : q[i].n = backend.ours[id].n => q[i].id = id
    BY <1>1 DEF Consistent, Holds, q
  <2>2. ASSUME NEW id \in DOMAIN backend'.ours
        PROVE  /\ backend'.ours[id].n \in DOMAIN songs'
               /\ songs'[backend'.ours[id].n].answer = "none"
               /\ id < mpd.nextId
               /\ \A i \in DOMAIN r : r[i].n = backend'.ours[id].n => r[i].id = id
    <3>1. CASE id = poll.id
      <4>1. id < mpd.nextId
        <5>1. mpd.nextId \in Nat
          BY DEF Consistent, Shaped
        <5>2. QED
          BY <1>1, <3>1, <5>1
      <4>2. ASSUME NEW i \in DOMAIN r, r[i].n = n PROVE r[i].id = id
        <5>1. q[i].n \in DOMAIN songs
          BY <1>3 DEF Consistent, Queued, q
        <5>2. QED
          BY <1>1, <1>3, <3>1, <4>2, <5>1
      <4>3. QED
        BY <3>1, <4>1, <4>2
    <3>2. CASE id # poll.id
      <4>1. id \in DOMAIN backend.ours /\ backend'.ours[id].n = backend.ours[id].n
        BY <3>2
      <4>2. ASSUME NEW i \in DOMAIN r, r[i].n = backend.ours[id].n PROVE r[i].id = id
        BY <1>3, <2>1, <4>1, <4>2
      <4>3. QED
        BY <2>1, <4>1, <4>2
    <3>3. QED
      BY <3>1, <3>2
  <2>3. ASSUME NEW id \in DOMAIN backend'.ours, NEW jd \in DOMAIN backend'.ours,
               backend'.ours[id].n = backend'.ours[jd].n
        PROVE  id = jd
    <3>1. \A i, j \in DOMAIN backend.ours : backend.ours[i].n = backend.ours[j].n => i = j
      BY DEF Consistent, Holds
    <3>2. QED
      BY <2>1, <2>3, <3>1
  <2>4. QED
    BY <1>5, <2>2, <2>3, HoldsAfter
<1>9. Polling'
  BY DEF Polling, Consistent
<1>10. Settled \subseteq Settled'
  BY DEF Settled
<1>11. Held \subseteq Held'
  <2>1. \A id \in DOMAIN backend.ours : id \in DOMAIN backend'.ours
                                        /\ backend'.ours[id].n = backend.ours[id].n
    BY <1>1
  <2>2. QED
    BY <2>1 DEF Held
<1>12. QED
  BY <1>6, <1>7, <1>8, <1>9, <1>10, <1>11 DEF Consistent, Kept


LEMMA GuestedKeeps == ASSUME Consistent, Guested PROVE Consistent' /\ Kept
<1>a. /\ Shaped /\ Queued /\ Holds
      /\ DOMAIN mpd = MpdFields /\ DOMAIN backend = BackendFields
      /\ "stage" \in DOMAIN hand /\ "step" \in DOMAIN poll
      /\ \A id \in DOMAIN backend.ours : id \in Nat \ {0} /\ "n" \in DOMAIN backend.ours[id]
  BY DEF Consistent, Shaped
<1>b. ASSUME UNCHANGED <<poll, hand>>, SameSongs, GoesOn(mpd'),
             DOMAIN backend' = BackendFields, backend'.ours = backend.ours
      PROVE  Consistent' /\ Kept
  BY <1>a, <1>b, OursUntouched, PollUntouched, Undisturbed
<1>c. ASSUME PollOver PROVE /\ "stage" \in DOMAIN hand' /\ "step" \in DOMAIN poll'
                            /\ poll'.step = "idle"
  BY <1>a, <1>c DEF PollOver
<1>1. CASE Reconnect
  <2> DEFINE verdict == [id \in DOMAIN backend.ours \ DOMAIN backend'.ours |-> "dropped"]
  <2>1. /\ backend' = Reconnected(backend) /\ songs' = Answered(verdict)
        /\ mpd' = [mpd EXCEPT !.linked = TRUE] /\ mpd.up
        /\ UNCHANGED <<poll, hand>> /\ poll.step = "idle"
    BY <1>1 DEF Reconnect
  <2>2. DOMAIN backend' = BackendFields /\ backend'.ours = <<>>
    BY <1>a, <2>1 DEF Reconnected, BackendFields
  <2>3. DOMAIN backend'.ours = {}
    BY <2>2
  <2>4. DOMAIN verdict = DOMAIN backend.ours /\ \A id \in DOMAIN verdict : verdict[id] # "none"
    BY <2>3
  <2> HIDE DEF verdict
  <2>5. DOMAIN backend'.ours = DOMAIN backend.ours \ DOMAIN verdict
    BY <2>3, <2>4
  <2>6. QED
    BY <1>a, <2>1, <2>2, <2>3, <2>4, <2>5, GivenUp
<1>2. CASE PollStatus
  <2>1. UNCHANGED songs
    BY <1>2 DEF PollStatus
  <2>2. CASE ~mpd.linked
    <3>1. MarkLost /\ PollOver /\ UNCHANGED mpd
      BY <1>2, <2>2 DEF PollStatus
    <3>2. DOMAIN backend' = BackendFields /\ backend'.ours = backend.ours
      BY <1>a, <3>1 DEF MarkLost, BackendFields
    <3>3. SamePoll
      BY <1>c, <3>1 DEF SamePoll
    <3>4. SameSongs /\ SameOurs /\ GoesOn(mpd')
      BY <1>a, <2>1, <3>1, <3>2, SongsUntouched, OursUntouched, AsItIs
    <3>5. QED
      BY <3>3, <3>4, Undisturbed
  <2>3. CASE mpd.linked
    <3> DEFINE known == mpd.cur \in DOMAIN backend.ours
               b == [backend EXCEPT !.playing = (mpd.state = "play"), !.len = Len(mpd.queue),
                         !.head = IF known /\ mpd.state = "play"
                                  THEN [p |-> backend.ours[mpd.cur].p, at |-> mpd.at]
                                  ELSE Nobody]
    <3>1. /\ backend' = Sampled(b, mpd.cur, mpd.at)
          /\ mpd' = IF Overrun(backend', mpd.cur) THEN Consumed(mpd) ELSE mpd
          /\ poll' = [step |-> IF mpd.cur = None \/ known THEN "list" ELSE "song",
                      id |-> mpd.cur, at |-> mpd.at,
                      n |-> IF mpd.cur = None THEN None ELSE SongOf(mpd.cur)]
          /\ UNCHANGED hand
      BY <1>2, <2>3 DEF PollStatus
    <3>2. DOMAIN b = BackendFields /\ b.ours = backend.ours
      BY <1>a DEF BackendFields
    <3> HIDE DEF b
    <3>3. SameOurs
      BY <1>a, <3>1, <3>2, SampledSame DEF SameOurs
    <3>4. Overrun(backend', mpd.cur) => known /\ mpd.cur # None
      <4>1. Overrun(backend', mpd.cur) => mpd.cur \in DOMAIN backend'.ours
        BY DEF Overrun
      <4>2. QED
        BY <1>a, <3>3, <4>1 DEF SameOurs, None
    <3>5. GoesOn(mpd')
      BY <1>a, <3>1, <3>4, ConsumedGoesOn, AsItIs
    <3>6. SameSongs
      BY <1>a, <2>1, SongsUntouched
    <3>7. "stage" \in DOMAIN hand' /\ "step" \in DOMAIN poll'
          /\ hand'.stage \in {"none", "refresh", "look", "wait", "waited"}
      <4>1. hand.stage \in {"none", "refresh", "look", "wait", "waited"}
        BY <1>2 DEF PollStatus, Consistent, Polling
      <4>2. QED
        BY <1>a, <3>1, <4>1
    <3>8. CASE mpd.cur = None \/ known
      <4>1. poll'.step = "list"
        BY <3>1, <3>8
      <4>2. SamePoll
        BY <3>7, <4>1 DEF SamePoll
      <4>3. QED
        BY <3>3, <3>5, <3>6, <4>2, Undisturbed
    <3>9. CASE mpd.cur # None /\ ~known
      <4>1. mpd' = mpd /\ poll'.id = mpd.cur /\ poll'.n = SongOf(mpd.cur) /\ poll'.step = "song"
        BY <3>1, <3>4, <3>9
      <4>2. Shaped' /\ Queued' /\ Holds' /\ Kept
        BY <3>3, <3>5, <3>6, <3>7, MuchAsItWas
      <4> DEFINE i == IndexOf(mpd.queue, mpd.cur)
      <4>3. i \in DOMAIN mpd.queue /\ mpd.queue[i].id = mpd.cur
        BY <1>a, <3>9, Indexed DEF Queued
      <4>4. poll'.n = mpd.queue[i].n
        BY <4>1 DEF SongOf
      <4> HIDE DEF i
      <4>5. poll'.id \in 1 .. mpd.nextId - 1 /\ poll'.n \in DOMAIN songs
        BY <1>a, <4>1, <4>3, <4>4 DEF Queued
      <4>6. \A id \in DOMAIN backend.ours : backend.ours[id].n # poll'.n
        BY <1>a, <2>3, <3>9, <4>3, <4>4 DEF Holds
      <4>7. \A j \in DOMAIN mpd.queue : mpd.queue[j].n = poll'.n => mpd.queue[j].id = poll'.id
        BY <1>a, <4>1, <4>3, <4>4 DEF Queued
      <4>8. Polling'
        BY <2>1, <3>3, <3>7, <3>9, <4>1, <4>5, <4>6, <4>7 DEF Polling, SameOurs
      <4>9. QED
        BY <4>2, <4>8 DEF Consistent
    <3>10. QED
      BY <3>8, <3>9
  <2>4. QED
    BY <2>2, <2>3
<1>3. CASE PollSong
  <2> DEFINE adopts == mpd.linked /\ mpd.cur # None /\ songs[SongOf(mpd.cur)].p \in Whole
             again == songs[poll.n].answer # "none"
             n == IF again THEN Len(songs) + 1 ELSE poll.n
             o == Offered(n, songs[SongOf(mpd.cur)].p, TRUE, TRUE, TRUE)
             ours == [id \in DOMAIN backend.ours \cup {poll.id} |->
                         IF id = poll.id THEN o ELSE backend.ours[id]]
  <2>1. /\ poll.step = "song" /\ poll' = [poll EXCEPT !.step = "list"] /\ UNCHANGED hand
        /\ ~adopts => UNCHANGED <<mpd, backend, songs>>
        /\ adopts =>
              /\ backend' = Sampled([backend EXCEPT !.ours = ours], poll.id, poll.at)
              /\ songs' = IF again THEN Append(songs, [songs[poll.n] EXCEPT !.answer = "none"])
                          ELSE songs
              /\ mpd' = [mpd EXCEPT !.queue = [i \in DOMAIN @ |->
                            IF @[i].id = poll.id THEN [@[i] EXCEPT !.n = n] ELSE @[i]]]
    BY <1>3 DEF PollSong
  <2>2. DOMAIN poll' = DOMAIN poll /\ poll'.step = "list"
        /\ hand.stage \in {"none", "refresh", "look", "wait", "waited"}
    BY <1>a, <2>1 DEF Consistent, Polling
  <2>3. CASE ~adopts
    <3>1. SameSongs /\ SameOurs /\ GoesOn(mpd')
      BY <1>a, <2>1, <2>3, SongsUntouched, OursUntouched, AsItIs
    <3>2. SamePoll
      BY <1>a, <2>1, <2>2 DEF SamePoll
    <3>3. QED
      BY <3>1, <3>2, Undisturbed
  <2>4. CASE adopts
    <3>1. /\ poll.id \notin DOMAIN backend.ours /\ poll.n \in DOMAIN songs
      BY <2>1, <2>4 DEF Consistent, Polling
    <3>2. PICK S : songs \in Seq(S)
      BY <1>a DEF Shaped
    <3>3. Len(songs) \in Nat /\ DOMAIN songs = 1 .. Len(songs)
      BY <3>2, LenProperties
    <3>4. /\ \E T : songs' \in Seq(T)
          /\ DOMAIN songs \subseteq DOMAIN songs'
          /\ \A m \in DOMAIN songs : songs'[m] = songs[m]
          /\ \A m \in DOMAIN songs' : "answer" \in DOMAIN songs'[m]
          /\ n \in DOMAIN songs' /\ songs'[n].answer = "none" /\ n \in Nat
          /\ n = poll.n \/ n \notin DOMAIN songs
      <4>1. CASE ~again
        <5>1. songs' = songs /\ n = poll.n
          BY <2>1, <2>4, <4>1
        <5>2. songs[n].answer = "none" /\ n \in DOMAIN songs /\ n \in Nat
          BY <3>1, <3>3, <4>1, <5>1
        <5>3. \A m \in DOMAIN songs : "answer" \in DOMAIN songs[m]
          BY <1>a DEF Shaped
        <5>4. QED
          BY <3>2, <5>1, <5>2, <5>3
      <4>2. CASE again
        <5> DEFINE song == [songs[poll.n] EXCEPT !.answer = "none"]
        <5>1. "answer" \in DOMAIN song /\ song.answer = "none"
          BY <1>a, <3>1 DEF Shaped
        <5>2. songs' = Append(songs, song) /\ n = Len(songs) + 1
          BY <2>1, <2>4, <4>2
        <5> HIDE DEF song, n
        <5>3. songs \in Seq(S \cup {song})
          BY <3>2, SeqMonotonic
        <5>4. /\ songs' \in Seq(S \cup {song}) /\ Len(songs') = Len(songs) + 1
              /\ \A m \in 1 .. Len(songs) : songs'[m] = songs[m]
              /\ songs'[Len(songs) + 1] = song
          BY <5>2, <5>3, AppendProperties
        <5>5. DOMAIN songs' = 1 .. Len(songs) + 1
          BY <5>4, LenProperties
        <5>6. \A m \in DOMAIN songs' : m \in DOMAIN songs \/ m = Len(songs) + 1
          BY <3>3, <5>5
        <5>7. /\ DOMAIN songs \subseteq DOMAIN songs' /\ n \in DOMAIN songs' /\ n \in Nat
              /\ n \notin DOMAIN songs
          BY <3>3, <5>2, <5>5
        <5>8. \A m \in DOMAIN songs' : "answer" \in DOMAIN songs'[m]
          BY <1>a, <3>3, <5>1, <5>4, <5>6 DEF Shaped
        <5>9. QED
          BY <3>3, <5>1, <5>2, <5>4, <5>7, <5>8
      <4>3. QED
        BY <4>1, <4>2
    <3>5. o.n = n /\ "n" \in DOMAIN o
      BY DEF Offered
    <3>6. /\ DOMAIN ours = DOMAIN backend.ours \cup {poll.id}
          /\ \A id \in DOMAIN ours : ours[id] = IF id = poll.id THEN o ELSE backend.ours[id]
      OBVIOUS
    <3> DEFINE b == [backend EXCEPT !.ours = ours]
    <3>7. DOMAIN b = BackendFields /\ b.ours = ours
      BY <1>a DEF BackendFields
    <3>8. backend' = Sampled(b, poll.id, poll.at) /\
          mpd' = [mpd EXCEPT !.queue = [i \in DOMAIN @ |->
                    IF @[i].id = poll.id THEN [@[i] EXCEPT !.n = n] ELSE @[i]]]
      BY <2>1, <2>4
    <3>9. mpd.linked
      BY <2>4
    <3> HIDE DEF b, o, n, ours
    <3>10. \A id \in DOMAIN ours : "n" \in DOMAIN ours[id]
      BY <1>a, <3>5, <3>6
    <3>11. /\ DOMAIN backend' = BackendFields
           /\ DOMAIN backend'.ours = DOMAIN backend.ours \cup {poll.id}
           /\ \A id \in DOMAIN backend'.ours :
                 /\ "n" \in DOMAIN backend'.ours[id]
                 /\ backend'.ours[id].n = ours[id].n
      BY <3>6, <3>7, <3>8, <3>10, SampledSame
    <3>12. \A id \in DOMAIN backend'.ours :
              /\ "n" \in DOMAIN backend'.ours[id]
              /\ backend'.ours[id].n = IF id = poll.id THEN n ELSE backend.ours[id].n
      BY <3>5, <3>6, <3>11
    <3>13. QED
      BY <1>a, <2>1, <2>2, <3>4, <3>5, <3>8, <3>9, <3>11, <3>12, AdoptedKeeps
  <2>5. QED
    BY <2>3, <2>4
<1>4. CASE PollList
  <2>1. PollOver /\ UNCHANGED mpd
    BY <1>4 DEF PollList
  <2>2. CASE ~mpd.linked
    <3>1. MarkLost /\ UNCHANGED songs
      BY <1>4, <2>2 DEF PollList
    <3>2. DOMAIN backend' = BackendFields /\ backend'.ours = backend.ours
      BY <1>a, <3>1 DEF MarkLost, BackendFields
    <3>3. SamePoll
      BY <1>c, <2>1 DEF SamePoll
    <3>4. SameSongs /\ SameOurs /\ GoesOn(mpd')
      BY <1>a, <2>1, <3>1, <3>2, SongsUntouched, OursUntouched, AsItIs
    <3>5. QED
      BY <3>3, <3>4, Undisturbed
  <2>3. CASE mpd.linked
    <3> DEFINE gone == DOMAIN backend.ours \ IdsIn(mpd.queue)
               verdict == [id \in gone |-> Verdict(backend.ours[id])]
    <3>1. PICK order, dropped :
             backend' = [backend EXCEPT !.order = order,
                            !.ours = [id \in DOMAIN @ \ gone |-> @[id]],
                            !.dropped = dropped]
      BY <1>4, <2>3 DEF PollList
    <3>2. songs' = Answered(verdict)
      BY <1>4, <2>3 DEF PollList
    <3>3. /\ DOMAIN backend' = BackendFields
          /\ DOMAIN backend'.ours = DOMAIN backend.ours \ gone
          /\ \A id \in DOMAIN backend'.ours : backend'.ours[id] = backend.ours[id]
      BY <1>a, <3>1 DEF BackendFields
    <3>4. DOMAIN verdict = gone /\ gone \subseteq DOMAIN backend.ours
      OBVIOUS
    <3>5. \A id \in DOMAIN verdict : verdict[id] # "none"
      BY DEF Verdict
    <3> HIDE DEF gone, verdict
    <3>6. QED
      BY <1>c, <2>1, <3>2, <3>3, <3>4, <3>5, GivenUp
  <2>4. QED
    BY <2>2, <2>3
<1>5. CASE SessionTakes
  <2>1. /\ backend' = [backend EXCEPT !.dropped = <<>>] /\ UNCHANGED <<mpd, songs, poll, hand>>
    BY <1>5 DEF SessionTakes
  <2>2. DOMAIN backend' = BackendFields /\ backend'.ours = backend.ours
    BY <1>a, <2>1 DEF BackendFields
  <2>3. QED
    BY <1>a, <1>b, <2>1, <2>2, SongsUntouched, AsItIs
<1>6. ASSUME NEW p \in Passages, Refill(p) PROVE Consistent' /\ Kept
  BY <1>6, <1>a, EnqueuedKeeps DEF Refill, Between
<1>7. ASSUME NEW at, SeekTo(at) PROVE Consistent' /\ Kept
  <2>1. PICK id \in DOMAIN backend.ours :
          /\ id \in IdsIn(mpd.queue)
          /\ mpd' = Sought(mpd, id, at)
          /\ backend' = [backend EXCEPT !.ours[id].seen = NotSeen, !.head.at = at]
          /\ songs' = [songs EXCEPT ![SongOf(id)].through = FALSE]
    BY <1>7 DEF SeekTo
  <2>2. SameSongs
    <3>1. PICK S : songs \in Seq(S)
      BY <1>a DEF Shaped
    <3>2. DOMAIN songs = 1 .. Len(songs) /\ \A n \in DOMAIN songs : "answer" \in DOMAIN songs[n]
      BY <1>a, <3>1, LenProperties DEF Shaped
    <3>3. QED
      BY <2>1, <3>2 DEF SameSongs
  <2>3. SameOurs
    BY <1>a, <2>1 DEF SameOurs, BackendFields
  <2>4. /\ DOMAIN mpd' = MpdFields /\ mpd'.queue = mpd.queue /\ mpd'.nextId = mpd.nextId
        /\ mpd'.linked = mpd.linked /\ mpd'.up = mpd.up /\ mpd'.cur = id
    BY <1>a, <2>1 DEF Sought, MpdFields
  <2>5. GoesOn(mpd')
    BY <1>a, <2>1, <2>4, PlaysOn DEF Queued
  <2>6. SamePoll
    BY <1>7, PollUntouched DEF SeekTo
  <2>7. QED
    BY <2>2, <2>3, <2>5, <2>6, Undisturbed
<1>8. QED
  BY <1>1, <1>2, <1>3, <1>4, <1>5, <1>6, <1>7 DEF Guested

LEMMA HandoverKeeps == ASSUME Consistent, HandsOver PROVE Consistent' /\ Kept
<1>a. /\ Shaped /\ Queued
      /\ DOMAIN mpd = MpdFields /\ DOMAIN backend = BackendFields
      /\ "stage" \in DOMAIN hand /\ "step" \in DOMAIN poll
  BY DEF Consistent, Shaped
<1>b. ASSUME SamePoll, SameSongs, GoesOn(mpd'),
             DOMAIN backend' = BackendFields, backend'.ours = backend.ours
      PROVE  Consistent' /\ Kept
  BY <1>a, <1>b, OursUntouched, Undisturbed
<1>c. hand.stage \in {"read", "carry", "resume", "found"} => poll.step = "idle"
  BY DEF Consistent, Polling
<1>d. SameSongs \/ songs' # songs
  BY <1>a, SongsUntouched
<1>1. CASE HandBegins
  <2>1. PICK polls \in BOOLEAN :
          /\ hand' = [hand EXCEPT !.stage = IF polls THEN "refresh" ELSE "read",
                                  !.moved = {}, !.lost = <<>>]
          /\ poll' = IF polls THEN [poll EXCEPT !.step = "due"] ELSE poll
    BY <1>1 DEF HandBegins
  <2>2. UNCHANGED <<mpd, backend, songs>> /\ poll.step = "idle"
    BY <1>1 DEF HandBegins, Between
  <2>3. SamePoll
    BY <1>a, <2>1, <2>2 DEF SamePoll
  <2>4. QED
    BY <1>a, <1>b, <1>d, <2>2, <2>3, AsItIs
<1>2. CASE HandReads
  <2>1. /\ hand.stage = "read" /\ UNCHANGED <<mpd, poll, songs>>
        /\ backend' = IF active = "local" THEN [backend EXCEPT !.dropped = <<>>] ELSE backend
        /\ \E ids, resume : hand' = [hand EXCEPT !.stage = "carry", !.ids = ids,
                                                 !.left = DOMAIN ids, !.resume = resume]
    BY <1>2 DEF HandReads
  <2>2. DOMAIN backend' = BackendFields /\ backend'.ours = backend.ours
    BY <1>a, <2>1 DEF BackendFields
  <2>3. SamePoll
    BY <1>a, <1>c, <2>1 DEF SamePoll
  <2>4. QED
    BY <1>a, <1>b, <1>d, <2>1, <2>2, <2>3, AsItIs
<1>3. CASE HandEnqueues
  <2>1. PICK i : /\ hand.stage = "carry" /\ poll' = poll
                 /\ hand' = [hand EXCEPT !.left = @ \ {i}]
                 /\ Enqueued(hand.ids[i]) \/ UNCHANGED <<mpd, backend, songs>>
    BY <1>3 DEF HandEnqueues
  <2>2. "stage" \in DOMAIN hand' /\ poll.step = "idle"
    BY <1>a, <1>c, <2>1
  <2>3. CASE Enqueued(hand.ids[i])
    BY <2>1, <2>2, <2>3, EnqueuedKeeps
  <2>4. CASE UNCHANGED <<mpd, backend, songs>>
    BY <1>a, <1>b, <1>d, <2>1, <2>2, <2>4, AsItIs DEF SamePoll
  <2>5. QED
    BY <2>1, <2>3, <2>4
<1>4. CASE HandCarried
  <2>1. /\ hand.stage = "carry" /\ UNCHANGED <<mpd, poll, songs>>
        /\ backend' = IF active = "local" THEN [backend EXCEPT !.dropped = <<>>] ELSE backend
        /\ \E stage, moved, lost :
              hand' = [hand EXCEPT !.stage = stage, !.moved = moved, !.lost = lost]
    BY <1>4 DEF HandCarried
  <2>2. DOMAIN backend' = BackendFields /\ backend'.ours = backend.ours
    BY <1>a, <2>1 DEF BackendFields
  <2>3. SamePoll
    BY <1>a, <1>c, <2>1 DEF SamePoll
  <2>4. QED
    BY <1>a, <1>b, <1>d, <2>1, <2>2, <2>3, AsItIs
<1>5. CASE HandResumesGuest
  <2>1. hand.stage \in {"resume", "found"} /\ UNCHANGED backend
    BY <1>5 DEF HandResumesGuest
  <2>2. CASE OursInOrder # <<>>
    <3> DEFINE id == OursInOrder[1].id
    <3>1. /\ hand' = [hand EXCEPT !.stage = "wait"] /\ poll' = poll
          /\ \/ /\ id \in IdsIn(mpd.queue)
                /\ mpd' = Sought(mpd, id, hand.resume.at)
                /\ \E x : songs' = [songs EXCEPT ![SongOf(id)].seeks = x,
                                                 ![SongOf(id)].through = FALSE]
             \/ UNCHANGED <<mpd, songs>>
      BY <1>5, <2>2 DEF HandResumesGuest
    <3> HIDE DEF id
    <3>2. SamePoll
      BY <1>a, <1>c, <2>1, <3>1 DEF SamePoll
    <3>3. CASE UNCHANGED <<mpd, songs>>
      BY <1>a, <1>b, <1>d, <2>1, <3>2, <3>3, AsItIs
    <3>4. CASE /\ id \in IdsIn(mpd.queue)
               /\ mpd' = Sought(mpd, id, hand.resume.at)
               /\ \E x : songs' = [songs EXCEPT ![SongOf(id)].seeks = x,
                                                ![SongOf(id)].through = FALSE]
      <4>1. SameSongs
        <5>1. PICK S : songs \in Seq(S)
          BY <1>a DEF Shaped
        <5>2. /\ DOMAIN songs = 1 .. Len(songs)
              /\ \A n \in DOMAIN songs : "answer" \in DOMAIN songs[n]
          BY <1>a, <5>1, LenProperties DEF Shaped
        <5>3. PICK x : songs' = [songs EXCEPT ![SongOf(id)].seeks = x,
                                              ![SongOf(id)].through = FALSE]
          BY <3>4
        <5>4. QED
          BY <5>2, <5>3 DEF SameSongs
      <4>2. /\ DOMAIN mpd' = MpdFields /\ mpd'.queue = mpd.queue /\ mpd'.nextId = mpd.nextId
            /\ mpd'.linked = mpd.linked /\ mpd'.up = mpd.up /\ mpd'.cur = id
        BY <1>a, <3>4 DEF Sought, MpdFields
      <4>3. GoesOn(mpd')
        BY <1>a, <3>4, <4>2, PlaysOn DEF Queued
      <4>4. QED
        BY <1>a, <1>b, <2>1, <3>2, <4>1, <4>3
    <3>5. QED
      BY <3>1, <3>3, <3>4
  <2>3. CASE OursInOrder = <<>>
    <3>1. /\ hand' = [hand EXCEPT !.stage = IF @ = "resume" THEN "look" ELSE "wait"]
          /\ poll' = IF hand.stage = "resume" THEN [poll EXCEPT !.step = "due"] ELSE poll
          /\ UNCHANGED <<mpd, songs>>
      BY <1>5, <2>3 DEF HandResumesGuest
    <3>2. SamePoll
      BY <1>a, <1>c, <2>1, <3>1 DEF SamePoll
    <3>3. QED
      BY <1>a, <1>b, <1>d, <2>1, <3>1, <3>2, AsItIs
  <2>4. QED
    BY <2>2, <2>3
<1>6. CASE HandResumesLocal
  <2>1. /\ hand.stage = "resume" /\ UNCHANGED <<mpd, backend, poll, songs>>
        /\ hand' = [hand EXCEPT !.stage = "wait"]
    BY <1>6 DEF HandResumesLocal
  <2>2. SamePoll
    BY <1>a, <1>c, <2>1 DEF SamePoll
  <2>3. QED
    BY <1>a, <1>b, <1>d, <2>1, <2>2, AsItIs
<1>7. CASE HandFlips
  <2>1. /\ poll.step = "idle" /\ UNCHANGED <<poll, songs>>
        /\ hand' = [hand EXCEPT !.stage = "none"]
        /\ backend' = backend \/ backend' = [backend EXCEPT !.playing = FALSE]
        /\ mpd' = mpd \/ mpd' = [mpd EXCEPT !.state = "stop", !.at = 0]
    BY <1>7 DEF HandFlips
  <2>2. DOMAIN backend' = BackendFields /\ backend'.ours = backend.ours
    BY <1>a, <2>1 DEF BackendFields
  <2>3. SamePoll
    BY <1>a, <2>1 DEF SamePoll
  <2>4. /\ DOMAIN mpd' = MpdFields /\ mpd'.queue = mpd.queue /\ mpd'.nextId = mpd.nextId
        /\ mpd'.linked = mpd.linked /\ mpd'.up = mpd.up /\ mpd'.cur = mpd.cur
    BY <1>a, <2>1 DEF MpdFields
  <2>5. GoesOn(mpd')
    BY <1>a, <2>4, PlaysOn DEF Queued
  <2>6. QED
    BY <1>b, <1>d, <2>1, <2>2, <2>3, <2>5
<1>8. QED
  BY <1>1, <1>2, <1>3, <1>4, <1>5, <1>6, <1>7 DEF HandsOver

LEMMA StepKeeps == ASSUME Consistent, [Next]_vars PROVE Consistent' /\ Kept
<1>a. Shaped /\ Queued
  BY DEF Consistent
<1>1. ASSUME UNCHANGED <<mpd, backend, poll, hand, songs>> PROVE Consistent' /\ Kept
  <2>1. SameSongs /\ SameOurs /\ SamePoll /\ GoesOn(mpd')
    BY <1>a, <1>1, SongsUntouched, OursUntouched, PollUntouched, AsItIs DEF Shaped
  <2>2. QED
    BY <2>1, Undisturbed
<1>2. CASE UNCHANGED vars
  BY <1>1, <1>2 DEF vars
<1>3. CASE LocalPlays \/ LocalAdmits
  BY <1>1, <1>3 DEF LocalPlays, LocalAdmits
<1>4. QED
  BY <1>2, <1>3, WorldKeeps, GuestedKeeps, HandoverKeeps DEF Next

(* Every offering the MPD guest takes is held until it is answered, and is *)
(* answered once, whatever clients of MPD's own do to its queue between    *)
(* the round trips of a poll, however often MPD dies and comes back with   *)
(* its songs numbered afresh, and however often the music is handed over:  *)
(* the guest implements the abstract specification of a backend.           *)
THEOREM GuestAnswers == Spec => OneAnswerEach
<1>a. ASSUME Consistent
      PROVE  Held \cap Settled = {}
  BY <1>a DEF Consistent, Holds, Held, Settled
<1>1. Init => Consistent
  BY InitConsistent
<1>2. Consistent /\ [Next]_vars => Consistent'
  BY StepKeeps
<1>3. Init => A!Init
  BY DEF Init, A!Init
<1>4. Consistent /\ Consistent' /\ [Next]_vars => [A!Step]_<<Held, Settled>>
  <2>1. SUFFICES ASSUME Consistent, Consistent', [Next]_vars PROVE A!Step
    OBVIOUS
  <2>2. Kept /\ Held' \cap Settled' = {}
    <3>1. Kept
      BY <2>1, StepKeeps
    <3>2. Held' \cap Settled' = {}
      BY <2>1 DEF Consistent, Holds, Held, Settled
    <3>3. QED
      BY <3>1, <3>2
  <2>3. QED
    BY <2>2 DEF Kept, A!Step, A!Apart, Held, Settled
<1>5. QED
  BY <1>1, <1>2, <1>3, <1>4, PTL DEF Spec, OneAnswerEach, A!Spec, Held, Settled


-----------------------------------------------------------------------------
(* The second invariant: that what is credited as heard is what sounded.    *)

SongFields == {"p", "bounded", "sounded", "seeks", "through", "answer"}
OfferedFields == {"n", "p", "heard", "furthest", "seen", "honoured", "current", "byPerson"}

SongsTyped(ss) ==
    \A n \in DOMAIN ss : /\ DOMAIN ss[n] = SongFields
                         /\ ss[n].sounded \in Nat /\ ss[n].seeks \in Nat

\* Wherever a position is kept, it is one in a song.
Positions == 0 .. Span + 1

OursTyped(ours) ==
    \A id \in DOMAIN ours : /\ DOMAIN ours[id] = OfferedFields
                            /\ ours[id].heard \in Nat /\ ours[id].seen \in Positions \cup {NotSeen}

\* What may be credited of a song.
SoundedIn(ss, n) == ss[n].sounded + SampleStep * ss[n].seeks

\* What a sample would credit of the way between two positions.
Way(from, at) == IF at < from THEN 0
                 ELSE IF at - from > SampleStep THEN SampleStep ELSE at - from

HeadFields == {"p", "at"}
PollFields == {"step", "id", "n", "at"}
LocalFields == {"head", "queue", "resume"}
HandFields == {"stage", "ids", "left", "resume", "moved", "lost"}

Placed ==
    /\ mpd.at \in Positions
    /\ DOMAIN poll = PollFields /\ poll.at \in Positions
    /\ DOMAIN backend.head = HeadFields /\ backend.head.at \in Positions
    /\ DOMAIN local = LocalFields /\ local.resume \in Positions
    /\ DOMAIN local.head = HeadFields /\ local.head.at \in Positions
    /\ DOMAIN hand = HandFields
    /\ DOMAIN hand.resume = HeadFields /\ hand.resume.at \in Positions

\* An identifier the backend knows is, in MPD's queue, the song it stands for;
\* and so is the one a poll asks about.
Named ==
    mpd.linked =>
        \A i \in DOMAIN mpd.queue :
            /\ mpd.queue[i].id \in DOMAIN backend.ours
                  => mpd.queue[i].n = backend.ours[mpd.queue[i].id].n
            /\ poll.step = "song" /\ mpd.queue[i].id = poll.id => mpd.queue[i].n = poll.n

\* Neither what is credited, nor what the next sample of the song that plays would
\* add to it, is more than sounded; nor is what the first sample of a song a poll
\* is about to adopt would be, once another has followed.
Truthful ==
    /\ \A id \in DOMAIN backend.ours :
          backend.ours[id].heard <= SoundedIn(songs, backend.ours[id].n)
    /\ mpd.linked =>
          \A id \in DOMAIN backend.ours : id = mpd.cur =>
              backend.ours[id].heard + Credit(backend.ours[id], mpd.at)
                  <= SoundedIn(songs, backend.ours[id].n)
    /\ mpd.linked /\ poll.step = "song" /\ mpd.cur = poll.id =>
          Way(poll.at, mpd.at) <= SoundedIn(songs, poll.n)

Honest == SongsTyped(songs) /\ OursTyped(backend.ours) /\ Placed /\ Named /\ Truthful

-----------------------------------------------------------------------------
(* What a sample credits.                                                   *)

LEMMA PositionsAreNat == Positions \subseteq Nat
BY SpanAssumption DEF Positions

LEMMA StartIsAPosition == 0 \in Positions
BY SpanAssumption DEF Positions

LEMMA WayBounds ==
    ASSUME NEW from \in Nat, NEW at \in Nat
    PROVE  /\ Way(from, at) \in Nat /\ Way(from, at) <= SampleStep
           /\ Way(from, at + 1) <= Way(from, at) + 1
           /\ Way(from, 0) = 0 /\ Way(from, from) = 0
BY DEF Way, SampleStep

LEMMA CreditBounds ==
    ASSUME NEW o, o.seen \in Nat \cup {NotSeen}, NEW at \in Nat
    PROVE  /\ Credit(o, at) \in Nat /\ Credit(o, at) <= SampleStep
           /\ Credit(o, at + 1) <= Credit(o, at) + 1
           /\ Credit(o, 0) = 0
           /\ o.seen = NotSeen => Credit(o, at) = 0
           /\ o.seen = at => Credit(o, at) = 0
           /\ o.seen # NotSeen => o.seen \in Nat /\ Credit(o, at) = Way(o.seen, at)
<1>1. CASE o.seen = NotSeen
  BY <1>1 DEF Credit, SampleStep
<1>2. CASE o.seen # NotSeen
  <2>1. o.seen \in Nat
    BY <1>2
  <2>2. \A a \in Nat : Credit(o, a) = Way(o.seen, a)
    BY <1>2 DEF Credit, Way
  <2>3. at + 1 \in Nat /\ 0 \in Nat
    OBVIOUS
  <2>4. QED
    BY <1>2, <2>1, <2>2, <2>3, WayBounds
<1>3. QED
  BY <1>1, <1>2

LEMMA SoundedIsNat ==
    ASSUME NEW ss, SongsTyped(ss), NEW n \in DOMAIN ss
    PROVE  SoundedIn(ss, n) \in Nat
BY DEF SongsTyped, SoundedIn, SampleStep

\* The song under an identifier is the one the backend and the poll know it by.
LEMMA Knows ==
    ASSUME Consistent, Honest, mpd.linked, NEW id \in IdsIn(mpd.queue)
    PROVE  /\ SongOf(id) \in DOMAIN songs
           /\ id \in DOMAIN backend.ours => SongOf(id) = backend.ours[id].n
           /\ poll.step = "song" /\ id = poll.id => SongOf(id) = poll.n
<1> DEFINE i == IndexOf(mpd.queue, id)
<1>1. i \in DOMAIN mpd.queue /\ mpd.queue[i].id = id /\ SongOf(id) = mpd.queue[i].n
  BY Indexed DEF SongOf
<1> HIDE DEF i
<1>2. mpd.queue[i].n \in DOMAIN songs
  BY <1>1 DEF Consistent, Queued
<1>3. QED
  BY <1>1, <1>2 DEF Honest, Named

LEMMA SongThere ==
    ASSUME Consistent, NEW id \in IdsIn(mpd.queue)
    PROVE  SongOf(id) \in DOMAIN songs
BY Indexed DEF SongOf, Consistent, Queued

-----------------------------------------------------------------------------
(* Steps that credit nothing.                                               *)

Grown ==
    /\ SongsTyped(songs')
    /\ \A n \in DOMAIN songs : /\ n \in DOMAIN songs'
                               /\ SoundedIn(songs', n) >= SoundedIn(songs, n)

NothingCredited ==
    \A id \in DOMAIN backend'.ours :
        /\ id \in DOMAIN backend.ours /\ DOMAIN backend'.ours[id] = OfferedFields
        /\ backend'.ours[id].n = backend.ours[id].n
        /\ backend'.ours[id].heard = backend.ours[id].heard
        /\ backend'.ours[id].seen \in {backend.ours[id].seen, NotSeen}

\* MPD's position is where it was, or at a beginning, or one unit further with a
\* unit sounded, or was moved by somebody; or no sample will tell.
Followed ==
    mpd'.linked =>
        /\ mpd.linked /\ Within(mpd.queue, mpd'.queue)
        /\ \/ mpd'.at = 0
           \/ mpd'.cur = mpd.cur /\ mpd'.at = mpd.at
           \/ /\ mpd'.cur = mpd.cur /\ mpd'.at = mpd.at + 1 /\ mpd.cur \in IdsIn(mpd.queue)
              /\ SoundedIn(songs', SongOf(mpd.cur)) >= SoundedIn(songs, SongOf(mpd.cur)) + 1
           \/ /\ mpd'.cur \in IdsIn(mpd.queue)
              /\ SoundedIn(songs', SongOf(mpd'.cur))
                    >= SoundedIn(songs, SongOf(mpd'.cur)) + SampleStep
           \/ /\ mpd'.cur \in DOMAIN backend'.ours => backend'.ours[mpd'.cur].seen = NotSeen
              /\ poll'.step # "song"

LEMMA StillNamed ==
    ASSUME Named, NothingCredited, poll'.step = "song" => poll' = poll,
           mpd'.linked => mpd.linked /\ Within(mpd.queue, mpd'.queue)
    PROVE  Named'
<1> SUFFICES ASSUME mpd'.linked, NEW k \in DOMAIN mpd'.queue
             PROVE  /\ mpd'.queue[k].id \in DOMAIN backend'.ours
                          => mpd'.queue[k].n = backend'.ours[mpd'.queue[k].id].n
                    /\ poll'.step = "song" /\ mpd'.queue[k].id = poll'.id
                          => mpd'.queue[k].n = poll'.n
  BY DEF Named
<1>1. PICK f \in [DOMAIN mpd'.queue -> DOMAIN mpd.queue] :
         \A j \in DOMAIN mpd'.queue : mpd'.queue[j] = mpd.queue[f[j]]
  BY DEF Within
<1>2. f[k] \in DOMAIN mpd.queue /\ mpd'.queue[k] = mpd.queue[f[k]]
  BY <1>1
<1>3. QED
  BY <1>2 DEF Named, NothingCredited

LEMMA StillTruthful ==
    ASSUME Consistent, Honest, Grown, NothingCredited, Followed,
           poll'.step = "song" => poll' = poll, mpd'.at \in Nat
    PROVE  Truthful'
<1>0. /\ SongsTyped(songs) /\ SongsTyped(songs') /\ OursTyped(backend.ours) /\ Truthful
      /\ mpd.at \in Nat /\ poll.at \in Nat
  BY PositionsAreNat DEF Honest, Grown, Placed
<1>1. ASSUME NEW id \in DOMAIN backend'.ours
      PROVE  /\ backend'.ours[id].heard <= SoundedIn(songs', backend'.ours[id].n)
             /\ mpd'.linked /\ id = mpd'.cur =>
                  backend'.ours[id].heard + Credit(backend'.ours[id], mpd'.at)
                      <= SoundedIn(songs', backend'.ours[id].n)
  <2> DEFINE o == backend.ours[id]
             r == backend'.ours[id]
             had == SoundedIn(songs, o.n)
             has == SoundedIn(songs', o.n)
  <2>1. /\ id \in DOMAIN backend.ours /\ r.n = o.n /\ r.heard = o.heard
        /\ r.seen \in {o.seen, NotSeen} /\ o.heard \in Nat /\ o.seen \in Nat \cup {NotSeen}
    BY <1>0, PositionsAreNat DEF NothingCredited, OursTyped
  <2>2. o.n \in DOMAIN songs /\ o.n \in DOMAIN songs' /\ has >= had
    BY <2>1 DEF Consistent, Holds, Grown
  <2>3. had \in Nat /\ has \in Nat /\ o.heard <= had
    BY <1>0, <2>1, <2>2, SoundedIsNat DEF Truthful
  <2>4. ASSUME mpd'.linked, id = mpd'.cur
        PROVE  r.heard + Credit(r, mpd'.at) <= has
    <3>1. /\ Credit(r, mpd'.at) \in Nat /\ Credit(r, mpd'.at) <= SampleStep
          /\ Credit(r, 0) = 0 /\ (r.seen = NotSeen => Credit(r, mpd'.at) = 0)
      BY <2>1, CreditBounds
    <3>2. Credit(o, mpd.at) \in Nat /\ Credit(o, mpd.at + 1) <= Credit(o, mpd.at) + 1
          /\ Credit(o, mpd.at + 1) \in Nat
      <4>1. mpd.at + 1 \in Nat
        BY <1>0
      <4>2. QED
        BY <1>0, <2>1, <4>1, CreditBounds
    <3>3. r.seen = o.seen => \A a : Credit(r, a) = Credit(o, a)
      BY DEF Credit
    <3>4. id = mpd.cur => o.heard + Credit(o, mpd.at) <= had
      BY <1>0, <2>1, <2>4 DEF Truthful, Followed
    <3> HIDE DEF o, r, had, has
    <3>5. CASE Credit(r, mpd'.at) = 0
      BY <2>1, <2>2, <2>3, <3>5
    <3>6. CASE r.seen = o.seen /\ mpd'.at = 0
      BY <3>1, <3>5, <3>6
    <3>7. CASE r.seen = o.seen /\ mpd'.cur = mpd.cur /\ mpd'.at = mpd.at
      <4>1. Credit(r, mpd'.at) = Credit(o, mpd.at)
        BY <3>3, <3>7
      <4>2. QED
        BY <2>1, <2>2, <2>3, <2>4, <3>2, <3>4, <3>7, <4>1
    <3>8. CASE /\ r.seen = o.seen /\ mpd'.cur = mpd.cur /\ mpd'.at = mpd.at + 1
               /\ mpd.cur \in IdsIn(mpd.queue)
               /\ SoundedIn(songs', SongOf(mpd.cur)) >= SoundedIn(songs, SongOf(mpd.cur)) + 1
      <4>1. SongOf(mpd.cur) = o.n
        BY <2>1, <2>4, <3>8, Knows DEF o, Followed
      <4>2. has >= had + 1
        BY <3>8, <4>1 DEF had, has
      <4>3. Credit(r, mpd'.at) <= Credit(o, mpd.at) + 1
        BY <3>2, <3>3, <3>8
      <4>4. QED
        BY <2>1, <2>3, <2>4, <3>1, <3>2, <3>4, <3>8, <4>2, <4>3
    <3>9. CASE /\ mpd'.cur \in IdsIn(mpd.queue)
               /\ SoundedIn(songs', SongOf(mpd'.cur))
                     >= SoundedIn(songs, SongOf(mpd'.cur)) + SampleStep
      <4>1. SongOf(mpd'.cur) = o.n
        BY <2>1, <2>4, <3>9, Knows DEF o, Followed
      <4>2. has >= had + SampleStep /\ SampleStep = 2
        BY <3>9, <4>1 DEF had, has, SampleStep
      <4>3. QED
        BY <2>1, <2>3, <3>1, <4>2
    <3>10. CASE r.seen = NotSeen
      BY <3>1, <3>5, <3>10
    <3>11. r.seen = o.seen \/ r.seen = NotSeen
      BY <2>1
    <3>12. /\ r = backend'.ours[mpd'.cur] /\ mpd'.cur \in DOMAIN backend'.ours
      BY <2>4 DEF r
    <3>13. QED
      BY <2>4, <3>6, <3>7, <3>8, <3>9, <3>10, <3>11, <3>12 DEF Followed
  <2>5. QED
    BY <2>1, <2>2, <2>3, <2>4
<1>2. ASSUME mpd'.linked, poll'.step = "song", mpd'.cur = poll'.id
      PROVE  Way(poll'.at, mpd'.at) <= SoundedIn(songs', poll'.n)
  <2> DEFINE had == SoundedIn(songs, poll.n)
             has == SoundedIn(songs', poll.n)
  <2>1. poll' = poll /\ poll.step = "song" /\ mpd.linked /\ mpd'.cur = poll.id
    BY <1>2 DEF Followed
  <2>2. poll.n \in DOMAIN songs /\ poll.n \in DOMAIN songs' /\ has >= had
    BY <2>1 DEF Consistent, Polling, Grown
  <2>3. had \in Nat /\ has \in Nat
    BY <1>0, <2>2, SoundedIsNat
  <2>4. /\ Way(poll.at, mpd'.at) \in Nat /\ Way(poll.at, mpd'.at) <= SampleStep
        /\ Way(poll.at, 0) = 0 /\ Way(poll.at, mpd.at) \in Nat
        /\ Way(poll.at, mpd.at + 1) <= Way(poll.at, mpd.at) + 1
    BY <1>0, WayBounds
  <2>5. mpd.cur = poll.id => Way(poll.at, mpd.at) <= had
    BY <1>0, <2>1 DEF Truthful
  <2> SUFFICES Way(poll.at, mpd'.at) <= has
    BY <2>1
  <2> HIDE DEF had, has
  <2>6. CASE mpd'.at = 0
    BY <2>3, <2>4, <2>6
  <2>7. CASE mpd'.cur = mpd.cur /\ mpd'.at = mpd.at
    BY <2>1, <2>2, <2>3, <2>4, <2>5, <2>7
  <2>8. CASE /\ mpd'.cur = mpd.cur /\ mpd'.at = mpd.at + 1 /\ mpd.cur \in IdsIn(mpd.queue)
             /\ SoundedIn(songs', SongOf(mpd.cur)) >= SoundedIn(songs, SongOf(mpd.cur)) + 1
    <3>1. SongOf(mpd.cur) = poll.n
      BY <2>1, <2>8, Knows
    <3>2. has >= had + 1
      BY <2>8, <3>1 DEF had, has
    <3>3. Way(poll.at, mpd'.at) <= Way(poll.at, mpd.at) + 1
      BY <2>4, <2>8
    <3>4. QED
      BY <2>1, <2>3, <2>4, <2>5, <2>8, <3>2, <3>3
  <2>9. CASE /\ mpd'.cur \in IdsIn(mpd.queue)
             /\ SoundedIn(songs', SongOf(mpd'.cur))
                   >= SoundedIn(songs, SongOf(mpd'.cur)) + SampleStep
    <3>1. SongOf(mpd'.cur) = poll.n
      BY <2>1, <2>9, Knows
    <3>2. has >= had + SampleStep /\ SampleStep = 2
      BY <2>9, <3>1 DEF had, has, SampleStep
    <3>3. QED
      BY <2>3, <2>4, <3>2
  <2>10. QED
    BY <1>2, <2>6, <2>7, <2>8, <2>9 DEF Followed
<1>3. QED
  BY <1>1, <1>2 DEF Truthful

LEMMA Onwards ==
    ASSUME Consistent, Honest, Grown, NothingCredited, Followed,
           poll'.step = "song" => poll' = poll, Placed'
    PROVE  Honest'
<1>1. Truthful'
  <2>1. mpd'.at \in Nat
    BY PositionsAreNat DEF Placed
  <2>2. QED
    BY <2>1, StillTruthful
<1>2. Named'
  BY StillNamed DEF Honest, Followed
<1>3. OursTyped(backend'.ours)
  BY DEF Honest, OursTyped, NothingCredited
<1>4. QED
  BY <1>1, <1>2, <1>3 DEF Honest, Grown

LEMMA SameGrown == ASSUME Honest, songs' = songs PROVE Grown
<1>1. \A n \in DOMAIN songs : SoundedIn(songs, n) \in Nat
  BY SoundedIsNat DEF Honest
<1>2. QED
  BY <1>1 DEF Honest, Grown

\* Answers are no sound.
LEMMA AnsweredGrown ==
    ASSUME Honest, NEW verdict, songs' = Answered(verdict)
    PROVE  Grown
<1>1. /\ DOMAIN songs' = DOMAIN songs
      /\ \A n \in DOMAIN songs : \/ songs'[n] = songs[n]
                                 \/ \E a : songs'[n] = [songs[n] EXCEPT !.answer = a]
  BY DEF Answered
<1>2. ASSUME NEW n \in DOMAIN songs
      PROVE  /\ DOMAIN songs'[n] = SongFields /\ songs'[n].sounded = songs[n].sounded
             /\ songs'[n].seeks = songs[n].seeks
  <2>1. DOMAIN songs[n] = SongFields
    BY DEF Honest, SongsTyped
  <2>2. QED
    BY <1>1, <2>1 DEF SongFields
<1>3. SongsTyped(songs')
  BY <1>1, <1>2 DEF Honest, SongsTyped
<1>4. \A n \in DOMAIN songs : SoundedIn(songs', n) = SoundedIn(songs, n)
                              /\ SoundedIn(songs, n) \in Nat
  BY <1>2, SoundedIsNat DEF Honest, SoundedIn
<1>5. QED
  BY <1>1, <1>3, <1>4 DEF Grown

\* One song sounds, or is sought in.
LEMMA OneGrown ==
    ASSUME Honest, NEW n \in DOMAIN songs, NEW more \in Nat, NEW through,
           \/ songs' = [songs EXCEPT ![n].sounded = @ + more, ![n].through = through]
           \/ songs' = [songs EXCEPT ![n].seeks = @ + more, ![n].through = through]
           \/ songs' = [songs EXCEPT ![n].through = through]
    PROVE  Grown
<1>1. DOMAIN songs' = DOMAIN songs /\ \A k \in DOMAIN songs : k # n => songs'[k] = songs[k]
  OBVIOUS
<1>2. /\ DOMAIN songs[n] = SongFields /\ songs[n].sounded \in Nat /\ songs[n].seeks \in Nat
  BY DEF Honest, SongsTyped
<1>3. /\ DOMAIN songs'[n] = SongFields
      /\ songs'[n].sounded \in {songs[n].sounded, songs[n].sounded + more}
      /\ songs'[n].seeks \in {songs[n].seeks, songs[n].seeks + more}
  BY <1>2 DEF SongFields
<1>4. songs'[n].sounded \in Nat /\ songs'[n].sounded >= songs[n].sounded
      /\ songs'[n].seeks \in Nat /\ songs'[n].seeks >= songs[n].seeks
  BY <1>2, <1>3
<1>5. SoundedIn(songs', n) >= SoundedIn(songs, n)
  BY <1>2, <1>4 DEF SoundedIn, SampleStep
<1>6. \A k \in DOMAIN songs : k # n => SoundedIn(songs', k) = SoundedIn(songs, k)
                                       /\ SoundedIn(songs, k) \in Nat
  BY <1>1, SoundedIsNat DEF Honest, SoundedIn
<1>7. SongsTyped(songs')
  BY <1>1, <1>3, <1>4 DEF Honest, SongsTyped
<1>8. QED
  BY <1>1, <1>5, <1>6, <1>7 DEF Grown

LEMMA OursKept ==
    ASSUME Honest, backend'.ours = backend.ours
    PROVE  NothingCredited
BY DEF Honest, OursTyped, NothingCredited

-----------------------------------------------------------------------------
(* Every position is one in a song.                                         *)

LEMMA ConsumedAt ==
    ASSUME Shaped
    PROVE  Consumed(mpd).at = 0 /\ Consumed(mpd).linked = mpd.linked
<1> DEFINE i == IndexOf(mpd.queue, mpd.cur)
           rest == RemoveAt(mpd.queue, i)
<1>1. Consumed(mpd) =
         IF i <= Len(rest) THEN [mpd EXCEPT !.queue = rest, !.cur = rest[i].id, !.at = 0]
         ELSE [mpd EXCEPT !.queue = rest, !.cur = None, !.at = 0, !.state = "stop"]
  BY DEF Consumed
<1> HIDE DEF i, rest
<1>2. QED
  BY <1>1 DEF Shaped, MpdFields

LEMMA SampledHead ==
    ASSUME NEW b, DOMAIN b = BackendFields, NEW id, NEW at
    PROVE  Sampled(b, id, at).head = b.head
<1>1. CASE id \notin DOMAIN b.ours \/ ~b.playing
  BY <1>1 DEF Sampled, BackendFields
<1>2. CASE id \in DOMAIN b.ours /\ b.playing
  <2>1. PICK x, y : Sampled(b, id, at) =
           [b EXCEPT !.ours[id].current = TRUE, !.ours[id].seen = at,
                     !.ours[id].heard = x, !.ours[id].furthest = y]
    BY <1>2 DEF Sampled
  <2>2. QED
    BY <2>1 DEF BackendFields
<1>3. QED
  BY <1>1, <1>2

LEMMA ElsewherePlaced ==
    ASSUME Placed, mpd'.at \in Positions, DOMAIN backend'.head = HeadFields, backend'.head.at \in Positions,
           UNCHANGED <<poll, local, hand>>
    PROVE  Placed'
BY DEF Placed

LEMMA PollPlaced ==
    ASSUME Placed, PollOver
    PROVE  /\ DOMAIN poll' = PollFields /\ poll'.at = 0
           /\ DOMAIN hand' = HandFields /\ hand'.resume = hand.resume
BY DEF Placed, PollOver, PollFields, HandFields

LEMMA ReturnsAt ==
    ASSUME DOMAIN mpd = MpdFields, MpdReturns
    PROVE  mpd'.at = mpd.at /\ mpd'.linked = mpd.linked
<1>1. PICK state \in {mpd.state, "pause"} :
        mpd' = [mpd EXCEPT !.up = TRUE, !.nextId = Len(mpd.queue) + 1,
                    !.queue = [i \in DOMAIN mpd.queue |-> [id |-> i, n |-> mpd.queue[i].n]],
                    !.cur = IF mpd.cur = None THEN None ELSE IndexOf(mpd.queue, mpd.cur),
                    !.state = IF mpd.cur = None THEN "stop" ELSE state]
  BY DEF MpdReturns
<1>2. QED
  BY <1>1 DEF MpdFields

LEMMA WorldPlaced == ASSUME Shaped, Placed, World PROVE Placed'
<1>1. UNCHANGED <<backend, poll, local, hand>>
  BY DEF World, MpdPlays, MpdDies, MpdReturns, ClientPlaysOrPauses, ClientAdds,
         ClientDeletes, ClientSeeks
<1>a. DOMAIN mpd = MpdFields /\ mpd.at \in Positions
  BY DEF Shaped, Placed
<1>2. mpd'.at \in Positions
  <2>1. CASE MpdPlays
    <3> DEFINE n == SongOf(mpd.cur)
    <3>1. \/ mpd.at + 1 < LengthOf(n) /\ mpd' = [mpd EXCEPT !.at = @ + 1]
          \/ mpd' = Consumed(mpd)
      BY <2>1 DEF MpdPlays
    <3>2. LengthOf(n) \in {Span, Span + 2}
      BY DEF LengthOf
    <3> HIDE DEF n
    <3>3. mpd.at + 1 < LengthOf(n) => mpd.at + 1 \in Positions
      BY <1>a, <3>2, SpanAssumption DEF Positions
    <3>4. QED
      BY <1>a, <3>1, <3>3, ConsumedAt, StartIsAPosition DEF MpdFields
  <2>2. CASE MpdDies
    BY <1>a, <2>2 DEF MpdDies, MpdFields
  <2>3. CASE MpdReturns
    BY <1>a, <2>3, ReturnsAt
  <2>4. CASE ClientPlaysOrPauses
    <3>1. \/ mpd' = [mpd EXCEPT !.state = "pause"] \/ mpd' = [mpd EXCEPT !.state = "play"]
          \/ mpd' = [mpd EXCEPT !.cur = mpd.queue[1].id, !.at = 0, !.state = "play"]
      BY <2>4 DEF ClientPlaysOrPauses, Sought
    <3>2. mpd'.at \in {0, mpd.at}
      BY <1>a, <3>1 DEF MpdFields
    <3>3. QED
      BY <1>a, <3>2, StartIsAPosition
  <2>5. ASSUME NEW p, ClientAdds(p) PROVE mpd'.at \in Positions
    BY <1>a, <2>5 DEF ClientAdds, Added, MpdFields
  <2>6. ASSUME NEW id, ClientDeletes(id) PROVE mpd'.at \in Positions
    <3>1. mpd' = Removed(mpd, id)
      BY <2>6 DEF ClientDeletes
    <3>2. CASE id = mpd.cur
      BY <3>1, <3>2, ConsumedAt, StartIsAPosition DEF Removed
    <3>3. CASE id # mpd.cur
      BY <1>a, <3>1, <3>3 DEF Removed, MpdFields
    <3>4. QED
      BY <3>2, <3>3
  <2>7. ASSUME NEW at \in {0, Span - 1}, ClientSeeks(at) PROVE mpd'.at \in Positions
    BY <1>a, <2>7, SpanAssumption DEF ClientSeeks, MpdFields, Positions
  <2>8. QED
    BY <2>1, <2>2, <2>3, <2>4, <2>5, <2>6, <2>7 DEF World
<1>3. QED
  BY <1>1, <1>2, ElsewherePlaced, StartIsAPosition DEF Placed

LEMMA EnqueuedPlaced ==
    ASSUME Shaped, Placed, NEW p, Enqueued(p)
    PROVE  mpd'.at = mpd.at /\ backend'.head = backend.head
<1>a. DOMAIN mpd = MpdFields /\ DOMAIN backend = BackendFields
  BY DEF Shaped
<1>1. PICK x, y, z, n : \/ backend' = [backend EXCEPT !.dropped = x]
                        \/ backend' = [backend EXCEPT !.dropped = x, !.lost = y]
                        \/ backend' = [backend EXCEPT !.len = n, !.ours = z]
  BY DEF Enqueued
<1>2. mpd' = mpd \/ mpd' = Added(mpd)
  BY DEF Enqueued
<1>3. QED
  BY <1>a, <1>1, <1>2 DEF Added, MpdFields, BackendFields

LEMMA GuestedPlaced == ASSUME Shaped, Placed, Guested PROVE Placed'
<1>a. DOMAIN mpd = MpdFields /\ DOMAIN backend = BackendFields
      /\ DOMAIN Nobody = HeadFields /\ Nobody.at = 0
  BY DEF Shaped, Nobody, HeadFields
<1>1. CASE Reconnect
  <2>1. mpd' = [mpd EXCEPT !.linked = TRUE] /\ backend' = Reconnected(backend)
        /\ UNCHANGED <<poll, local, hand>>
    BY <1>1 DEF Reconnect
  <2>2. mpd'.at = mpd.at /\ backend'.head = Nobody
    BY <1>a, <2>1 DEF Reconnected, MpdFields, BackendFields
  <2>3. QED
    BY <1>a, <2>1, <2>2, ElsewherePlaced, StartIsAPosition DEF Placed
<1>2. CASE PollStatus
  <2>1. local' = local
    BY <1>2 DEF PollStatus
  <2>2. CASE ~mpd.linked
    <3>1. MarkLost /\ PollOver /\ UNCHANGED mpd
      BY <1>2, <2>2 DEF PollStatus
    <3>2. backend'.head = backend.head
      BY <1>a, <3>1 DEF MarkLost, BackendFields
    <3>3. QED
      BY <2>1, <3>1, <3>2, PollPlaced, StartIsAPosition DEF Placed
  <2>3. CASE mpd.linked
    <3> DEFINE known == mpd.cur \in DOMAIN backend.ours
               head == IF known /\ mpd.state = "play"
                       THEN [p |-> backend.ours[mpd.cur].p, at |-> mpd.at] ELSE Nobody
               b == [backend EXCEPT !.playing = (mpd.state = "play"), !.len = Len(mpd.queue),
                         !.head = head]
    <3>1. /\ backend' = Sampled(b, mpd.cur, mpd.at)
          /\ mpd' = mpd \/ mpd' = Consumed(mpd)
          /\ UNCHANGED hand
      BY <1>2, <2>3 DEF PollStatus
    <3>2. PICK step, n : poll' = [step |-> step, id |-> mpd.cur, at |-> mpd.at, n |-> n]
      BY <1>2, <2>3 DEF PollStatus
    <3>3. DOMAIN poll' = PollFields /\ poll'.at = mpd.at
      BY <3>2 DEF PollFields
    <3>4. DOMAIN b = BackendFields /\ b.head = head
      BY <1>a DEF BackendFields
    <3>5. DOMAIN head = HeadFields /\ head.at \in Positions
      BY <1>a, StartIsAPosition DEF HeadFields, Placed
    <3> HIDE DEF b, head
    <3>6. backend'.head = head
      BY <3>1, <3>4, SampledHead
    <3>7. QED
      BY <2>1, <3>1, <3>3, <3>5, <3>6, ConsumedAt, StartIsAPosition DEF Placed
  <2>4. QED
    BY <2>2, <2>3
<1>3. CASE PollSong
  <2>1. /\ poll' = [poll EXCEPT !.step = "list"] /\ UNCHANGED <<local, hand>>
        /\ \/ mpd' = mpd
           \/ \E q : mpd' = [mpd EXCEPT !.queue = q]
        /\ \/ backend' = backend
           \/ \E ours : backend' = Sampled([backend EXCEPT !.ours = ours], poll.id, poll.at)
    BY <1>3 DEF PollSong
  <2>2. mpd'.at = mpd.at
    BY <1>a, <2>1 DEF MpdFields
  <2>3. backend'.head = backend.head
    <3>1. ASSUME NEW ours, backend' = Sampled([backend EXCEPT !.ours = ours], poll.id, poll.at)
          PROVE  backend'.head = backend.head
      <4> DEFINE b == [backend EXCEPT !.ours = ours]
      <4>1. DOMAIN b = BackendFields /\ b.head = backend.head
        BY <1>a DEF BackendFields
      <4>2. backend' = Sampled(b, poll.id, poll.at)
        BY <3>1
      <4> HIDE DEF b
      <4>3. QED
        BY <4>1, <4>2, SampledHead
    <3>2. QED
      BY <2>1, <3>1
  <2>4. QED
    BY <2>1, <2>2, <2>3 DEF Placed, PollFields
<1>4. CASE PollList
  <2>1. PollOver /\ UNCHANGED <<mpd, local>>
    BY <1>4 DEF PollList
  <2>2. \/ \E x : backend' = [backend EXCEPT !.lost = x]
        \/ \E x, y, z : backend' = [backend EXCEPT !.order = x, !.ours = y, !.dropped = z]
    <3>1. CASE ~mpd.linked
      BY <1>4, <3>1 DEF PollList, MarkLost
    <3>2. CASE mpd.linked
      BY <1>4, <3>2 DEF PollList
    <3>3. QED
      BY <3>1, <3>2
  <2>3. backend'.head = backend.head
    BY <1>a, <2>2 DEF BackendFields
  <2>4. QED
    BY <2>1, <2>3, PollPlaced, StartIsAPosition DEF Placed
<1>5. CASE SessionTakes
  <2>1. backend' = [backend EXCEPT !.dropped = <<>>] /\ UNCHANGED <<mpd, poll, local, hand>>
    BY <1>5 DEF SessionTakes
  <2>2. backend'.head = backend.head
    BY <1>a, <2>1 DEF BackendFields
  <2>3. QED
    BY <2>1, <2>2, ElsewherePlaced, StartIsAPosition DEF Placed
<1>6. ASSUME NEW p, Refill(p) PROVE Placed'
  BY <1>6, EnqueuedPlaced, ElsewherePlaced DEF Refill, Placed
<1>7. ASSUME NEW at \in {0, Span - 1}, SeekTo(at) PROVE Placed'
  <2>1. PICK id : /\ mpd' = Sought(mpd, id, at)
                  /\ backend' = [backend EXCEPT !.ours[id].seen = NotSeen, !.head.at = at]
    BY <1>7 DEF SeekTo
  <2>2. at \in Positions
    BY SpanAssumption DEF Positions
  <2>3. mpd'.at = at
    BY <1>a, <2>1 DEF Sought, MpdFields
  <2>4. DOMAIN backend'.head = HeadFields /\ backend'.head.at = at
    BY <1>a, <2>1 DEF Placed, BackendFields, HeadFields
  <2>5. QED
    BY <1>7, <2>2, <2>3, <2>4, ElsewherePlaced DEF SeekTo
<1>8. QED
  BY <1>1, <1>2, <1>3, <1>4, <1>5, <1>6, <1>7 DEF Guested

LEMMA HandoverPlaced == ASSUME Shaped, Placed, HandsOver PROVE Placed'
<1>a. /\ DOMAIN mpd = MpdFields /\ DOMAIN backend = BackendFields
      /\ DOMAIN poll = PollFields /\ DOMAIN hand = HandFields /\ DOMAIN local = LocalFields
      /\ DOMAIN Nobody = HeadFields /\ Nobody.at = 0
  BY DEF Shaped, Placed, Nobody, HeadFields
<1>1. CASE HandBegins
  <2>1. PICK s, t : /\ poll' = poll \/ poll' = [poll EXCEPT !.step = t]
                    /\ hand' = [hand EXCEPT !.stage = s, !.moved = {}, !.lost = <<>>]
    BY <1>1 DEF HandBegins
  <2>2. DOMAIN poll' = PollFields /\ poll'.at = poll.at
        /\ DOMAIN hand' = HandFields /\ hand'.resume = hand.resume
    BY <1>a, <2>1 DEF PollFields, HandFields
  <2>3. QED
    BY <1>1, <2>2 DEF HandBegins, Placed
<1>2. CASE HandReads
  <2> DEFINE head == IF active = "local" THEN local.head ELSE backend.head
  <2>1. PICK ids, resume :
           /\ hand' = [hand EXCEPT !.stage = "carry", !.ids = ids, !.left = DOMAIN ids,
                                   !.resume = resume]
           /\ resume = head \/ resume = Nobody
    BY <1>2 DEF HandReads
  <2>2. DOMAIN head = HeadFields /\ head.at \in Positions
    BY DEF Placed
  <2> HIDE DEF head
  <2>3. DOMAIN hand' = HandFields /\ hand'.resume = resume
    BY <1>a, <2>1 DEF HandFields
  <2>4. DOMAIN resume = HeadFields /\ resume.at \in Positions
    BY <1>a, <2>1, <2>2, StartIsAPosition
  <2>5. backend'.head = backend.head
    BY <1>a, <1>2 DEF HandReads, BackendFields
  <2>6. QED
    BY <1>2, <2>3, <2>4, <2>5 DEF HandReads, Placed
<1>3. CASE HandEnqueues
  <2>1. PICK i : /\ hand' = [hand EXCEPT !.left = @ \ {i}] /\ poll' = poll
                 /\ \/ Enqueued(hand.ids[i]) /\ local' = local
                    \/ /\ \E q : local' = [local EXCEPT !.queue = q]
                       /\ UNCHANGED <<mpd, backend>>
    BY <1>3 DEF HandEnqueues
  <2>2. DOMAIN hand' = HandFields /\ hand'.resume = hand.resume
    BY <1>a, <2>1 DEF HandFields
  <2>3. DOMAIN local' = LocalFields /\ local'.head = local.head /\ local'.resume = local.resume
    BY <1>a, <2>1 DEF LocalFields
  <2>4. mpd'.at = mpd.at /\ backend'.head = backend.head
    BY <2>1, EnqueuedPlaced
  <2>5. QED
    BY <2>1, <2>2, <2>3, <2>4 DEF Placed
<1>4. CASE HandCarried
  <2>1. PICK s, m, l : hand' = [hand EXCEPT !.stage = s, !.moved = m, !.lost = l]
    BY <1>4 DEF HandCarried
  <2>2. DOMAIN hand' = HandFields /\ hand'.resume = hand.resume
    BY <1>a, <2>1 DEF HandFields
  <2>3. backend'.head = backend.head
    BY <1>a, <1>4 DEF HandCarried, BackendFields
  <2>4. QED
    BY <1>4, <2>2, <2>3 DEF HandCarried, Placed
<1>5. CASE HandResumesGuest
  <2>1. UNCHANGED <<backend, local>>
    BY <1>5 DEF HandResumesGuest
  <2>2. PICK s, t : /\ hand' = [hand EXCEPT !.stage = s]
                    /\ poll' = poll \/ poll' = [poll EXCEPT !.step = t]
    BY <1>5 DEF HandResumesGuest
  <2>3. /\ DOMAIN hand' = HandFields /\ hand'.resume = hand.resume
        /\ DOMAIN poll' = PollFields /\ poll'.at = poll.at
    BY <1>a, <2>2 DEF HandFields, PollFields
  <2>4. mpd' = mpd \/ \E id : mpd' = Sought(mpd, id, hand.resume.at)
    BY <1>5 DEF HandResumesGuest
  <2>5. mpd'.at \in {mpd.at, hand.resume.at}
    BY <1>a, <2>4 DEF Sought, MpdFields
  <2>6. QED
    BY <2>1, <2>3, <2>5 DEF Placed
<1>6. CASE HandResumesLocal
  <2>1. hand' = [hand EXCEPT !.stage = "wait"]
        /\ local' = [local EXCEPT !.resume = hand.resume.at]
    BY <1>6 DEF HandResumesLocal
  <2>2. DOMAIN hand' = HandFields /\ hand'.resume = hand.resume
        /\ DOMAIN local' = LocalFields /\ local'.head = local.head
        /\ local'.resume = hand.resume.at
    BY <1>a, <2>1 DEF HandFields, LocalFields
  <2>3. QED
    BY <1>6, <2>2 DEF HandResumesLocal, Placed
<1>7. CASE HandFlips
  <2>1. /\ hand' = [hand EXCEPT !.stage = "none"] /\ poll' = poll
        /\ \/ local' = local
           \/ local' = [head |-> Nobody, queue |-> <<>>, resume |-> 0]
        /\ backend' = backend \/ backend' = [backend EXCEPT !.playing = FALSE]
        /\ mpd' = mpd \/ mpd' = [mpd EXCEPT !.state = "stop", !.at = 0]
    BY <1>7 DEF HandFlips
  <2>2. DOMAIN hand' = HandFields /\ hand'.resume = hand.resume
    BY <1>a, <2>1 DEF HandFields
  <2>3. backend'.head = backend.head /\ mpd'.at \in {mpd.at, 0}
    BY <1>a, <2>1 DEF BackendFields, MpdFields
  <2>4. DOMAIN local' = LocalFields /\ local'.head \in {local.head, Nobody}
        /\ local'.resume \in {local.resume, 0}
    BY <1>a, <2>1 DEF LocalFields
  <2>5. QED
    BY <1>a, <2>1, <2>2, <2>3, <2>4, StartIsAPosition DEF Placed
<1>8. QED
  BY <1>1, <1>2, <1>3, <1>4, <1>5, <1>6, <1>7 DEF HandsOver

LEMMA LocalPlaced == ASSUME Placed, LocalPlays \/ LocalAdmits PROVE Placed'
<1>a. DOMAIN local = LocalFields /\ DOMAIN local.head = HeadFields
      /\ local.head.at \in Positions /\ local.resume \in Positions
      /\ DOMAIN Nobody = HeadFields /\ Nobody.at = 0
  BY DEF Placed, Nobody, HeadFields
<1>1. CASE LocalPlays
  <2>1. \/ local.head.at + 1 < Span /\ local' = [local EXCEPT !.head.at = @ + 1]
        \/ local' = [local EXCEPT !.head = Nobody]
    BY <1>1 DEF LocalPlays
  <2>a. local.head.at + 1 < Span => local.head.at + 1 \in Positions
    BY <1>a, SpanAssumption DEF Positions
  <2>2. DOMAIN local' = LocalFields /\ DOMAIN local'.head = HeadFields
        /\ local'.head.at \in Positions /\ local'.resume = local.resume
    BY <1>a, <2>1, <2>a, StartIsAPosition DEF LocalFields, HeadFields
  <2>3. QED
    BY <1>1, <2>2 DEF LocalPlays, Placed
<1>2. CASE LocalAdmits
  <2>1. local' = [head |-> [p |-> Head(local.queue), at |-> local.resume],
                  queue |-> Tail(local.queue), resume |-> 0]
    BY <1>2 DEF LocalAdmits
  <2>2. DOMAIN local' = LocalFields /\ DOMAIN local'.head = HeadFields
        /\ local'.head.at = local.resume /\ local'.resume = 0
    BY <2>1 DEF LocalFields, HeadFields
  <2>3. QED
    BY <1>a, <1>2, <2>2, StartIsAPosition DEF LocalAdmits, Placed
<1>3. QED
  BY <1>1, <1>2

LEMMA PlacedStays == ASSUME Shaped, Placed, [Next]_vars PROVE Placed'
<1>1. CASE UNCHANGED vars
  BY <1>1 DEF vars, Placed
<1>2. QED
  BY <1>1, WorldPlaced, GuestedPlaced, HandoverPlaced, LocalPlaced DEF Next

-----------------------------------------------------------------------------
(* Nothing is credited that did not sound.                                  *)

LEMMA FreshSong ==
    ASSUME NEW p, NEW bounded
    PROVE  LET s == NewSong(p, bounded) IN
           DOMAIN s = SongFields /\ s.sounded = 0 /\ s.seeks = 0
           /\ "answer" \in DOMAIN s /\ s.answer = "none"
BY DEF NewSong, SongFields

\* One more song, of a client's or of the backend's.
LEMMA OneMoreHonest ==
    ASSUME Consistent, Honest, Placed', NEW p, NEW bounded,
           mpd' = Added(mpd), songs' = Append(songs, NewSong(p, bounded)), poll' = poll,
           \/ backend'.ours = backend.ours
           \/ /\ mpd.linked /\ poll.step = "idle"
              /\ DOMAIN backend'.ours = DOMAIN backend.ours \cup {mpd.nextId}
              /\ \A id \in DOMAIN backend.ours :
                    id # mpd.nextId => backend'.ours[id] = backend.ours[id]
              /\ LET o == backend'.ours[mpd.nextId] IN
                 DOMAIN o = OfferedFields /\ o.n = Len(songs) + 1 /\ o.heard = 0
                 /\ o.seen = NotSeen
    PROVE  Honest'
<1>a. /\ SongsTyped(songs) /\ OursTyped(backend.ours) /\ Named /\ Truthful
      /\ mpd.nextId \in Nat /\ DOMAIN mpd = MpdFields
  BY DEF Honest, Consistent, Shaped
<1>1. /\ mpd'.linked = mpd.linked
      /\ Len(songs) \in Nat /\ DOMAIN songs = 1 .. Len(songs)
      /\ DOMAIN songs' = 1 .. Len(songs) + 1
      /\ \A n \in DOMAIN songs : songs'[n] = songs[n]
      /\ songs'[Len(songs) + 1] = NewSong(p, bounded)
      /\ \A i \in DOMAIN mpd'.queue :
            \/ i \in DOMAIN mpd.queue /\ mpd'.queue[i] = mpd.queue[i]
            \/ mpd'.queue[i] = [id |-> mpd.nextId, n |-> Len(songs) + 1]
  BY FreshSong, OneMoreSong
<1>2. mpd'.cur = mpd.cur /\ mpd'.at = mpd.at
  BY <1>a DEF Added, MpdFields
<1>3. SongsTyped(songs')
  <2>1. \A n \in DOMAIN songs' : n \in DOMAIN songs \/ n = Len(songs) + 1
    BY <1>1
  <2>2. QED
    BY <1>a, <1>1, <2>1, FreshSong DEF SongsTyped
<1>4. \A n \in DOMAIN songs : n \in DOMAIN songs' /\ SoundedIn(songs', n) = SoundedIn(songs, n)
  BY <1>1 DEF SoundedIn
<1>5. SoundedIn(songs', Len(songs) + 1) = 0
  BY <1>1, FreshSong DEF SoundedIn, SampleStep
<1>6. \A id \in DOMAIN backend.ours : /\ backend.ours[id].n \in DOMAIN songs
                                      /\ mpd.linked => id # mpd.nextId
  <2>1. \A id \in DOMAIN backend.ours : /\ backend.ours[id].n \in DOMAIN songs
                                        /\ mpd.linked => id < mpd.nextId
    BY DEF Consistent, Holds
  <2>2. QED
    BY <1>a, <2>1
<1>7. mpd.cur # mpd.nextId /\ \A i \in DOMAIN mpd.queue : mpd.queue[i].id # mpd.nextId
  <2>1. /\ mpd.cur \in IdsIn(mpd.queue) \cup {None}
        /\ \A i \in DOMAIN mpd.queue : mpd.queue[i].id \in 1 .. mpd.nextId - 1
        /\ mpd.nextId # 0
    BY DEF Consistent, Queued, Shaped
  <2>2. \A i \in DOMAIN mpd.queue : mpd.queue[i].id # mpd.nextId
    BY <1>a, <2>1
  <2>3. QED
    BY <2>1, <2>2 DEF IdsIn, None
<1>8. mpd.linked /\ poll.step = "song" => poll.id # mpd.nextId /\ poll.n \in DOMAIN songs
  <2>1. mpd.linked /\ poll.step = "song" => poll.id \in 1 .. mpd.nextId - 1
                                            /\ poll.n \in DOMAIN songs
    BY DEF Consistent, Polling
  <2>2. QED
    BY <1>a, <2>1
<1>9. \A id \in DOMAIN backend'.ours :
         \/ id \in DOMAIN backend.ours /\ backend'.ours[id] = backend.ours[id]
         \/ /\ mpd.linked /\ id = mpd.nextId /\ DOMAIN backend'.ours[id] = OfferedFields
            /\ backend'.ours[id].n = Len(songs) + 1 /\ backend'.ours[id].heard = 0
            /\ backend'.ours[id].seen = NotSeen
  BY <1>6
<1>10. OursTyped(backend'.ours)
  BY <1>a, <1>9 DEF OursTyped
<1>11. Named'
  <2> SUFFICES ASSUME mpd.linked, NEW i \in DOMAIN mpd'.queue
               PROVE  /\ mpd'.queue[i].id \in DOMAIN backend'.ours
                            => mpd'.queue[i].n = backend'.ours[mpd'.queue[i].id].n
                      /\ poll.step = "song" /\ mpd'.queue[i].id = poll.id
                            => mpd'.queue[i].n = poll.n
    BY <1>1 DEF Named
  <2>1. CASE i \in DOMAIN mpd.queue /\ mpd'.queue[i] = mpd.queue[i]
    <3>1. mpd.queue[i].id # mpd.nextId
      BY <1>7, <2>1
    <3>2. /\ mpd.queue[i].id \in DOMAIN backend.ours
                => mpd.queue[i].n = backend.ours[mpd.queue[i].id].n
          /\ poll.step = "song" /\ mpd.queue[i].id = poll.id => mpd.queue[i].n = poll.n
      BY <1>a, <2>1 DEF Named
    <3>3. QED
      BY <1>9, <2>1, <3>1, <3>2
  <2>2. CASE mpd'.queue[i] = [id |-> mpd.nextId, n |-> Len(songs) + 1]
    <3>1. mpd'.queue[i].id = mpd.nextId /\ mpd'.queue[i].n = Len(songs) + 1
      BY <2>2
    <3>2. mpd.nextId \notin DOMAIN backend.ours
      BY <1>6
    <3>3. QED
      BY <1>8, <1>9, <3>1, <3>2
  <2>3. QED
    BY <1>1, <2>1, <2>2
<1>12. Truthful'
  <2>1. ASSUME NEW id \in DOMAIN backend'.ours
        PROVE  /\ backend'.ours[id].heard <= SoundedIn(songs', backend'.ours[id].n)
               /\ mpd.linked /\ id = mpd.cur =>
                    backend'.ours[id].heard + Credit(backend'.ours[id], mpd.at)
                        <= SoundedIn(songs', backend'.ours[id].n)
    <3>1. CASE id \in DOMAIN backend.ours /\ backend'.ours[id] = backend.ours[id]
      <4>1. SoundedIn(songs', backend.ours[id].n) = SoundedIn(songs, backend.ours[id].n)
        BY <1>4, <1>6, <3>1
      <4>2. QED
        BY <1>a, <3>1, <4>1 DEF Truthful
    <3>2. CASE /\ mpd.linked /\ id = mpd.nextId
               /\ backend'.ours[id].n = Len(songs) + 1 /\ backend'.ours[id].heard = 0
      BY <1>5, <1>7, <3>2
    <3>3. QED
      BY <1>9, <3>1, <3>2
  <2>2. mpd.linked /\ poll.step = "song" /\ mpd.cur = poll.id =>
            Way(poll.at, mpd.at) <= SoundedIn(songs', poll.n)
    BY <1>a, <1>4, <1>8 DEF Truthful
  <2>3. QED
    BY <1>1, <1>2, <2>1, <2>2 DEF Truthful
<1>13. QED
  BY <1>3, <1>10, <1>11, <1>12 DEF Honest

LEMMA WorldHonest == ASSUME Consistent, Honest, World PROVE Honest'
<1>a. /\ Shaped /\ Queued /\ Placed /\ Placed' /\ DOMAIN mpd = MpdFields
      /\ mpd.cur # None => mpd.cur \in IdsIn(mpd.queue)
  BY WorldPlaced DEF Consistent, Shaped, Queued, Honest
<1>b. ASSUME Grown, Followed, backend' = backend, poll' = poll PROVE Honest'
  BY <1>a, <1>b, OursKept, Onwards
<1>c. ASSUME ~mpd'.linked, Grown, backend' = backend, poll' = poll PROVE Honest'
  BY <1>b, <1>c DEF Followed
<1>1. CASE MpdPlays
  <2> DEFINE n == SongOf(mpd.cur)
  <2>1. mpd.cur \in IdsIn(mpd.queue) /\ n \in DOMAIN songs
    BY <1>1, <1>a, SongThere DEF MpdPlays
  <2>2. PICK through :
           songs' = [songs EXCEPT ![n].sounded = @ + 1, ![n].through = through]
    BY <1>1 DEF MpdPlays
  <2> HIDE DEF n
  <2>3. Grown
    BY <2>1, <2>2, OneGrown
  <2>4. SoundedIn(songs', n) >= SoundedIn(songs, n) + 1
    <3>1. DOMAIN songs[n] = SongFields /\ songs[n].sounded \in Nat /\ songs[n].seeks \in Nat
      BY <2>1 DEF Honest, SongsTyped
    <3>2. songs'[n].sounded = songs[n].sounded + 1 /\ songs'[n].seeks = songs[n].seeks
      BY <2>1, <2>2, <3>1 DEF SongFields
    <3>3. QED
      BY <3>1, <3>2 DEF SoundedIn, SampleStep
  <2>5. Followed
    <3>1. mpd' = [mpd EXCEPT !.at = @ + 1] \/ mpd' = Consumed(mpd)
      BY <1>1 DEF MpdPlays
    <3>2. CASE mpd' = [mpd EXCEPT !.at = @ + 1]
      <4>1. mpd'.linked = mpd.linked /\ mpd'.cur = mpd.cur /\ mpd'.at = mpd.at + 1
            /\ mpd'.queue = mpd.queue
        BY <1>a, <3>2 DEF MpdFields
      <4>2. QED
        BY <2>1, <2>4, <4>1, WithinItself DEF Followed, n
    <3>3. CASE mpd' = Consumed(mpd)
      <4>1. GoesOn(mpd')
        BY <1>1, <1>a, <3>3, ConsumedGoesOn DEF MpdPlays
      <4>2. QED
        BY <1>a, <3>3, <4>1, ConsumedAt DEF Followed, GoesOn
    <3>4. QED
      BY <3>1, <3>2, <3>3
  <2>6. QED
    BY <1>1, <1>b, <2>3, <2>5 DEF MpdPlays
<1>2. CASE MpdDies
  <2>1. ~mpd'.linked
    BY <1>2, <1>a DEF MpdDies, MpdFields
  <2>2. songs' = [n \in DOMAIN songs |-> [songs[n] EXCEPT !.through = FALSE]]
    BY <1>2 DEF MpdDies
  <2>3. ASSUME NEW n \in DOMAIN songs
        PROVE  /\ DOMAIN songs'[n] = SongFields /\ songs'[n].sounded = songs[n].sounded
               /\ songs'[n].seeks = songs[n].seeks
               /\ songs[n].sounded \in Nat /\ songs[n].seeks \in Nat
    <3>1. DOMAIN songs[n] = SongFields /\ songs[n].sounded \in Nat /\ songs[n].seeks \in Nat
      BY DEF Honest, SongsTyped
    <3>2. QED
      BY <2>2, <3>1 DEF SongFields
  <2>4. Grown
    <3>1. SongsTyped(songs')
      BY <2>2, <2>3 DEF SongsTyped
    <3>2. \A n \in DOMAIN songs : SoundedIn(songs', n) >= SoundedIn(songs, n)
      BY <2>3 DEF SoundedIn, SampleStep
    <3>3. QED
      BY <2>2, <3>1, <3>2 DEF Grown
  <2>5. QED
    BY <1>2, <1>c, <2>1, <2>4 DEF MpdDies
<1>3. CASE MpdReturns
  <2>1. ~mpd'.linked
    BY <1>3, <1>a, ReturnsAt DEF MpdReturns, Queued
  <2>2. QED
    BY <1>3, <1>c, <2>1, SameGrown DEF MpdReturns
<1>4. CASE ClientPlaysOrPauses
  <2>1. \/ mpd' = [mpd EXCEPT !.state = "pause"] \/ mpd' = [mpd EXCEPT !.state = "play"]
        \/ mpd' = [mpd EXCEPT !.cur = mpd.queue[1].id, !.at = 0, !.state = "play"]
    BY <1>4 DEF ClientPlaysOrPauses, Sought
  <2>2. /\ mpd'.linked = mpd.linked /\ mpd'.queue = mpd.queue
        /\ mpd'.at = 0 \/ (mpd'.at = mpd.at /\ mpd'.cur = mpd.cur)
    BY <1>a, <2>1 DEF MpdFields
  <2>3. Followed
    BY <2>2, WithinItself DEF Followed
  <2>4. QED
    BY <1>4, <1>b, <2>3, SameGrown DEF ClientPlaysOrPauses
<1>5. ASSUME NEW p, ClientAdds(p) PROVE Honest'
  BY <1>5, <1>a, OneMoreHonest DEF ClientAdds
<1>6. ASSUME NEW id \in IdsIn(mpd.queue), ClientDeletes(id) PROVE Honest'
  <2>1. mpd' = Removed(mpd, id) /\ GoesOn(mpd')
    BY <1>6, <1>a, RemovedGoesOn DEF ClientDeletes
  <2>2. mpd'.at = 0 \/ (mpd'.at = mpd.at /\ mpd'.cur = mpd.cur)
    <3>1. CASE id = mpd.cur
      BY <1>a, <2>1, <3>1, ConsumedAt DEF Removed
    <3>2. CASE id # mpd.cur
      BY <1>a, <2>1, <3>2 DEF Removed, MpdFields
    <3>3. QED
      BY <3>1, <3>2
  <2>3. Followed
    BY <2>1, <2>2 DEF Followed, GoesOn
  <2>4. QED
    BY <1>6, <1>b, <2>3, SameGrown DEF ClientDeletes
<1>7. ASSUME NEW at, ClientSeeks(at) PROVE Honest'
  <2> DEFINE n == SongOf(mpd.cur)
  <2>1. mpd.cur \in IdsIn(mpd.queue) /\ n \in DOMAIN songs
    BY <1>7, <1>a, SongThere DEF ClientSeeks
  <2>2. songs' = [songs EXCEPT ![n].seeks = @ + 1, ![n].through = FALSE]
    BY <1>7 DEF ClientSeeks
  <2> HIDE DEF n
  <2>3. Grown
    BY <2>1, <2>2, OneGrown
  <2>4. SoundedIn(songs', n) >= SoundedIn(songs, n) + SampleStep
    <3>1. DOMAIN songs[n] = SongFields /\ songs[n].sounded \in Nat /\ songs[n].seeks \in Nat
      BY <2>1 DEF Honest, SongsTyped
    <3>2. songs'[n].sounded = songs[n].sounded /\ songs'[n].seeks = songs[n].seeks + 1
      BY <2>1, <2>2, <3>1 DEF SongFields
    <3>3. QED
      BY <3>1, <3>2 DEF SoundedIn, SampleStep
  <2>5. mpd'.linked = mpd.linked /\ mpd'.cur = mpd.cur /\ mpd'.queue = mpd.queue
    BY <1>7, <1>a DEF ClientSeeks, MpdFields
  <2>6. Followed
    BY <2>1, <2>4, <2>5, WithinItself DEF Followed, n
  <2>7. QED
    BY <1>7, <1>b, <2>3, <2>6 DEF ClientSeeks
<1>8. QED
  BY <1>1, <1>2, <1>3, <1>4, <1>5, <1>6, <1>7 DEF World

LEMMA EnqueuedHonest ==
    ASSUME Consistent, Honest, Placed', NEW p, Enqueued(p), poll' = poll, poll.step = "idle"
    PROVE  Honest'
<1>a. DOMAIN backend = BackendFields
  BY DEF Consistent, Shaped
<1>1. CASE UNCHANGED <<mpd, songs>> /\ backend'.ours = backend.ours
  <2>1. Followed
    BY <1>1, WithinItself DEF Followed
  <2>2. QED
    BY <1>1, <2>1, SameGrown, OursKept, Onwards
<1>2. CASE p \in Outside
  BY <1>1, <1>2, <1>a DEF Enqueued, BackendFields
<1>3. CASE p \notin Outside /\ ~mpd.linked
  BY <1>1, <1>3, <1>a DEF Enqueued, BackendFields
<1>4. CASE p \notin Outside /\ mpd.linked
  <2>1. PICK honoured \in {TRUE, (p \in Whole)} :
           LET o == Offered(Len(songs) + 1, p, honoured, FALSE, FALSE)
           IN  /\ backend' = [backend EXCEPT !.len = @ + 1,
                        !.ours = [i \in DOMAIN @ \cup {mpd.nextId} |->
                                     IF i = mpd.nextId THEN o ELSE @[i]]]
               /\ mpd' = Added(mpd)
               /\ songs' = Append(songs, NewSong(p, honoured))
    BY <1>4 DEF Enqueued
  <2> DEFINE o == Offered(Len(songs) + 1, p, honoured, FALSE, FALSE)
             ours == [i \in DOMAIN backend.ours \cup {mpd.nextId} |->
                         IF i = mpd.nextId THEN o ELSE backend.ours[i]]
  <2>2. DOMAIN o = OfferedFields /\ o.n = Len(songs) + 1 /\ o.heard = 0 /\ o.seen = NotSeen
    BY DEF Offered, OfferedFields
  <2>3. backend'.ours = ours
    BY <1>a, <2>1 DEF BackendFields
  <2>4. /\ DOMAIN ours = DOMAIN backend.ours \cup {mpd.nextId} /\ ours[mpd.nextId] = o
        /\ \A i \in DOMAIN backend.ours : i # mpd.nextId => ours[i] = backend.ours[i]
    OBVIOUS
  <2> HIDE DEF o, ours
  <2>5. mpd' = Added(mpd) /\ songs' = Append(songs, NewSong(p, honoured))
    BY <2>1
  <2>6. QED
    BY <1>4, <2>2, <2>3, <2>4, <2>5, OneMoreHonest
<1>5. QED
  BY <1>2, <1>3, <1>4

LEMMA SampledCredit ==
    ASSUME NEW b, DOMAIN b = BackendFields, OursTyped(b.ours), NEW id, NEW at \in Nat
    PROVE  LET ours == Sampled(b, id, at).ours IN
           /\ DOMAIN ours = DOMAIN b.ours
           /\ \A i \in DOMAIN b.ours : i # id => ours[i] = b.ours[i]
           /\ id \in DOMAIN b.ours =>
                /\ DOMAIN ours[id] = OfferedFields /\ ours[id].n = b.ours[id].n
                /\ \/ ours[id].heard = b.ours[id].heard /\ ours[id].seen = b.ours[id].seen
                   \/ /\ ours[id].heard = b.ours[id].heard + Credit(b.ours[id], at)
                      /\ ours[id].seen = at
<1>1. CASE id \notin DOMAIN b.ours
  BY <1>1 DEF Sampled
<1>2. CASE id \in DOMAIN b.ours /\ ~b.playing
  <2>1. Sampled(b, id, at) = [b EXCEPT !.ours[id].current = TRUE]
    BY <1>2 DEF Sampled
  <2>2. DOMAIN b.ours[id] = OfferedFields
    BY <1>2 DEF OursTyped
  <2>3. QED
    BY <1>2, <2>1, <2>2 DEF BackendFields, OfferedFields
<1>3. CASE id \in DOMAIN b.ours /\ b.playing
  <2> DEFINE o == b.ours[id]
  <2>1. PICK y : Sampled(b, id, at) =
           [b EXCEPT !.ours[id].current = TRUE, !.ours[id].seen = at,
                     !.ours[id].heard = @ + Credit(b.ours[id], at),
                     !.ours[id].furthest = y]
    BY <1>3 DEF Sampled
  <2>2. DOMAIN o = OfferedFields
    BY <1>3 DEF OursTyped
  <2> DEFINE r == [o EXCEPT !.current = TRUE, !.seen = at,
                            !.heard = @ + Credit(b.ours[id], at), !.furthest = y]
  <2>3. /\ DOMAIN r = OfferedFields /\ r.n = o.n /\ r.seen = at
        /\ r.heard = o.heard + Credit(b.ours[id], at)
    BY <2>2 DEF OfferedFields
  <2>4. Sampled(b, id, at).ours = [b.ours EXCEPT ![id] = r]
    BY <1>3, <2>1 DEF BackendFields
  <2> HIDE DEF r
  <2>5. QED
    BY <1>3, <2>3, <2>4
<1>4. QED
  BY <1>1, <1>2, <1>3

LEMMA StatusHonest == ASSUME Consistent, Honest, Placed', PollStatus PROVE Honest'
<1>a. /\ Shaped /\ Queued /\ Holds /\ Placed /\ Truthful /\ Named
      /\ SongsTyped(songs) /\ OursTyped(backend.ours)
      /\ DOMAIN mpd = MpdFields /\ DOMAIN backend = BackendFields
      /\ mpd.at \in Positions /\ mpd.at \in Nat /\ mpd'.at \in Nat
      /\ \A id \in DOMAIN backend.ours : id # None
  BY PositionsAreNat DEF Consistent, Shaped, Honest, Placed, None
<1>1. songs' = songs
  BY DEF PollStatus
<1>2. CASE ~mpd.linked
  <2>1. MarkLost /\ PollOver /\ mpd' = mpd
    BY <1>2 DEF PollStatus
  <2>2. backend'.ours = backend.ours /\ poll'.step = "idle"
    BY <1>a, <2>1 DEF MarkLost, PollOver, BackendFields
  <2>3. Followed
    BY <1>2, <2>1 DEF Followed
  <2>4. QED
    BY <1>1, <2>2, <2>3, SameGrown, OursKept, Onwards
<1>3. CASE mpd.linked
  <2> DEFINE known == mpd.cur \in DOMAIN backend.ours
             b == [backend EXCEPT !.playing = (mpd.state = "play"), !.len = Len(mpd.queue),
                       !.head = IF known /\ mpd.state = "play"
                                THEN [p |-> backend.ours[mpd.cur].p, at |-> mpd.at]
                                ELSE Nobody]
  <2>1. /\ backend' = Sampled(b, mpd.cur, mpd.at)
        /\ mpd' = IF Overrun(backend', mpd.cur) THEN Consumed(mpd) ELSE mpd
        /\ poll' = [step |-> IF mpd.cur = None \/ known THEN "list" ELSE "song",
                    id |-> mpd.cur, at |-> mpd.at,
                    n |-> IF mpd.cur = None THEN None ELSE SongOf(mpd.cur)]
    BY <1>3 DEF PollStatus
  <2>2. DOMAIN b = BackendFields /\ b.ours = backend.ours
    BY <1>a DEF BackendFields
  <2> HIDE DEF b
  <2>3. /\ DOMAIN backend'.ours = DOMAIN backend.ours
        /\ \A i \in DOMAIN backend.ours : i # mpd.cur => backend'.ours[i] = backend.ours[i]
        /\ known =>
             /\ DOMAIN backend'.ours[mpd.cur] = OfferedFields
             /\ backend'.ours[mpd.cur].n = backend.ours[mpd.cur].n
             /\ \/ /\ backend'.ours[mpd.cur].heard = backend.ours[mpd.cur].heard
                   /\ backend'.ours[mpd.cur].seen = backend.ours[mpd.cur].seen
                \/ /\ backend'.ours[mpd.cur].heard =
                         backend.ours[mpd.cur].heard + Credit(backend.ours[mpd.cur], mpd.at)
                   /\ backend'.ours[mpd.cur].seen = mpd.at
    BY <1>a, <2>1, <2>2, SampledCredit
  <2>4. Overrun(backend', mpd.cur) => known /\ mpd.cur # None
    BY <1>a, <2>3 DEF Overrun
  <2>5. /\ GoesOn(mpd') /\ mpd'.linked
        /\ mpd'.at = 0 \/ (known /\ mpd' = mpd) \/ (~known /\ mpd' = mpd)
    <3>1. CASE Overrun(backend', mpd.cur)
      BY <1>3, <1>a, <2>1, <2>4, <3>1, ConsumedGoesOn, ConsumedAt
    <3>2. CASE ~Overrun(backend', mpd.cur)
      BY <1>3, <1>a, <2>1, <3>2, AsItIs
    <3>3. QED
      BY <3>1, <3>2
  <2>6. ASSUME NEW id \in DOMAIN backend.ours
        PROVE  /\ DOMAIN backend'.ours[id] = OfferedFields
               /\ backend'.ours[id].n = backend.ours[id].n
               /\ backend'.ours[id].heard \in Nat
               /\ backend'.ours[id].seen \in Positions \cup {NotSeen}
               /\ backend'.ours[id].heard <= SoundedIn(songs, backend.ours[id].n)
               /\ id = mpd.cur => backend'.ours[id].heard + Credit(backend'.ours[id], mpd.at)
                                     <= SoundedIn(songs, backend.ours[id].n)
    <3> DEFINE o == backend.ours[id]
               r == backend'.ours[id]
    <3>1. /\ DOMAIN o = OfferedFields /\ o.heard \in Nat /\ o.seen \in Nat \cup {NotSeen}
          /\ o.seen \in Positions \cup {NotSeen}
          /\ o.heard <= SoundedIn(songs, o.n)
          /\ id = mpd.cur => o.heard + Credit(o, mpd.at) <= SoundedIn(songs, o.n)
      BY <1>3, <1>a, PositionsAreNat DEF OursTyped, Truthful
    <3>2. Credit(o, mpd.at) \in Nat
      BY <1>a, <3>1, CreditBounds
    <3>3. CASE r = o
      BY <2>3, <3>1, <3>3
    <3>4. CASE id = mpd.cur
      <4>1. DOMAIN r = OfferedFields /\ r.n = o.n
        BY <2>3, <3>4
      <4>2. CASE r.heard = o.heard /\ r.seen = o.seen
        <5>1. Credit(r, mpd.at) = Credit(o, mpd.at)
          BY <4>2 DEF Credit
        <5>2. QED
          BY <3>1, <3>4, <4>1, <4>2, <5>1
      <4>3. CASE r.heard = o.heard + Credit(o, mpd.at) /\ r.seen = mpd.at
        <5>1. Credit(r, mpd.at) = 0
          BY <1>a, <4>3, CreditBounds
        <5> HIDE DEF o, r
        <5>2. r.heard \in Nat /\ r.heard + 0 = r.heard
          BY <3>1, <3>2, <4>3
        <5>3. r.heard <= SoundedIn(songs, o.n)
          BY <3>1, <3>4, <4>3
        <5>4. QED
          BY <1>a, <3>4, <4>1, <4>3, <5>1, <5>2, <5>3 DEF o, r
      <4>4. QED
        BY <2>3, <3>4, <4>2, <4>3
    <3>5. QED
      BY <2>3, <3>3, <3>4
  <2>7. OursTyped(backend'.ours)
    BY <2>3, <2>6 DEF OursTyped
  <2>8. Named'
    <3> SUFFICES ASSUME NEW k \in DOMAIN mpd'.queue
                 PROVE  /\ mpd'.queue[k].id \in DOMAIN backend'.ours
                              => mpd'.queue[k].n = backend'.ours[mpd'.queue[k].id].n
                        /\ poll'.step = "song" /\ mpd'.queue[k].id = poll'.id
                              => mpd'.queue[k].n = poll'.n
      BY DEF Named
    <3>1. PICK j \in DOMAIN mpd.queue : mpd'.queue[k] = mpd.queue[j]
      BY <2>5 DEF GoesOn, Within
    <3>2. mpd.queue[j].id \in DOMAIN backend.ours
             => mpd.queue[j].n = backend.ours[mpd.queue[j].id].n
      BY <1>3, <1>a DEF Named
    <3>3. poll'.step = "song" /\ mpd.queue[j].id = poll'.id => mpd.queue[j].n = poll'.n
      <4>1. ASSUME poll'.step = "song", mpd.queue[j].id = poll'.id
            PROVE  mpd.queue[j].n = poll'.n
        <5>1. mpd.cur # None /\ poll'.id = mpd.cur /\ poll'.n = SongOf(mpd.cur)
          BY <2>1, <4>1
        <5>2. mpd.cur \in IdsIn(mpd.queue)
          BY <4>1, <5>1 DEF IdsIn
        <5> DEFINE i == IndexOf(mpd.queue, mpd.cur)
        <5>3. i \in DOMAIN mpd.queue /\ mpd.queue[i].id = mpd.cur
              /\ SongOf(mpd.cur) = mpd.queue[i].n
          BY <5>2, Indexed DEF SongOf
        <5> HIDE DEF i
        <5>4. i = j
          BY <1>a, <4>1, <5>1, <5>3 DEF Queued
        <5>5. QED
          BY <5>1, <5>3, <5>4
      <4>2. QED
        BY <4>1
    <3>4. QED
      BY <2>3, <2>6, <3>1, <3>2, <3>3
  <2>9. Truthful'
    <3>1. ASSUME NEW id \in DOMAIN backend'.ours
          PROVE  /\ backend'.ours[id].heard <= SoundedIn(songs', backend'.ours[id].n)
                 /\ id = mpd'.cur =>
                      backend'.ours[id].heard + Credit(backend'.ours[id], mpd'.at)
                          <= SoundedIn(songs', backend'.ours[id].n)
      <4>1. id \in DOMAIN backend.ours
        BY <2>3
      <4>2. CASE mpd'.at = 0
        <5>1. backend'.ours[id].seen \in Nat \cup {NotSeen} /\ mpd'.at \in Nat
          BY <1>a, <2>6, <4>1, PositionsAreNat
        <5>2. Credit(backend'.ours[id], 0) = 0
          BY <5>1, <4>2, CreditBounds
        <5>3. Credit(backend'.ours[id], mpd'.at) = 0
          BY <4>2, <5>2
        <5>4. QED
          BY <1>1, <2>6, <4>1, <5>3
      <4>3. CASE mpd' = mpd
        BY <1>1, <2>6, <4>1, <4>3
      <4>4. QED
        BY <2>5, <4>2, <4>3
    <3>2. ASSUME poll'.step = "song", mpd'.cur = poll'.id
          PROVE  Way(poll'.at, mpd'.at) <= SoundedIn(songs', poll'.n)
      <4>1. /\ mpd.cur # None /\ ~known /\ poll'.n = SongOf(mpd.cur) /\ poll'.at = mpd.at
            /\ mpd' = mpd
        BY <2>1, <2>4, <3>2
      <4>2. SongOf(mpd.cur) \in DOMAIN songs
        BY <1>a, <4>1, SongThere DEF Queued
      <4>3. SoundedIn(songs, SongOf(mpd.cur)) \in Nat
        BY <1>a, <4>2, SoundedIsNat
      <4>4. Way(mpd.at, mpd.at) = 0
        BY <1>a, WayBounds
      <4>5. QED
        BY <1>1, <4>1, <4>3, <4>4
    <3>3. QED
      BY <3>1, <3>2 DEF Truthful
  <2>10. QED
    BY <1>1, <1>a, <2>7, <2>8, <2>9 DEF Honest
<1>4. QED
  BY <1>2, <1>3

LEMMA SongHonest == ASSUME Consistent, Honest, Placed', PollSong PROVE Honest'
<1>a. /\ Shaped /\ Queued /\ Holds /\ Placed /\ Truthful /\ Named /\ Polling
      /\ SongsTyped(songs) /\ OursTyped(backend.ours)
      /\ DOMAIN mpd = MpdFields /\ DOMAIN backend = BackendFields /\ DOMAIN poll = PollFields
      /\ mpd.at \in Nat /\ poll.at \in Nat /\ poll.at \in Positions
  BY PositionsAreNat DEF Consistent, Shaped, Honest, Placed
<1> DEFINE adopts == mpd.linked /\ mpd.cur # None /\ songs[SongOf(mpd.cur)].p \in Whole
           again == songs[poll.n].answer # "none"
           n == IF again THEN Len(songs) + 1 ELSE poll.n
           o == Offered(n, songs[SongOf(mpd.cur)].p, TRUE, TRUE, TRUE)
           ours == [id \in DOMAIN backend.ours \cup {poll.id} |->
                       IF id = poll.id THEN o ELSE backend.ours[id]]
<1>1. /\ poll.step = "song" /\ poll' = [poll EXCEPT !.step = "list"]
      /\ ~adopts => UNCHANGED <<mpd, backend, songs>>
      /\ adopts =>
            /\ backend' = Sampled([backend EXCEPT !.ours = ours], poll.id, poll.at)
            /\ songs' = IF again THEN Append(songs, [songs[poll.n] EXCEPT !.answer = "none"])
                        ELSE songs
            /\ mpd' = [mpd EXCEPT !.queue = [i \in DOMAIN @ |->
                          IF @[i].id = poll.id THEN [@[i] EXCEPT !.n = n] ELSE @[i]]]
  BY DEF PollSong
<1>2. poll'.step = "list"
  BY <1>1, <1>a DEF PollFields
<1>3. CASE ~adopts
  <2>1. Followed
    BY <1>1, <1>3, WithinItself DEF Followed
  <2>2. QED
    BY <1>1, <1>2, <1>3, <2>1, SameGrown, OursKept, Onwards
<1>4. CASE adopts
  <2>1. /\ mpd.linked /\ poll.id \notin DOMAIN backend.ours /\ poll.n \in DOMAIN songs
    BY <1>1, <1>4, <1>a DEF Polling
  <2>2. PICK S : songs \in Seq(S)
    BY <1>a DEF Shaped
  <2>3. Len(songs) \in Nat /\ DOMAIN songs = 1 .. Len(songs)
    BY <2>2, LenProperties
  <2>4. /\ SongsTyped(songs')
        /\ \A m \in DOMAIN songs : m \in DOMAIN songs' /\ songs'[m] = songs[m]
        /\ SoundedIn(songs', n) = SoundedIn(songs, poll.n)
    <3>1. CASE ~again
      BY <1>1, <1>4, <1>a, <3>1
    <3>2. CASE again
      <4> DEFINE song == [songs[poll.n] EXCEPT !.answer = "none"]
      <4>1. DOMAIN songs[poll.n] = SongFields
            /\ songs[poll.n].sounded \in Nat /\ songs[poll.n].seeks \in Nat
        BY <1>a, <2>1 DEF SongsTyped
      <4>2. /\ DOMAIN song = SongFields /\ song.sounded = songs[poll.n].sounded
            /\ song.seeks = songs[poll.n].seeks
        BY <4>1 DEF SongFields
      <4>3. songs' = Append(songs, song) /\ n = Len(songs) + 1
        BY <1>1, <1>4, <3>2
      <4> HIDE DEF song, n
      <4>4. songs \in Seq(S \cup {song})
        BY <2>2, SeqMonotonic
      <4>5. /\ songs' \in Seq(S \cup {song}) /\ Len(songs') = Len(songs) + 1
            /\ \A m \in 1 .. Len(songs) : songs'[m] = songs[m]
            /\ songs'[Len(songs) + 1] = song
        BY <4>3, <4>4, AppendProperties
      <4>6. DOMAIN songs' = 1 .. Len(songs) + 1
        BY <4>5, LenProperties
      <4>7. \A m \in DOMAIN songs' : m \in DOMAIN songs \/ m = Len(songs) + 1
        BY <2>3, <4>6
      <4>8. SongsTyped(songs')
        BY <1>a, <2>3, <4>1, <4>2, <4>5, <4>7 DEF SongsTyped
      <4>9. SoundedIn(songs', n) = SoundedIn(songs, poll.n)
        BY <4>2, <4>3, <4>5 DEF SoundedIn
      <4>10. \A m \in DOMAIN songs : m \in DOMAIN songs' /\ songs'[m] = songs[m]
        BY <2>3, <4>5, <4>6
      <4>11. QED
        BY <4>8, <4>9, <4>10
    <3>3. QED
      BY <3>1, <3>2
  <2>5. DOMAIN o = OfferedFields /\ o.n = n /\ o.heard = 0 /\ o.seen = NotSeen
    BY DEF Offered, OfferedFields
  <2>6. /\ DOMAIN ours = DOMAIN backend.ours \cup {poll.id} /\ ours[poll.id] = o
        /\ \A id \in DOMAIN backend.ours : ours[id] = backend.ours[id]
    BY <2>1
  <2> DEFINE b == [backend EXCEPT !.ours = ours]
             q == mpd.queue
             r == [i \in DOMAIN q |-> IF q[i].id = poll.id THEN [q[i] EXCEPT !.n = n] ELSE q[i]]
  <2>7. DOMAIN b = BackendFields /\ b.ours = ours /\ backend' = Sampled(b, poll.id, poll.at)
    BY <1>1, <1>4, <1>a DEF BackendFields
  <2>8. /\ mpd'.queue = r /\ mpd'.cur = mpd.cur /\ mpd'.at = mpd.at /\ mpd'.linked
    BY <1>1, <1>4, <1>a, <2>1 DEF MpdFields
  <2>9. /\ DOMAIN r = DOMAIN q
        /\ \A i \in DOMAIN q : r[i].id = q[i].id
                               /\ r[i].n = IF q[i].id = poll.id THEN n ELSE q[i].n
    <3>1. q \in Seq(Entries)
      BY <1>a DEF Shaped
    <3>2. \A i \in DOMAIN q : q[i] \in Entries
      BY <3>1, LenProperties, ElementOfSeq
    <3>3. QED
      BY <3>2 DEF Entries
  <2> HIDE DEF b, o, n, ours, q, r
  <2>10. OursTyped(ours)
    <3>1. o.heard \in Nat /\ o.seen \in Positions \cup {NotSeen}
      BY <2>5
    <3>2. QED
      BY <1>a, <2>5, <2>6, <3>1 DEF OursTyped
  <2>11. /\ DOMAIN backend'.ours = DOMAIN backend.ours \cup {poll.id}
         /\ \A id \in DOMAIN backend.ours : backend'.ours[id] = backend.ours[id]
         /\ DOMAIN backend'.ours[poll.id] = OfferedFields /\ backend'.ours[poll.id].n = n
         /\ \/ backend'.ours[poll.id].heard = 0 /\ backend'.ours[poll.id].seen = NotSeen
            \/ /\ backend'.ours[poll.id].heard = 0 + Credit(o, poll.at)
               /\ backend'.ours[poll.id].seen = poll.at
    BY <1>a, <2>1, <2>5, <2>6, <2>7, <2>10, SampledCredit
  <2>12. /\ backend'.ours[poll.id].heard = 0
         /\ backend'.ours[poll.id].seen \in {NotSeen, poll.at}
    <3>1. Credit(o, poll.at) = 0
      BY <2>5 DEF Credit
    <3>2. QED
      BY <2>11, <3>1
  <2>13. OursTyped(backend'.ours)
    BY <1>a, <2>11, <2>12 DEF OursTyped
  <2>14. Named'
    <3> SUFFICES ASSUME NEW i \in DOMAIN q, r[i].id \in DOMAIN backend'.ours
                 PROVE  r[i].n = backend'.ours[r[i].id].n
      BY <1>2, <2>8, <2>9 DEF Named
    <3>1. CASE q[i].id = poll.id
      BY <2>9, <2>11, <3>1
    <3>2. CASE q[i].id # poll.id
      <4>1. q[i].id \in DOMAIN backend.ours /\ r[i].n = q[i].n /\ r[i].id = q[i].id
        BY <2>9, <2>11, <3>2
      <4>2. q[i].n = backend.ours[q[i].id].n
        BY <1>a, <2>1, <4>1 DEF Named, q
      <4>3. QED
        BY <2>11, <4>1, <4>2
    <3>3. QED
      BY <3>1, <3>2
  <2>15. Truthful'
    <3>1. ASSUME NEW id \in DOMAIN backend'.ours
          PROVE  /\ backend'.ours[id].heard <= SoundedIn(songs', backend'.ours[id].n)
                 /\ id = mpd.cur =>
                      backend'.ours[id].heard + Credit(backend'.ours[id], mpd.at)
                          <= SoundedIn(songs', backend'.ours[id].n)
      <4>1. CASE id \in DOMAIN backend.ours
        <5>1. backend'.ours[id] = backend.ours[id] /\ backend.ours[id].n \in DOMAIN songs
          BY <1>a, <2>11, <4>1 DEF Holds
        <5>2. SoundedIn(songs', backend.ours[id].n) = SoundedIn(songs, backend.ours[id].n)
          BY <2>4, <5>1 DEF SoundedIn
        <5>3. QED
          BY <1>a, <2>1, <4>1, <5>1, <5>2 DEF Truthful
      <4>2. CASE id = poll.id
        <5> DEFINE s == backend'.ours[poll.id]
        <5>1. s.heard = 0 /\ s.n = n /\ s.seen \in Nat \cup {NotSeen}
          BY <1>a, <2>11, <2>12
        <5>2. SoundedIn(songs', n) \in Nat
          BY <1>a, <2>1, <2>4, SoundedIsNat
        <5>3. mpd.cur = poll.id => Credit(s, mpd.at) <= SoundedIn(songs', n)
          <6>1. /\ Credit(s, mpd.at) \in Nat /\ (s.seen = NotSeen => Credit(s, mpd.at) = 0)
                /\ s.seen # NotSeen => Credit(s, mpd.at) = Way(s.seen, mpd.at)
            BY <1>a, <5>1, CreditBounds
          <6>2. mpd.cur = poll.id => Way(poll.at, mpd.at) <= SoundedIn(songs, poll.n)
            BY <1>1, <1>a, <2>1 DEF Truthful
          <6>3. QED
            BY <2>4, <2>12, <5>2, <6>1, <6>2
        <5>4. Credit(s, mpd.at) \in Nat
          BY <1>a, <5>1, CreditBounds
        <5>5. QED
          BY <4>2, <5>1, <5>2, <5>3, <5>4
      <4>3. QED
        BY <2>11, <4>1, <4>2
    <3>2. QED
      BY <1>2, <2>8, <3>1 DEF Truthful
  <2>16. QED
    BY <2>4, <2>13, <2>14, <2>15 DEF Honest
<1>5. QED
  BY <1>3, <1>4

LEMMA GuestedHonest == ASSUME Consistent, Honest, Guested PROVE Honest'
<1>a. /\ Shaped /\ Queued /\ Placed' /\ DOMAIN mpd = MpdFields /\ DOMAIN backend = BackendFields
      /\ OursTyped(backend.ours) /\ SongsTyped(songs)
  BY GuestedPlaced DEF Consistent, Shaped, Honest
<1>1. CASE Reconnect
  <2>1. /\ backend' = Reconnected(backend) /\ poll' = poll /\ poll.step = "idle"
        /\ songs' = Answered([id \in DOMAIN backend.ours \ DOMAIN backend'.ours |-> "dropped"])
    BY <1>1 DEF Reconnect
  <2>2. backend'.ours = <<>>
    BY <1>a, <2>1 DEF Reconnected, BackendFields
  <2>3. DOMAIN backend'.ours = {}
    BY <2>2
  <2>4. Grown
    BY <2>1, AnsweredGrown
  <2>5. OursTyped(backend'.ours) /\ Named' /\ Truthful'
    BY <2>1, <2>3 DEF OursTyped, Named, Truthful
  <2>6. QED
    BY <1>a, <2>4, <2>5 DEF Honest, Grown
<1>2. CASE PollStatus
  BY <1>2, <1>a, StatusHonest
<1>3. CASE PollSong
  BY <1>3, <1>a, SongHonest
<1>4. CASE PollList
  <2>1. PollOver /\ mpd' = mpd
    BY <1>4 DEF PollList
  <2>2. poll'.step = "idle" /\ Followed
    BY <2>1, WithinItself DEF PollOver, Followed
  <2>3. CASE ~mpd.linked
    <3>1. MarkLost /\ songs' = songs
      BY <1>4, <2>3 DEF PollList
    <3>2. backend'.ours = backend.ours
      BY <1>a, <3>1 DEF MarkLost, BackendFields
    <3>3. QED
      BY <1>a, <2>2, <3>1, <3>2, SameGrown, OursKept, Onwards
  <2>4. CASE mpd.linked
    <3> DEFINE gone == DOMAIN backend.ours \ IdsIn(mpd.queue)
    <3>1. PICK order, dropped :
             backend' = [backend EXCEPT !.order = order,
                            !.ours = [id \in DOMAIN @ \ gone |-> @[id]],
                            !.dropped = dropped]
      BY <1>4, <2>4 DEF PollList
    <3>2. songs' = Answered([id \in gone |-> Verdict(backend.ours[id])])
      BY <1>4, <2>4 DEF PollList
    <3>3. /\ DOMAIN backend'.ours = DOMAIN backend.ours \ gone
          /\ \A id \in DOMAIN backend'.ours : backend'.ours[id] = backend.ours[id]
      BY <1>a, <3>1 DEF BackendFields
    <3> HIDE DEF gone
    <3>4. NothingCredited
      BY <1>a, <3>3 DEF NothingCredited, OursTyped
    <3>5. QED
      BY <1>a, <2>2, <3>2, <3>4, AnsweredGrown, Onwards
  <2>5. QED
    BY <2>3, <2>4
<1>5. CASE SessionTakes
  <2>1. backend' = [backend EXCEPT !.dropped = <<>>] /\ UNCHANGED <<mpd, poll, songs>>
    BY <1>5 DEF SessionTakes
  <2>2. backend'.ours = backend.ours
    BY <1>a, <2>1 DEF BackendFields
  <2>3. Followed
    BY <2>1, WithinItself DEF Followed
  <2>4. QED
    BY <1>a, <2>1, <2>2, <2>3, SameGrown, OursKept, Onwards
<1>6. ASSUME NEW p, Refill(p) PROVE Honest'
  BY <1>6, <1>a, EnqueuedHonest DEF Refill, Between
<1>7. ASSUME NEW at, SeekTo(at) PROVE Honest'
  <2>1. PICK id \in DOMAIN backend.ours :
          /\ id \in IdsIn(mpd.queue)
          /\ mpd' = Sought(mpd, id, at)
          /\ backend' = [backend EXCEPT !.ours[id].seen = NotSeen, !.head.at = at]
          /\ songs' = [songs EXCEPT ![SongOf(id)].through = FALSE]
    BY <1>7 DEF SeekTo
  <2>2. SongOf(id) \in DOMAIN songs
    BY <2>1, SongThere
  <2>3. Grown
    BY <2>1, <2>2, OneGrown
  <2>4. /\ mpd'.queue = mpd.queue /\ mpd'.linked = mpd.linked /\ mpd'.cur = id
    BY <1>a, <2>1 DEF Sought, MpdFields
  <2>5. /\ DOMAIN backend'.ours = DOMAIN backend.ours
        /\ \A i \in DOMAIN backend.ours :
              backend'.ours[i] = IF i = id THEN [backend.ours[i] EXCEPT !.seen = NotSeen]
                                 ELSE backend.ours[i]
    BY <1>a, <2>1 DEF BackendFields
  <2>6. NothingCredited /\ backend'.ours[id].seen = NotSeen
    BY <1>a, <2>5 DEF NothingCredited, OursTyped, OfferedFields
  <2>7. poll.step = "idle" /\ poll' = poll
    BY <1>7 DEF SeekTo, Between
  <2>8. Followed
    BY <2>4, <2>6, <2>7, WithinItself DEF Followed
  <2>9. QED
    BY <1>a, <2>3, <2>6, <2>7, <2>8, Onwards
<1>8. QED
  BY <1>1, <1>2, <1>3, <1>4, <1>5, <1>6, <1>7 DEF Guested

LEMMA HandoverHonest == ASSUME Consistent, Honest, HandsOver PROVE Honest'
<1>a. /\ Shaped /\ Queued /\ Placed' /\ DOMAIN mpd = MpdFields /\ DOMAIN backend = BackendFields
      /\ DOMAIN poll = PollFields
  BY HandoverPlaced DEF Consistent, Shaped, Honest, Placed
<1>b. ASSUME UNCHANGED <<mpd, songs>>, backend'.ours = backend.ours,
             poll'.step = "song" => poll' = poll
      PROVE  Honest'
  <2>1. Followed
    BY <1>b, WithinItself DEF Followed
  <2>2. QED
    BY <1>a, <1>b, <2>1, SameGrown, OursKept, Onwards
<1>1. CASE HandBegins
  <2>1. poll' = poll \/ poll' = [poll EXCEPT !.step = "due"]
    BY <1>1 DEF HandBegins
  <2>2. poll'.step = "song" => poll' = poll
    BY <1>a, <2>1 DEF PollFields
  <2>3. QED
    BY <1>1, <1>b, <2>2 DEF HandBegins
<1>2. CASE HandReads
  BY <1>2, <1>a, <1>b DEF HandReads, BackendFields
<1>3. CASE HandEnqueues
  <2>1. PICK i : /\ hand.stage = "carry" /\ poll' = poll
                 /\ Enqueued(hand.ids[i]) \/ UNCHANGED <<mpd, backend, songs>>
    BY <1>3 DEF HandEnqueues
  <2>2. poll.step = "idle"
    BY <2>1 DEF Consistent, Polling
  <2>3. QED
    BY <1>a, <1>b, <2>1, <2>2, EnqueuedHonest
<1>4. CASE HandCarried
  BY <1>4, <1>a, <1>b DEF HandCarried, BackendFields
<1>5. CASE HandResumesGuest
  <2>1. backend' = backend
    BY <1>5 DEF HandResumesGuest
  <2>2. poll' = poll \/ poll' = [poll EXCEPT !.step = "due"]
    BY <1>5 DEF HandResumesGuest
  <2>3. poll'.step = "song" => poll' = poll
    BY <1>a, <2>2 DEF PollFields
  <2>4. CASE UNCHANGED <<mpd, songs>>
    BY <1>b, <2>1, <2>3, <2>4
  <2>5. CASE ~UNCHANGED <<mpd, songs>>
    <3> DEFINE id == OursInOrder[1].id
               n == SongOf(id)
    <3>1. /\ id \in IdsIn(mpd.queue)
          /\ mpd' = Sought(mpd, id, hand.resume.at)
          /\ songs' = [songs EXCEPT ![n].seeks = @ + 1, ![n].through = FALSE]
      BY <1>5, <2>5 DEF HandResumesGuest
    <3> HIDE DEF id
    <3>2. n \in DOMAIN songs
      BY <3>1, SongThere
    <3>3. /\ mpd'.queue = mpd.queue /\ mpd'.linked = mpd.linked /\ mpd'.cur = id
      BY <1>a, <3>1 DEF Sought, MpdFields
    <3> HIDE DEF n
    <3>4. Grown
      BY <3>1, <3>2, OneGrown
    <3>5. SoundedIn(songs', n) >= SoundedIn(songs, n) + SampleStep
      <4>1. DOMAIN songs[n] = SongFields /\ songs[n].sounded \in Nat /\ songs[n].seeks \in Nat
        BY <3>2 DEF Honest, SongsTyped
      <4>2. songs'[n].sounded = songs[n].sounded /\ songs'[n].seeks = songs[n].seeks + 1
        BY <3>1, <3>2, <4>1 DEF SongFields
      <4>3. QED
        BY <4>1, <4>2 DEF SoundedIn, SampleStep
    <3>6. Followed
      BY <3>1, <3>3, <3>5, WithinItself DEF Followed, n
    <3>7. QED
      BY <1>a, <2>1, <2>3, <3>4, <3>6, OursKept, Onwards
  <2>6. QED
    BY <2>4, <2>5
<1>6. CASE HandResumesLocal
  BY <1>6, <1>b DEF HandResumesLocal
<1>7. CASE HandFlips
  <2>1. /\ poll' = poll /\ songs' = songs
        /\ backend' = backend \/ backend' = [backend EXCEPT !.playing = FALSE]
        /\ mpd' = mpd \/ mpd' = [mpd EXCEPT !.state = "stop", !.at = 0]
    BY <1>7 DEF HandFlips
  <2>2. backend'.ours = backend.ours
    BY <1>a, <2>1 DEF BackendFields
  <2>3. /\ mpd'.queue = mpd.queue /\ mpd'.linked = mpd.linked /\ mpd'.cur = mpd.cur
        /\ mpd'.at = 0 \/ mpd'.at = mpd.at
    BY <1>a, <2>1 DEF MpdFields
  <2>4. Followed
    BY <2>3, WithinItself DEF Followed
  <2>5. QED
    BY <1>a, <2>1, <2>2, <2>4, SameGrown, OursKept, Onwards
<1>8. QED
  BY <1>1, <1>2, <1>3, <1>4, <1>5, <1>6, <1>7 DEF HandsOver

LEMMA InitHonest == Init => Honest
<1> SUFFICES ASSUME Init PROVE Honest
  OBVIOUS
<1>1. DOMAIN songs = {} /\ DOMAIN backend.ours = {} /\ DOMAIN mpd.queue = {}
  BY DEF Init
<1>2. Placed
  <2>1. /\ DOMAIN Nobody = HeadFields /\ Nobody.at = 0
    BY DEF Nobody, HeadFields
  <2>2. /\ mpd.at = 0 /\ DOMAIN poll = PollFields /\ poll.at = 0 /\ backend.head = Nobody
    BY DEF Init, PollFields
  <2>3. /\ DOMAIN local = LocalFields /\ local.resume = 0 /\ local.head = Nobody
        /\ DOMAIN hand = HandFields /\ hand.resume = Nobody
    BY DEF Init, LocalFields, HandFields
  <2>4. QED
    BY <2>1, <2>2, <2>3, StartIsAPosition DEF Placed
<1>3. poll.step = "idle"
  BY DEF Init
<1>4. QED
  BY <1>1, <1>2, <1>3 DEF Honest, SongsTyped, OursTyped, Named, Truthful

LEMMA StepHonest == ASSUME Consistent, Honest, [Next]_vars PROVE Honest'
<1>1. Placed'
  BY PlacedStays DEF Consistent, Honest
<1>2. ASSUME UNCHANGED <<mpd, backend, poll, songs>> PROVE Honest'
  <2>1. Followed
    BY <1>2, WithinItself DEF Followed
  <2>2. QED
    BY <1>1, <1>2, <2>1, SameGrown, OursKept, Onwards
<1>3. CASE UNCHANGED vars
  BY <1>2, <1>3 DEF vars
<1>4. CASE LocalPlays \/ LocalAdmits
  BY <1>2, <1>4 DEF LocalPlays, LocalAdmits
<1>5. QED
  BY <1>3, <1>4, WorldHonest, GuestedHonest, HandoverHonest DEF Next

(* Whatever is edited, sought, deleted or killed between the round trips of *)
(* a poll, and however often MPD comes back with its songs numbered afresh, *)
(* what the guest credits towards a play of a passage sounded, but for one  *)
(* sample for each time somebody else moved the position.                   *)
THEOREM CreditIsWhatSounded == Spec => []CreditIsListening
<1>1. Init => Consistent /\ Honest
  BY InitConsistent, InitHonest
<1>2. Consistent /\ Honest /\ [Next]_vars => (Consistent /\ Honest)'
  BY StepKeeps, StepHonest
<1>3. Consistent /\ Honest => CreditIsListening
  BY DEF Honest, Truthful, CreditIsListening, SoundedIn
<1>4. QED
  BY <1>1, <1>2, <1>3, PTL DEF Spec

-----------------------------------------------------------------------------
(* Filtering.                                                              *)

LEMMA LeastOfAny ==
    ASSUME NEW T, T \subseteq Nat, T # {}
    PROVE  \E x \in T : \A y \in T : x <= y
<1> DEFINE R == StrictSubsetOrdering(Nat)
           below == {1..x : x \in T}
<1>1. IsWellFoundedOn(R, FiniteSubsetsOf(Nat))
  BY FS_StrictSubsetOrderingWellFounded
<1>2. below \subseteq FiniteSubsetsOf(Nat) /\ below # {}
  <2>1. \A x \in T : 1..x \in SUBSET Nat /\ IsFiniteSet(1..x)
    BY FS_Interval
  <2>2. QED
    BY <2>1 DEF FiniteSubsetsOf
<1> HIDE DEF R, below
<1>3. PICK b \in below : \A c \in below : ~(<<c, b>> \in R)
  BY <1>1, <1>2, WFMin
<1>4. PICK x \in T : b = 1..x
  BY DEF below
<1>5. ASSUME NEW y \in T, ~(x <= y)
      PROVE  FALSE
  <2>1. x \in Nat /\ y \in Nat
    OBVIOUS
  <2>2. 1..y \subseteq 1..x /\ 1..y # 1..x
    <3>1. x \in 1..x /\ x \notin 1..y
      BY <1>5, <2>1
    <3>2. \A k \in 1..y : k \in 1..x
      BY <1>5, <2>1
    <3>3. QED
      BY <3>1, <3>2
  <2>3. <<1..y, 1..x>> \in R
    BY <2>1, <2>2 DEF R, StrictSubsetOrdering
  <2>4. 1..y \in below
    BY DEF below
  <2>5. QED
    BY <1>3, <1>4, <2>3, <2>4
<1>6. QED
  BY <1>5

\* What holds of 0, and of each after the one before it, holds of all.
LEMMA UpTo ==
    ASSUME NEW n \in Nat, NEW Reached, 0 \in Reached, \A i \in 1..n : i - 1 \in Reached => i \in Reached
    PROVE  \A i \in 0..n : i \in Reached
<1> DEFINE T == {i \in 0..n : i \notin Reached}
<1>1. SUFFICES ASSUME T # {} PROVE FALSE
  OBVIOUS
<1>2. T \subseteq Nat
  OBVIOUS
<1>3. PICK x \in T : \A y \in T : x <= y
  <2> HIDE DEF T
  <2>1. QED
    BY <1>1, <1>2, LeastOfAny
<1>4. x \in 1..n /\ x - 1 \in 0..n
  OBVIOUS
<1>5. x - 1 \in Reached
  BY <1>3, <1>4
<1>6. QED
  BY <1>4, <1>5

\* Filtering leaves what is in the set.
LEMMA ThoseKept ==
    ASSUME NEW E, NEW seq \in Seq(E), NEW T
    PROVE  Those(seq, T) \in Seq(E \cap T)
<1> DEFINE S == Seq(E \cap T)
           n == Len(seq)
           Step(kept, x) == IF x \in T THEN Append(kept, x) ELSE kept
           IsRun(f) == f = [i \in 0..n |-> IF i = 0 THEN <<>> ELSE Step(f[i - 1], seq[i])]
           after == CHOOSE f : IsRun(f)
           Runs(m, f) == f[0] = <<>> /\ \A i \in 1..m : f[i] = Step(f[i - 1], seq[i])
           Reached == {m \in 0..n : \E f \in [0..m -> S] : Runs(m, f)}
<1>1. n \in Nat /\ seq \in [1..n -> E] /\ <<>> \in S
  BY LenProperties, EmptySeq
<1>2. \A s \in S, x \in E : Step(s, x) \in S
  BY AppendProperties
<1> HIDE DEF S, n, Step
<1>3. 0 \in Reached
  <2> DEFINE f == [i \in 0..0 |-> <<>>]
  <2>1. f \in [0..0 -> S] /\ Runs(0, f)
    BY <1>1
  <2>2. 0 \in 0..n
    BY <1>1
  <2> HIDE DEF f, Runs
  <2>3. QED
    BY <2>1, <2>2
<1>4. ASSUME NEW m \in 1..n, m - 1 \in Reached
      PROVE  m \in Reached
  <2>1. PICK f \in [0..(m - 1) -> S] : Runs(m - 1, f)
    BY <1>4
  <2> DEFINE h == [i \in 0..m |-> IF i = m THEN Step(f[m - 1], seq[m]) ELSE f[i]]
  <2>2. /\ m \in 0..n /\ m - 1 \in 0..(m - 1) /\ m # 0
        /\ \A i \in 0..m : i # m => i \in 0..(m - 1)
    BY <1>1
  <2>3. f[m - 1] \in S /\ seq[m] \in E
    BY <1>1, <2>2
  <2>4. Step(f[m - 1], seq[m]) \in S
    BY <1>2, <2>3
  <2>5. h \in [0..m -> S]
    BY <2>2, <2>4
  <2>6. ASSUME NEW i \in 1..m
        PROVE  h[i] = Step(h[i - 1], seq[i])
    <3>1. i - 1 \in 0..(m - 1) /\ h[i - 1] = f[i - 1]
      BY <1>1
    <3>2. CASE i = m
      BY <3>1, <3>2
    <3>3. CASE i # m
      <4>1. i \in 1..(m - 1) /\ h[i] = f[i]
        BY <1>1, <3>3
      <4>2. QED
        BY <2>1, <3>1, <4>1
    <3>4. QED
      BY <3>2, <3>3
  <2>7. h[0] = <<>>
    BY <1>1, <2>1, <2>2
  <2>8. Runs(m, h)
    BY <2>6, <2>7
  <2> HIDE DEF h, Runs
  <2>9. QED
    BY <2>2, <2>5, <2>8
<1>5. \A m \in 0..n : m \in Reached
  <2> HIDE DEF Reached
  <2>1. QED
    BY <1>1, <1>3, <1>4, UpTo
<1>6. n \in Reached
  BY <1>1, <1>5
<1>7. PICK f \in [0..n -> S] : Runs(n, f)
  BY <1>6
<1>8. IsRun(f)
  BY <1>1, <1>7
<1>9. IsRun(after)
  BY <1>8
<1> HIDE DEF after
<1>10. after[0] = <<>> /\ \A i \in 1..n : after[i] = Step(after[i - 1], seq[i])
  BY <1>1, <1>9
<1> DEFINE B == {i \in 0..n : after[i] \in S}
<1>11. 0 \in B /\ \A i \in 1..n : i - 1 \in B => i \in B
  BY <1>1, <1>2, <1>10
<1>12. \A i \in 0..n : i \in B
  <2> HIDE DEF B
  <2>1. QED
    BY <1>1, <1>11, UpTo
<1>13. after[n] \in S
  BY <1>1, <1>12
<1>14. Those(seq, T) = after[n]
  BY DEF Those, Step, after, n
<1>15. QED
  BY <1>13, <1>14 DEF S

-----------------------------------------------------------------------------
(* The third invariant: what is named anywhere is a passage, nothing is     *)
(* credited of what was never current, and a lost connection is not in use. *)

Labels == [id : Nat, p : Passages]
PlayStates == {"play", "pause", "stop"}
PollSteps == {"idle", "due", "song", "list"}
HandStages == {"none", "refresh", "read", "carry", "resume", "look", "found", "wait", "waited"}

SongsLabelled(ss) == \A n \in DOMAIN ss : ss[n].p \in Passages

OursLabelled(ours) ==
    \A id \in DOMAIN ours : /\ ours[id].p \in Passages
                            /\ ours[id].heard > 0 => ours[id].current

Carriage ==
    /\ local.queue \in Seq(Passages) /\ (local.head = Nobody \/ local.head.p \in Passages)
    /\ hand.ids \in Seq(Passages) /\ hand.left \subseteq DOMAIN hand.ids

Labelled ==
    /\ SongsLabelled(songs) /\ OursLabelled(backend.ours) /\ Carriage
    /\ backend.order \in Seq(Labels)
    /\ backend.head = Nobody \/ backend.head.p \in Passages

Staged ==
    /\ mpd.state \in PlayStates /\ active \in {"local", "guest"}
    /\ poll.step \in PollSteps /\ hand.stage \in HandStages
    /\ backend.lost => ~mpd.linked

\* Answers, and what sounds, name nothing.
LEMMA SongsRelabelled ==
    ASSUME SongsTyped(songs), SongsLabelled(songs), DOMAIN songs' = DOMAIN songs,
           \A n \in DOMAIN songs :
              \/ songs'[n] = songs[n]
              \/ \E a : songs'[n] = [songs[n] EXCEPT !.answer = a]
              \/ \E a : songs'[n] = [songs[n] EXCEPT !.through = a]
              \/ \E a, b : songs'[n] = [songs[n] EXCEPT !.sounded = a, !.through = b]
              \/ \E a, b : songs'[n] = [songs[n] EXCEPT !.seeks = a, !.through = b]
    PROVE  SongsLabelled(songs')
<1> SUFFICES ASSUME NEW n \in DOMAIN songs PROVE songs'[n].p = songs[n].p
  BY DEF SongsLabelled
<1>1. DOMAIN songs[n] = SongFields
  BY DEF SongsTyped
<1>2. QED
  BY <1>1 DEF SongFields

LEMMA OneRelabelled ==
    ASSUME SongsTyped(songs), SongsLabelled(songs), NEW n \in DOMAIN songs, NEW a, NEW b,
           \/ songs' = [songs EXCEPT ![n].through = a]
           \/ songs' = [songs EXCEPT ![n].sounded = a, ![n].through = b]
           \/ songs' = [songs EXCEPT ![n].seeks = a, ![n].through = b]
    PROVE  SongsLabelled(songs')
<1>1. DOMAIN songs' = DOMAIN songs /\ \A k \in DOMAIN songs : k # n => songs'[k] = songs[k]
  OBVIOUS
<1>2. \/ songs'[n] = [songs[n] EXCEPT !.through = a]
      \/ songs'[n] = [songs[n] EXCEPT !.sounded = a, !.through = b]
      \/ songs'[n] = [songs[n] EXCEPT !.seeks = a, !.through = b]
  <2>1. DOMAIN songs[n] = SongFields
    BY DEF SongsTyped
  <2>2. QED
    BY <2>1 DEF SongFields
<1>3. songs'[n].p = songs[n].p
  <2>1. DOMAIN songs[n] = SongFields
    BY DEF SongsTyped
  <2>2. QED
    BY <1>2, <2>1 DEF SongFields
<1>4. QED
  BY <1>1, <1>3 DEF SongsLabelled

LEMMA AnsweredLabelled ==
    ASSUME SongsTyped(songs), SongsLabelled(songs), NEW verdict, songs' = Answered(verdict)
    PROVE  SongsLabelled(songs')
<1>1. /\ DOMAIN songs' = DOMAIN songs
      /\ \A n \in DOMAIN songs : \/ songs'[n] = songs[n]
                                 \/ \E a : songs'[n] = [songs[n] EXCEPT !.answer = a]
  BY DEF Answered
<1>2. QED
  BY <1>1, SongsRelabelled

LEMMA OneMoreLabelled ==
    ASSUME Shaped, SongsLabelled(songs), NEW song, song.p \in Passages,
           songs' = Append(songs, song)
    PROVE  SongsLabelled(songs')
<1>1. PICK S : songs \in Seq(S)
  BY DEF Shaped
<1>2. songs \in Seq(S \cup {song})
  BY <1>1, SeqMonotonic
<1>3. /\ songs' \in Seq(S \cup {song}) /\ Len(songs') = Len(songs) + 1
      /\ \A n \in 1 .. Len(songs) : songs'[n] = songs[n]
      /\ songs'[Len(songs) + 1] = song
  BY <1>2, AppendProperties
<1>4. DOMAIN songs = 1 .. Len(songs) /\ DOMAIN songs' = 1 .. Len(songs) + 1
      /\ Len(songs) \in Nat
  BY <1>1, <1>3, LenProperties
<1>5. \A n \in DOMAIN songs' : n \in 1 .. Len(songs) \/ n = Len(songs) + 1
  BY <1>4
<1>6. QED
  BY <1>3, <1>4, <1>5 DEF SongsLabelled

LEMMA NewSongLabel ==
    ASSUME NEW p, NEW bounded PROVE NewSong(p, bounded).p = p
BY DEF NewSong

\* MPD goes on, or stops.
LEMMA ConsumedState ==
    ASSUME Shaped, Staged
    PROVE  Consumed(mpd).state \in PlayStates
<1> DEFINE i == IndexOf(mpd.queue, mpd.cur)
           rest == RemoveAt(mpd.queue, i)
<1>1. Consumed(mpd) =
         IF i <= Len(rest) THEN [mpd EXCEPT !.queue = rest, !.cur = rest[i].id, !.at = 0]
         ELSE [mpd EXCEPT !.queue = rest, !.cur = None, !.at = 0, !.state = "stop"]
  BY DEF Consumed
<1> HIDE DEF i, rest
<1>2. QED
  BY <1>1 DEF Shaped, Staged, MpdFields, PlayStates

LEMMA WorldLabelled ==
    ASSUME Consistent, Honest, Labelled, Staged, World PROVE Labelled' /\ Staged'
<1>1. UNCHANGED <<backend, poll, local, active, hand>>
  BY DEF World, MpdPlays, MpdDies, MpdReturns, ClientPlaysOrPauses, ClientAdds,
         ClientDeletes, ClientSeeks
<1>a. /\ Shaped /\ Queued /\ SongsTyped(songs) /\ SongsLabelled(songs)
      /\ DOMAIN mpd = MpdFields /\ mpd.state \in PlayStates
      /\ mpd.cur # None => mpd.cur \in IdsIn(mpd.queue)
      /\ {"play", "pause", "stop"} = PlayStates
  BY DEF Consistent, Shaped, Queued, Honest, Labelled, Staged, PlayStates
<1> DEFINE Well == SongsLabelled(songs') /\ mpd'.state \in PlayStates
                   /\ (mpd'.linked => mpd.linked)
<1>2. ASSUME MpdPlays PROVE Well
  <2> DEFINE n == SongOf(mpd.cur)
  <2>1. n \in DOMAIN songs
    BY <1>2, <1>a, SongThere DEF MpdPlays
  <2>2. PICK a, b : songs' = [songs EXCEPT ![n].sounded = a, ![n].through = b]
    BY <1>2 DEF MpdPlays
  <2>3. mpd' = [mpd EXCEPT !.at = @ + 1] \/ mpd' = Consumed(mpd)
    BY <1>2 DEF MpdPlays
  <2> HIDE DEF n
  <2>4. SongsLabelled(songs')
    BY <1>a, <2>1, <2>2, OneRelabelled
  <2>5. mpd'.state \in PlayStates /\ mpd'.linked = mpd.linked
    BY <1>a, <2>3, ConsumedState, ConsumedAt DEF MpdFields
  <2>6. Well
    BY <2>4, <2>5
  <2>7. QED
    BY <2>6
<1>3. ASSUME MpdDies PROVE Well
  <2>1. /\ mpd' = [mpd EXCEPT !.up = FALSE, !.linked = FALSE]
        /\ songs' = [n \in DOMAIN songs |-> [songs[n] EXCEPT !.through = FALSE]]
    BY <1>3 DEF MpdDies
  <2>2. mpd'.state = mpd.state /\ ~mpd'.linked
    BY <1>a, <2>1 DEF MpdFields
  <2>3. DOMAIN songs' = DOMAIN songs
        /\ \A n \in DOMAIN songs : \E a : songs'[n] = [songs[n] EXCEPT !.through = a]
    BY <2>1
  <2>4. SongsLabelled(songs')
    BY <1>a, <2>3, SongsRelabelled
  <2>5. QED
    BY <1>a, <2>2, <2>4
<1>4. ASSUME MpdReturns PROVE Well
  <2>1. PICK state \in {mpd.state, "pause"} :
          mpd' = [mpd EXCEPT !.up = TRUE, !.nextId = Len(mpd.queue) + 1,
                      !.queue = [i \in DOMAIN mpd.queue |-> [id |-> i, n |-> mpd.queue[i].n]],
                      !.cur = IF mpd.cur = None THEN None ELSE IndexOf(mpd.queue, mpd.cur),
                      !.state = IF mpd.cur = None THEN "stop" ELSE state]
    BY <1>4 DEF MpdReturns
  <2>2. mpd'.state \in {mpd.state, "pause", "stop"} /\ mpd'.linked = mpd.linked
    BY <1>a, <2>1 DEF MpdFields
  <2>3. songs' = songs
    BY <1>4 DEF MpdReturns
  <2>4. mpd'.state \in PlayStates
    BY <1>a, <2>2 DEF PlayStates
  <2>5. QED
    BY <1>a, <2>2, <2>3, <2>4
<1>5. ASSUME ClientPlaysOrPauses PROVE Well
  <2>1. \/ mpd' = [mpd EXCEPT !.state = "pause"] \/ mpd' = [mpd EXCEPT !.state = "play"]
        \/ mpd' = [mpd EXCEPT !.cur = mpd.queue[1].id, !.at = 0, !.state = "play"]
    BY <1>5 DEF ClientPlaysOrPauses, Sought
  <2>2. mpd'.state \in {"play", "pause"} /\ mpd'.linked = mpd.linked
    BY <1>a, <2>1 DEF MpdFields
  <2>3. songs' = songs
    BY <1>5 DEF ClientPlaysOrPauses
  <2>4. mpd'.state \in PlayStates
    BY <2>2 DEF PlayStates
  <2>5. QED
    BY <1>a, <2>2, <2>3, <2>4
<1>6. ASSUME NEW p \in Passages, ClientAdds(p) PROVE Well
  <2>1. mpd' = Added(mpd) /\ songs' = Append(songs, NewSong(p, TRUE))
    BY <1>6 DEF ClientAdds
  <2>2. mpd'.state = mpd.state /\ mpd'.linked = mpd.linked
    BY <1>a, <2>1 DEF Added, MpdFields
  <2>3. NewSong(p, TRUE).p \in Passages
    BY NewSongLabel
  <2>4. SongsLabelled(songs')
    BY <1>a, <2>1, <2>3, OneMoreLabelled
  <2>5. QED
    BY <1>a, <2>2, <2>4
<1>7. ASSUME NEW id \in IdsIn(mpd.queue), ClientDeletes(id) PROVE Well
  <2>1. mpd' = Removed(mpd, id) /\ songs' = songs
    BY <1>7 DEF ClientDeletes
  <2>2. mpd'.state \in PlayStates /\ mpd'.linked = mpd.linked
    <3>1. CASE id = mpd.cur
      BY <1>a, <2>1, <3>1, ConsumedAt, ConsumedState DEF Removed
    <3>2. CASE id # mpd.cur
      BY <1>a, <2>1, <3>2 DEF Removed, MpdFields
    <3>3. QED
      BY <3>1, <3>2
  <2>3. QED
    BY <1>a, <2>1, <2>2
<1>8. ASSUME NEW at, ClientSeeks(at) PROVE Well
  <2> DEFINE n == SongOf(mpd.cur)
  <2>1. n \in DOMAIN songs
    BY <1>8, <1>a, SongThere DEF ClientSeeks
  <2>2. PICK a, b : songs' = [songs EXCEPT ![n].seeks = a, ![n].through = b]
    BY <1>8 DEF ClientSeeks
  <2>3. mpd'.state = mpd.state /\ mpd'.linked = mpd.linked
    BY <1>8, <1>a DEF ClientSeeks, MpdFields
  <2> HIDE DEF n
  <2>4. SongsLabelled(songs')
    BY <1>a, <2>1, <2>2, OneRelabelled
  <2>5. QED
    BY <1>a, <2>3, <2>4
<1>9. Well
  <2> HIDE DEF Well
  <2>1. CASE MpdPlays
    BY <1>2, <2>1
  <2>2. QED
    BY <1>2, <1>3, <1>4, <1>5, <1>6, <1>7, <1>8 DEF World
<1>10. QED
  BY <1>1, <1>9 DEF Labelled, Staged, Carriage

\* A sample makes current what it credits.
LEMMA SampledLabelled ==
    ASSUME NEW b, DOMAIN b = BackendFields, OursTyped(b.ours), OursLabelled(b.ours), NEW id, NEW at
    PROVE  /\ OursLabelled(Sampled(b, id, at).ours)
           /\ Sampled(b, id, at).lost = b.lost /\ Sampled(b, id, at).order = b.order
<1>1. CASE id \notin DOMAIN b.ours
  BY <1>1 DEF Sampled
<1>2. CASE id \in DOMAIN b.ours /\ ~b.playing
  <2>1. Sampled(b, id, at) = [b EXCEPT !.ours[id].current = TRUE]
    BY <1>2 DEF Sampled
  <2>2. DOMAIN b.ours[id] = OfferedFields
    BY <1>2 DEF OursTyped
  <2> DEFINE r == [b.ours[id] EXCEPT !.current = TRUE]
  <2>3. r.p = b.ours[id].p /\ r.current = TRUE
    BY <2>2 DEF OfferedFields
  <2>4. /\ Sampled(b, id, at).ours = [b.ours EXCEPT ![id] = r]
        /\ Sampled(b, id, at).lost = b.lost /\ Sampled(b, id, at).order = b.order
    BY <1>2, <2>1 DEF BackendFields
  <2> HIDE DEF r
  <2>5. QED
    BY <1>2, <2>3, <2>4 DEF OursLabelled
<1>3. CASE id \in DOMAIN b.ours /\ b.playing
  <2>1. PICK x, y : Sampled(b, id, at) =
           [b EXCEPT !.ours[id].current = TRUE, !.ours[id].seen = at,
                     !.ours[id].heard = x, !.ours[id].furthest = y]
    BY <1>3 DEF Sampled
  <2>2. DOMAIN b.ours[id] = OfferedFields
    BY <1>3 DEF OursTyped
  <2> DEFINE r == [b.ours[id] EXCEPT !.current = TRUE, !.seen = at, !.heard = x, !.furthest = y]
  <2>3. r.p = b.ours[id].p /\ r.current = TRUE
    BY <2>2 DEF OfferedFields
  <2>4. /\ Sampled(b, id, at).ours = [b.ours EXCEPT ![id] = r]
        /\ Sampled(b, id, at).lost = b.lost /\ Sampled(b, id, at).order = b.order
    BY <1>3, <2>1 DEF BackendFields
  <2> HIDE DEF r
  <2>5. QED
    BY <1>3, <2>3, <2>4 DEF OursLabelled
<1>4. QED
  BY <1>1, <1>2, <1>3

\* What is offered is what was asked for, and a lost connection stays lost.
LEMMA EnqueuedLabelled ==
    ASSUME Consistent, Honest, Labelled, Staged, NEW p \in Passages, Enqueued(p),
           UNCHANGED <<poll, active>>
    PROVE  /\ SongsLabelled(songs') /\ OursLabelled(backend'.ours)
           /\ backend'.order = backend.order /\ backend'.head = backend.head
           /\ mpd'.state \in PlayStates /\ (backend'.lost => ~mpd'.linked)
<1>a. /\ Shaped /\ DOMAIN backend = BackendFields /\ DOMAIN mpd = MpdFields
      /\ SongsLabelled(songs) /\ OursLabelled(backend.ours)
      /\ mpd.state \in PlayStates /\ (backend.lost => ~mpd.linked)
  BY DEF Consistent, Shaped, Labelled, Staged
<1>1. CASE p \in Outside
  <2>1. backend' = [backend EXCEPT !.dropped = Append(@, p)] /\ UNCHANGED <<mpd, songs>>
    BY <1>1 DEF Enqueued
  <2>2. QED
    BY <1>a, <2>1 DEF BackendFields
<1>2. CASE p \notin Outside /\ ~mpd.linked
  <2>1. backend' = [backend EXCEPT !.dropped = Append(@, p), !.lost = TRUE]
        /\ UNCHANGED <<mpd, songs>>
    BY <1>2 DEF Enqueued
  <2>2. QED
    BY <1>a, <1>2, <2>1 DEF BackendFields
<1>3. CASE p \notin Outside /\ mpd.linked
  <2>1. PICK honoured \in {TRUE, (p \in Whole)} :
           LET o == Offered(Len(songs) + 1, p, honoured, FALSE, FALSE)
           IN  /\ backend' = [backend EXCEPT !.len = @ + 1,
                        !.ours = [i \in DOMAIN @ \cup {mpd.nextId} |->
                                     IF i = mpd.nextId THEN o ELSE @[i]]]
               /\ mpd' = Added(mpd)
               /\ songs' = Append(songs, NewSong(p, honoured))
    BY <1>3 DEF Enqueued
  <2> DEFINE o == Offered(Len(songs) + 1, p, honoured, FALSE, FALSE)
             ours == [i \in DOMAIN backend.ours \cup {mpd.nextId} |->
                         IF i = mpd.nextId THEN o ELSE backend.ours[i]]
  <2>2. o.p = p /\ ~(o.heard > 0)
    BY DEF Offered
  <2>3. /\ backend'.ours = ours /\ backend'.order = backend.order
        /\ backend'.head = backend.head /\ backend'.lost = backend.lost
    BY <1>a, <2>1 DEF BackendFields
  <2> HIDE DEF o
  <2>4. OursLabelled(ours)
    BY <1>a, <2>2 DEF OursLabelled
  <2>5. mpd'.state = mpd.state /\ mpd'.linked = mpd.linked
    BY <1>a, <2>1 DEF Added, MpdFields
  <2>6. NewSong(p, honoured).p \in Passages
    BY NewSongLabel
  <2>7. SongsLabelled(songs')
    BY <1>a, <2>1, <2>6, OneMoreLabelled
  <2>8. QED
    BY <1>a, <2>3, <2>4, <2>5, <2>7
<1>4. QED
  BY <1>1, <1>2, <1>3

LEMMA PollOverStaged ==
    ASSUME DOMAIN hand = HandFields, hand.stage \in HandStages, PollOver
    PROVE  /\ poll'.step = "idle" /\ hand'.stage \in HandStages
           /\ hand'.ids = hand.ids /\ hand'.left = hand.left
<1>1. PICK s : hand' = [hand EXCEPT !.stage = s] /\ s \in {"read", "found", "waited", hand.stage}
  BY DEF PollOver
<1>2. poll'.step = "idle"
  BY DEF PollOver
<1>3. QED
  BY <1>1, <1>2 DEF HandFields, HandStages

LEMMA GuestedLabelled ==
    ASSUME Consistent, Honest, Labelled, Staged, Guested PROVE Labelled' /\ Staged'
<1>a. /\ Shaped /\ Queued /\ Holds /\ SongsTyped(songs) /\ OursTyped(backend.ours)
      /\ SongsLabelled(songs) /\ OursLabelled(backend.ours)
      /\ DOMAIN mpd = MpdFields /\ DOMAIN backend = BackendFields
      /\ DOMAIN poll = PollFields /\ DOMAIN hand = HandFields
      /\ backend.order \in Seq(Labels) /\ (backend.head = Nobody \/ backend.head.p \in Passages)
      /\ mpd.state \in PlayStates /\ poll.step \in PollSteps /\ hand.stage \in HandStages
      /\ backend.lost => ~mpd.linked
  BY DEF Consistent, Shaped, Honest, Placed, Labelled, Staged
<1>b. UNCHANGED <<local, active>>
  BY DEF Guested, Reconnect, PollStatus, PollSong, PollList, SessionTakes, Refill, SeekTo
<1> DEFINE Well ==
       /\ SongsLabelled(songs') /\ OursLabelled(backend'.ours)
       /\ backend'.order \in Seq(Labels) /\ (backend'.head = Nobody \/ backend'.head.p \in Passages)
       /\ mpd'.state \in PlayStates /\ (backend'.lost => ~mpd'.linked)
       /\ poll'.step \in PollSteps /\ hand'.stage \in HandStages
       /\ hand'.ids = hand.ids /\ hand'.left = hand.left
<1>1. ASSUME Reconnect PROVE Well
  <2>1. /\ mpd' = [mpd EXCEPT !.linked = TRUE] /\ backend' = Reconnected(backend)
        /\ UNCHANGED <<poll, hand>>
        /\ songs' = Answered([id \in DOMAIN backend.ours \ DOMAIN backend'.ours |-> "dropped"])
    BY <1>1 DEF Reconnect
  <2>2. /\ backend'.ours = <<>> /\ backend'.order = <<>> /\ backend'.head = Nobody
        /\ backend'.lost = FALSE
    BY <1>a, <2>1 DEF Reconnected, BackendFields
  <2>3. mpd'.state = mpd.state
    BY <1>a, <2>1 DEF MpdFields
  <2>4. SongsLabelled(songs')
    BY <1>a, <2>1, AnsweredLabelled
  <2>5. DOMAIN backend'.ours = {} /\ backend'.order \in Seq(Labels)
    BY <2>2, EmptySeq
  <2>6. QED
    BY <1>a, <2>1, <2>2, <2>3, <2>4, <2>5 DEF OursLabelled
<1>2. ASSUME PollStatus PROVE Well
  <2>1. songs' = songs
    BY <1>2 DEF PollStatus
  <2>2. CASE ~mpd.linked
    <3>1. MarkLost /\ PollOver /\ UNCHANGED mpd
      BY <1>2, <2>2 DEF PollStatus
    <3>2. /\ backend'.ours = backend.ours /\ backend'.order = backend.order
          /\ backend'.head = backend.head
      BY <1>a, <3>1 DEF MarkLost, BackendFields
    <3>3. poll'.step \in PollSteps
      BY <1>a, <3>1, PollOverStaged DEF PollSteps
    <3>4. QED
      BY <1>a, <2>1, <2>2, <3>1, <3>2, <3>3, PollOverStaged
  <2>3. CASE mpd.linked
    <3> DEFINE known == mpd.cur \in DOMAIN backend.ours
               head == IF known /\ mpd.state = "play"
                       THEN [p |-> backend.ours[mpd.cur].p, at |-> mpd.at] ELSE Nobody
               b == [backend EXCEPT !.playing = (mpd.state = "play"), !.len = Len(mpd.queue),
                         !.head = head]
    <3>1. /\ backend' = Sampled(b, mpd.cur, mpd.at)
          /\ mpd' = mpd \/ mpd' = Consumed(mpd)
          /\ poll'.step \in {"list", "song"}
          /\ UNCHANGED hand
      BY <1>2, <2>3 DEF PollStatus
    <3>2. /\ DOMAIN b = BackendFields /\ b.head = head /\ b.ours = backend.ours
          /\ b.order = backend.order /\ b.lost = backend.lost
      BY <1>a DEF BackendFields
    <3>3. head = Nobody \/ head.p \in Passages
      BY <1>a DEF OursLabelled
    <3> HIDE DEF b, head
    <3>4. backend'.head = head
      BY <3>1, <3>2, SampledHead
    <3>5. /\ OursLabelled(backend'.ours) /\ backend'.order = backend.order
          /\ backend'.lost = backend.lost
      BY <1>a, <3>1, <3>2, SampledLabelled
    <3>6. mpd'.state \in PlayStates
      BY <1>a, <3>1, ConsumedState
    <3>7. mpd'.linked = mpd.linked
      BY <1>a, <3>1, ConsumedAt
    <3>8. poll'.step \in PollSteps
      BY <3>1 DEF PollSteps
    <3>9. QED
      BY <1>a, <2>1, <2>3, <3>1, <3>3, <3>4, <3>5, <3>6, <3>7, <3>8
  <2>4. QED
    BY <2>2, <2>3
<1>3. ASSUME PollSong PROVE Well
  <2>1. poll' = [poll EXCEPT !.step = "list"] /\ UNCHANGED hand
    BY <1>3 DEF PollSong
  <2>2. poll'.step = "list" /\ poll'.step \in PollSteps
    BY <1>a, <2>1 DEF PollFields, PollSteps
  <2>3. CASE UNCHANGED <<mpd, backend, songs>>
    BY <1>a, <2>1, <2>2, <2>3
  <2>4. CASE ~UNCHANGED <<mpd, backend, songs>>
    <3> DEFINE again == songs[poll.n].answer # "none"
               n == IF again THEN Len(songs) + 1 ELSE poll.n
               o == Offered(n, songs[SongOf(mpd.cur)].p, TRUE, TRUE, TRUE)
               ours == [id \in DOMAIN backend.ours \cup {poll.id} |->
                           IF id = poll.id THEN o ELSE backend.ours[id]]
               b == [backend EXCEPT !.ours = ours]
    <3>1. /\ poll.step = "song" /\ mpd.linked /\ mpd.cur # None
          /\ backend' = Sampled(b, poll.id, poll.at)
          /\ songs' = IF again THEN Append(songs, [songs[poll.n] EXCEPT !.answer = "none"])
                      ELSE songs
          /\ \E q : mpd' = [mpd EXCEPT !.queue = q]
      BY <1>3, <2>4 DEF PollSong
    <3>2. SongOf(mpd.cur) \in DOMAIN songs /\ poll.n \in DOMAIN songs
      <4>1. mpd.cur \in IdsIn(mpd.queue)
        BY <1>a, <3>1 DEF Queued
      <4>2. QED
        BY <3>1, <4>1, SongThere DEF Consistent, Polling
    <3>3. o.p \in Passages /\ ~(o.heard > 0) /\ DOMAIN o = OfferedFields /\ o.heard = 0
          /\ o.seen = NotSeen
      BY <1>a, <3>2 DEF SongsLabelled, Offered, OfferedFields
    <3> HIDE DEF o, n
    <3>4. OursLabelled(ours)
      BY <1>a, <3>3 DEF OursLabelled
    <3>5. OursTyped(ours)
      BY <1>a, <3>3 DEF OursTyped
    <3> HIDE DEF ours
    <3>6. /\ DOMAIN b = BackendFields /\ b.ours = ours /\ b.head = backend.head
          /\ b.order = backend.order /\ b.lost = backend.lost
      BY <1>a DEF BackendFields
    <3> HIDE DEF b
    <3>7. /\ OursLabelled(backend'.ours) /\ backend'.order = backend.order
          /\ backend'.lost = backend.lost
      BY <3>1, <3>4, <3>5, <3>6, SampledLabelled
    <3>8. backend'.head = backend.head
      BY <3>1, <3>6, SampledHead
    <3>9. mpd'.state = mpd.state /\ mpd'.linked = mpd.linked
      BY <1>a, <3>1 DEF MpdFields
    <3>10. SongsLabelled(songs')
      <4> DEFINE song == [songs[poll.n] EXCEPT !.answer = "none"]
      <4>1. song.p = songs[poll.n].p
        BY <1>a, <3>2 DEF SongsTyped, SongFields
      <4>2. song.p \in Passages
        BY <1>a, <3>2, <4>1 DEF SongsLabelled
      <4>3. songs' = songs \/ songs' = Append(songs, song)
        BY <3>1
      <4> HIDE DEF song
      <4>4. QED
        BY <1>a, <4>2, <4>3, OneMoreLabelled
    <3>11. QED
      BY <1>a, <2>1, <2>2, <3>7, <3>8, <3>9, <3>10
  <2>5. QED
    BY <2>3, <2>4
<1>4. ASSUME PollList PROVE Well
  <2>1. PollOver /\ UNCHANGED mpd
    BY <1>4 DEF PollList
  <2>2. poll'.step \in PollSteps
    BY <1>a, <2>1, PollOverStaged DEF PollSteps
  <2>3. CASE ~mpd.linked
    <3>1. MarkLost /\ songs' = songs
      BY <1>4, <2>3 DEF PollList
    <3>2. /\ backend'.ours = backend.ours /\ backend'.order = backend.order
          /\ backend'.head = backend.head
      BY <1>a, <3>1 DEF MarkLost, BackendFields
    <3>3. QED
      BY <1>a, <2>1, <2>2, <2>3, <3>1, <3>2, PollOverStaged
  <2>4. CASE mpd.linked
    <3> DEFINE gone == DOMAIN backend.ours \ IdsIn(mpd.queue)
               order == [i \in DOMAIN mpd.queue |->
                            [id |-> mpd.queue[i].id, p |-> songs[mpd.queue[i].n].p]]
    <3>1. PICK dropped :
             backend' = [backend EXCEPT !.order = order,
                            !.ours = [id \in DOMAIN @ \ gone |-> @[id]],
                            !.dropped = dropped]
      BY <1>4, <2>4 DEF PollList
    <3>2. songs' = Answered([id \in gone |-> Verdict(backend.ours[id])])
      BY <1>4, <2>4 DEF PollList
    <3>3. order \in Seq(Labels)
      <4>1. mpd.queue \in Seq(Entries)
        BY <1>a DEF Shaped
      <4>2. Len(mpd.queue) \in Nat /\ DOMAIN mpd.queue = 1 .. Len(mpd.queue)
            /\ \A i \in DOMAIN mpd.queue : mpd.queue[i] \in Entries
        BY <4>1, LenProperties, ElementOfSeq
      <4>3. \A i \in DOMAIN mpd.queue : /\ mpd.queue[i].id \in Nat
                                        /\ mpd.queue[i].n \in DOMAIN songs
        BY <1>a, <4>2 DEF Entries, Queued
      <4>4. \A i \in DOMAIN mpd.queue : order[i] \in Labels
        BY <1>a, <4>3 DEF Labels, SongsLabelled
      <4>5. order \in [1 .. Len(mpd.queue) -> Labels]
        BY <4>2, <4>4
      <4> HIDE DEF order
      <4>6. QED
        BY <4>2, <4>5, SeqDef
    <3> HIDE DEF order, gone
    <3>4. /\ DOMAIN backend'.ours = DOMAIN backend.ours \ gone
          /\ \A id \in DOMAIN backend'.ours : backend'.ours[id] = backend.ours[id]
          /\ backend'.order = order /\ backend'.head = backend.head
          /\ backend'.lost = backend.lost
      BY <1>a, <3>1 DEF BackendFields
    <3>5. OursLabelled(backend'.ours)
      BY <1>a, <3>4 DEF OursLabelled
    <3>6. SongsLabelled(songs')
      BY <1>a, <3>2, AnsweredLabelled
    <3>7. QED
      BY <1>a, <2>1, <2>2, <3>3, <3>4, <3>5, <3>6, PollOverStaged
  <2>5. QED
    BY <2>3, <2>4
<1>5. ASSUME SessionTakes PROVE Well
  <2>1. backend' = [backend EXCEPT !.dropped = <<>>] /\ UNCHANGED <<mpd, poll, songs, hand>>
    BY <1>5 DEF SessionTakes
  <2>2. /\ backend'.ours = backend.ours /\ backend'.order = backend.order
        /\ backend'.head = backend.head /\ backend'.lost = backend.lost
    BY <1>a, <2>1 DEF BackendFields
  <2>3. QED
    BY <1>a, <2>1, <2>2
<1>6. ASSUME NEW p \in Passages, Refill(p) PROVE Well
  <2>1. Enqueued(p) /\ UNCHANGED <<poll, active, hand>>
    BY <1>6 DEF Refill
  <2>2. QED
    BY <1>a, <2>1, EnqueuedLabelled
<1>7. ASSUME NEW at, SeekTo(at) PROVE Well
  <2>1. PICK id \in DOMAIN backend.ours :
          /\ id \in IdsIn(mpd.queue)
          /\ mpd' = Sought(mpd, id, at)
          /\ backend' = [backend EXCEPT !.ours[id].seen = NotSeen, !.head.at = at]
          /\ songs' = [songs EXCEPT ![SongOf(id)].through = FALSE]
    BY <1>7 DEF SeekTo
  <2>2. SongOf(id) \in DOMAIN songs
    BY <2>1, SongThere
  <2>3. SongsLabelled(songs')
    BY <1>a, <2>1, <2>2, OneRelabelled
  <2>4. mpd'.state = "play" /\ mpd'.linked = mpd.linked
    BY <1>a, <2>1 DEF Sought, MpdFields
  <2>5. mpd'.state \in PlayStates
    BY <2>4 DEF PlayStates
  <2> DEFINE r == [backend.ours[id] EXCEPT !.seen = NotSeen]
             h == [backend.head EXCEPT !.at = at]
  <2>6. /\ backend'.ours = [backend.ours EXCEPT ![id] = r] /\ backend'.head = h
        /\ backend'.order = backend.order /\ backend'.lost = backend.lost
    BY <1>a, <2>1 DEF BackendFields
  <2>7. /\ r.p = backend.ours[id].p /\ r.heard = backend.ours[id].heard
        /\ r.current = backend.ours[id].current
    BY <1>a DEF OursTyped, OfferedFields
  <2>8. h.p = backend.head.p /\ backend.head.p \in Passages
    BY <1>7, <1>a DEF SeekTo, Honest, Placed, HeadFields
  <2> HIDE DEF r, h
  <2>9. OursLabelled(backend'.ours)
    BY <1>a, <2>6, <2>7 DEF OursLabelled
  <2>10. UNCHANGED <<poll, hand>>
    BY <1>7 DEF SeekTo
  <2>11. QED
    BY <1>a, <2>3, <2>4, <2>5, <2>6, <2>8, <2>9, <2>10
<1>8. Well
  <2> HIDE DEF Well
  <2>1. QED
    BY <1>1, <1>2, <1>3, <1>4, <1>5, <1>6, <1>7 DEF Guested
<1>9. QED
  BY <1>b, <1>8 DEF Labelled, Staged, Carriage

\* What a handover reads is made of passages.
LEMMA QueuedIdsArePassages ==
    ASSUME Labelled, OursTyped(backend.ours)
    PROVE  QueuedIds \in Seq(Passages)
<1>1. CASE active = "local"
  BY <1>1 DEF QueuedIds, Labelled, Carriage
<1>2. CASE active # "local"
  <2> DEFINE S == {e \in ToSet(backend.order) : e.id \in DOMAIN backend.ours \/ e.p \in Whole}
             named == Those(backend.order, S)
             ids == [i \in DOMAIN named |-> IF named[i].id \in DOMAIN backend.ours
                                            THEN backend.ours[named[i].id].p ELSE named[i].p]
  <2>1. QueuedIds = ids
    BY <1>2 DEF QueuedIds
  <2> HIDE DEF S
  <2>2. named \in Seq(Labels \cap S)
    BY ThoseKept DEF Labelled
  <2> HIDE DEF named
  <2>3. Len(named) \in Nat /\ DOMAIN named = 1 .. Len(named)
        /\ \A i \in DOMAIN named : named[i] \in Labels
    BY <2>2, LenProperties, ElementOfSeq
  <2>4. \A i \in DOMAIN named : ids[i] \in Passages
    BY <2>3 DEF Labels, Labelled, OursLabelled
  <2>5. ids \in [1 .. Len(named) -> Passages]
    BY <2>3, <2>4
  <2> HIDE DEF ids
  <2>6. QED
    BY <2>1, <2>3, <2>5, SeqDef
<1>3. QED
  BY <1>1, <1>2

LEMMA HandoverLabelled ==
    ASSUME Consistent, Honest, Labelled, Staged, HandsOver PROVE Labelled' /\ Staged'
<1>a. /\ Shaped /\ SongsTyped(songs) /\ OursTyped(backend.ours)
      /\ SongsLabelled(songs) /\ OursLabelled(backend.ours)
      /\ DOMAIN mpd = MpdFields /\ DOMAIN backend = BackendFields
      /\ DOMAIN poll = PollFields /\ DOMAIN hand = HandFields /\ DOMAIN local = LocalFields
      /\ backend.order \in Seq(Labels) /\ (backend.head = Nobody \/ backend.head.p \in Passages)
      /\ local.queue \in Seq(Passages) /\ (local.head = Nobody \/ local.head.p \in Passages)
      /\ hand.ids \in Seq(Passages) /\ hand.left \subseteq DOMAIN hand.ids
      /\ mpd.state \in PlayStates /\ poll.step \in PollSteps /\ hand.stage \in HandStages
      /\ active \in {"local", "guest"}
      /\ backend.lost => ~mpd.linked
  BY DEF Consistent, Shaped, Honest, Placed, Labelled, Staged, Carriage
<1> DEFINE Backed == /\ SongsLabelled(songs') /\ OursLabelled(backend'.ours)
                     /\ backend'.order \in Seq(Labels)
                     /\ backend'.head = Nobody \/ backend'.head.p \in Passages
           Stages == /\ mpd'.state \in PlayStates /\ active' \in {"local", "guest"}
                     /\ poll'.step \in PollSteps /\ hand'.stage \in HandStages
                     /\ backend'.lost => ~mpd'.linked
<1>b. /\ \A s \in {"read", "refresh", "carry", "wait", "resume", "look", "none"} : s \in HandStages
      /\ "due" \in PollSteps /\ "play" \in PlayStates /\ "stop" \in PlayStates
  BY DEF HandStages, PollSteps, PlayStates
<1>c. ASSUME UNCHANGED <<backend, songs>> PROVE Backed
  BY <1>a, <1>c
<1>1. CASE HandBegins
  <2>1. PICK s \in {"refresh", "read"} :
          /\ hand' = [hand EXCEPT !.stage = s, !.moved = {}, !.lost = <<>>]
          /\ poll' = poll \/ poll' = [poll EXCEPT !.step = "due"]
          /\ UNCHANGED <<mpd, backend, local, active, songs>>
    BY <1>1 DEF HandBegins
  <2>2. hand'.stage = s /\ hand'.ids = hand.ids /\ hand'.left = hand.left
        /\ poll'.step \in {poll.step, "due"}
    BY <1>a, <2>1 DEF HandFields, PollFields
  <2>3. Carriage' /\ Stages
    BY <1>a, <1>b, <2>1, <2>2 DEF Carriage
  <2>4. Backed
    BY <1>c, <2>1
  <2>5. QED
    BY <2>3, <2>4 DEF Labelled, Staged
<1>2. CASE HandReads
  <2> DEFINE head == IF active = "local" THEN local.head ELSE backend.head
             worth == head # Nobody /\ head.at + Remnant < Span
             first == IF worth THEN <<head.p>> ELSE <<>>
             rest == Those(QueuedIds, Passages \ {head.p})
             ids == first \o rest
  <2>1. PICK resume :
          hand' = [hand EXCEPT !.stage = "carry", !.ids = ids, !.left = DOMAIN ids,
                               !.resume = resume]
    BY <1>2 DEF HandReads
  <2>2. /\ UNCHANGED <<mpd, poll, local, active, songs>>
        /\ backend' = backend \/ backend' = [backend EXCEPT !.dropped = <<>>]
    BY <1>2 DEF HandReads
  <2>3. first \in Seq(Passages)
    <3>1. head = Nobody \/ head.p \in Passages
      BY <1>a
    <3> HIDE DEF head
    <3>2. QED
      BY <3>1
  <2>4. rest \in Seq(Passages)
    <3>1. QueuedIds \in Seq(Passages)
      BY <1>a, QueuedIdsArePassages
    <3> DEFINE T == Passages \ {head.p}
    <3> HIDE DEF T
    <3>2. Those(QueuedIds, T) \in Seq(Passages \cap T)
      BY <3>1, ThoseKept
    <3>3. Seq(Passages \cap T) \subseteq Seq(Passages)
      BY SeqMonotonic
    <3>4. QED
      BY <3>2, <3>3 DEF T
  <2>5. ids \in Seq(Passages)
    <3> HIDE DEF first, rest
    <3>1. QED
      BY <2>3, <2>4, ConcatProperties
  <2> HIDE DEF ids
  <2>6. hand'.stage = "carry" /\ hand'.ids = ids /\ hand'.left = DOMAIN ids
    BY <1>a, <2>1 DEF HandFields
  <2>7. /\ backend'.ours = backend.ours /\ backend'.order = backend.order
        /\ backend'.head = backend.head /\ backend'.lost = backend.lost
    BY <1>a, <2>2 DEF BackendFields
  <2>8. Carriage' /\ Stages /\ Backed
    BY <1>a, <1>b, <2>2, <2>5, <2>6, <2>7 DEF Carriage
  <2>9. QED
    BY <2>8 DEF Labelled, Staged
<1>3. CASE HandEnqueues
  <2>1. PICK i \in hand.left :
          /\ hand.stage = "carry"
          /\ hand' = [hand EXCEPT !.left = @ \ {i}]
          /\ \/ Enqueued(hand.ids[i]) /\ UNCHANGED local
             \/ /\ local' = [local EXCEPT !.queue = Append(@, hand.ids[i])]
                /\ UNCHANGED <<mpd, backend, songs>>
          /\ UNCHANGED <<poll, active>>
    BY <1>3 DEF HandEnqueues
  <2>2. hand.ids[i] \in Passages
    BY <1>a, LenProperties, ElementOfSeq
  <2>3. hand'.stage = hand.stage /\ hand'.ids = hand.ids /\ hand'.left = hand.left \ {i}
    BY <1>a, <2>1 DEF HandFields
  <2>4. CASE Enqueued(hand.ids[i]) /\ UNCHANGED local
    <3>1. Backed /\ mpd'.state \in PlayStates /\ (backend'.lost => ~mpd'.linked)
      BY <1>a, <2>1, <2>2, <2>4, EnqueuedLabelled
    <3>2. Carriage' /\ Stages
      BY <1>a, <2>1, <2>3, <2>4, <3>1 DEF Carriage
    <3>3. QED
      BY <3>1, <3>2 DEF Labelled, Staged
  <2>5. CASE /\ local' = [local EXCEPT !.queue = Append(@, hand.ids[i])]
             /\ UNCHANGED <<mpd, backend, songs>>
    <3>1. local'.queue = Append(local.queue, hand.ids[i]) /\ local'.head = local.head
      BY <1>a, <2>5 DEF LocalFields
    <3>2. local'.queue \in Seq(Passages)
      BY <1>a, <2>2, <3>1, AppendProperties
    <3>3. Carriage' /\ Stages /\ Backed
      BY <1>a, <2>1, <2>3, <2>5, <3>1, <3>2 DEF Carriage
    <3>4. QED
      BY <3>3 DEF Labelled, Staged
  <2>6. QED
    BY <2>1, <2>4, <2>5
<1>4. CASE HandCarried
  <2> DEFINE c == Carried(hand.ids, IF active = "local" THEN backend.dropped ELSE <<>>)
             s == IF hand.resume = Nobody THEN "wait" ELSE "resume"
             m == c.moved
             l == c.lost
  <2>1. hand' = [hand EXCEPT !.stage = s, !.moved = m, !.lost = l] /\ s \in {"wait", "resume"}
    BY <1>4 DEF HandCarried
  <2> HIDE DEF s, m, l
  <2>2. /\ UNCHANGED <<mpd, poll, local, active, songs>>
        /\ backend' = backend \/ backend' = [backend EXCEPT !.dropped = <<>>]
    BY <1>4 DEF HandCarried
  <2>3. hand'.stage = s /\ hand'.ids = hand.ids /\ hand'.left = hand.left
    BY <1>a, <2>1 DEF HandFields
  <2>4. /\ backend'.ours = backend.ours /\ backend'.order = backend.order
        /\ backend'.head = backend.head /\ backend'.lost = backend.lost
    BY <1>a, <2>2 DEF BackendFields
  <2>5. Carriage' /\ Stages /\ Backed
    BY <1>a, <1>b, <2>1, <2>2, <2>3, <2>4 DEF Carriage
  <2>6. QED
    BY <2>5 DEF Labelled, Staged
<1>5. CASE HandResumesGuest
  <2>1. PICK s \in {"wait", "look"} :
          /\ hand' = [hand EXCEPT !.stage = s]
          /\ poll' = poll \/ poll' = [poll EXCEPT !.step = "due"]
          /\ UNCHANGED <<backend, local, active>>
    BY <1>5 DEF HandResumesGuest
  <2>2. hand'.stage = s /\ hand'.ids = hand.ids /\ hand'.left = hand.left
        /\ poll'.step \in {poll.step, "due"}
    BY <1>a, <2>1 DEF HandFields, PollFields
  <2>3. SongsLabelled(songs') /\ mpd'.state \in PlayStates /\ mpd'.linked = mpd.linked
    <3>1. CASE UNCHANGED <<mpd, songs>>
      BY <1>a, <3>1
    <3>2. CASE ~UNCHANGED <<mpd, songs>>
      <4> DEFINE id == OursInOrder[1].id
                 n == SongOf(id)
      <4>1. /\ id \in IdsIn(mpd.queue)
            /\ mpd' = Sought(mpd, id, hand.resume.at)
            /\ songs' = [songs EXCEPT ![n].seeks = @ + 1, ![n].through = FALSE]
        BY <1>5, <3>2 DEF HandResumesGuest
      <4> HIDE DEF id
      <4>2. n \in DOMAIN songs
        BY <4>1, SongThere
      <4> HIDE DEF n
      <4>3. SongsLabelled(songs')
        BY <1>a, <4>1, <4>2, OneRelabelled
      <4>4. mpd'.state = "play" /\ mpd'.linked = mpd.linked
        BY <1>a, <4>1 DEF Sought, MpdFields
      <4>5. QED
        BY <1>b, <4>3, <4>4
    <3>3. QED
      BY <3>1, <3>2
  <2>4. Carriage' /\ Stages /\ Backed
    BY <1>a, <1>b, <2>1, <2>2, <2>3 DEF Carriage
  <2>5. QED
    BY <2>4 DEF Labelled, Staged
<1>6. CASE HandResumesLocal
  <2>1. /\ hand' = [hand EXCEPT !.stage = "wait"]
        /\ local' = [local EXCEPT !.resume = hand.resume.at]
        /\ UNCHANGED <<mpd, backend, poll, active, songs>>
    BY <1>6 DEF HandResumesLocal
  <2>2. /\ hand'.stage = "wait" /\ hand'.ids = hand.ids /\ hand'.left = hand.left
        /\ local'.queue = local.queue /\ local'.head = local.head
    BY <1>a, <2>1 DEF HandFields, LocalFields
  <2>3. Carriage' /\ Stages /\ Backed
    BY <1>a, <1>b, <2>1, <2>2 DEF Carriage
  <2>4. QED
    BY <2>3 DEF Labelled, Staged
<1>7. CASE HandFlips
  <2>1. /\ hand' = [hand EXCEPT !.stage = "none"] /\ poll' = poll /\ songs' = songs
        /\ \/ local' = local
           \/ local' = [head |-> Nobody, queue |-> <<>>, resume |-> 0]
        /\ backend' = backend \/ backend' = [backend EXCEPT !.playing = FALSE]
        /\ mpd' = mpd \/ mpd' = [mpd EXCEPT !.state = "stop", !.at = 0]
        /\ active' \in {"local", "guest"}
    BY <1>7 DEF HandFlips, Elsewhere
  <2>2. hand'.stage = "none" /\ hand'.ids = hand.ids /\ hand'.left = hand.left
    BY <1>a, <2>1 DEF HandFields
  <2>3. /\ backend'.ours = backend.ours /\ backend'.order = backend.order
        /\ backend'.head = backend.head /\ backend'.lost = backend.lost
    BY <1>a, <2>1 DEF BackendFields
  <2>4. mpd'.state \in {mpd.state, "stop"} /\ mpd'.linked = mpd.linked
    BY <1>a, <2>1 DEF MpdFields
  <2>5. local'.queue \in Seq(Passages) /\ (local'.head = Nobody \/ local'.head.p \in Passages)
    <3>1. CASE local' = local
      BY <1>a, <3>1
    <3>2. CASE local' = [head |-> Nobody, queue |-> <<>>, resume |-> 0]
      <4>1. local'.queue = <<>> /\ local'.head = Nobody
        BY <3>2
      <4>2. QED
        BY <4>1, EmptySeq
    <3>3. QED
      BY <2>1, <3>1, <3>2
  <2>6. Carriage'
    BY <1>a, <2>2, <2>5 DEF Carriage
  <2>7. Stages /\ Backed
    BY <1>a, <1>b, <2>1, <2>2, <2>3, <2>4
  <2>8. QED
    BY <2>6, <2>7 DEF Labelled, Staged
<1>8. QED
  BY <1>1, <1>2, <1>3, <1>4, <1>5, <1>6, <1>7 DEF HandsOver

LEMMA LocalLabelled ==
    ASSUME Placed, Labelled, Staged, LocalPlays \/ LocalAdmits PROVE Labelled' /\ Staged'
<1>1. UNCHANGED <<mpd, backend, poll, active, hand, songs>>
  BY DEF LocalPlays, LocalAdmits
<1>a. DOMAIN local = LocalFields /\ DOMAIN local.head = HeadFields
      /\ local.queue \in Seq(Passages) /\ (local.head = Nobody \/ local.head.p \in Passages)
  BY DEF Placed, Labelled, Carriage
<1>2. local'.queue \in Seq(Passages) /\ (local'.head = Nobody \/ local'.head.p \in Passages)
  <2>1. CASE LocalPlays
    <3>1. /\ local.head # Nobody
          /\ local' = [local EXCEPT !.head.at = @ + 1] \/ local' = [local EXCEPT !.head = Nobody]
      BY <2>1 DEF LocalPlays
    <3>2. local'.queue = local.queue /\ (local'.head = Nobody \/ local'.head.p = local.head.p)
      BY <1>a, <3>1 DEF LocalFields, HeadFields
    <3>3. QED
      BY <1>a, <3>1, <3>2
  <2>2. CASE LocalAdmits
    <3>1. /\ local.queue # <<>>
          /\ local' = [head |-> [p |-> Head(local.queue), at |-> local.resume],
                       queue |-> Tail(local.queue), resume |-> 0]
      BY <2>2 DEF LocalAdmits
    <3>2. local'.queue = Tail(local.queue) /\ local'.head.p = Head(local.queue)
      BY <3>1
    <3>3. Head(local.queue) \in Passages /\ Tail(local.queue) \in Seq(Passages)
      BY <1>a, <3>1, HeadTailProperties
    <3>4. QED
      BY <3>2, <3>3
  <2>3. QED
    BY <2>1, <2>2
<1>3. QED
  BY <1>1, <1>2 DEF Labelled, Staged, Carriage

LEMMA InitLabelled == Init => Labelled /\ Staged
<1> SUFFICES ASSUME Init PROVE Labelled /\ Staged
  OBVIOUS
<1>1. DOMAIN songs = {} /\ DOMAIN backend.ours = {} /\ <<>> \in Seq(Passages)
      /\ <<>> \in Seq(Labels)
  BY EmptySeq DEF Init
<1>2. /\ backend.order = <<>> /\ backend.head = Nobody /\ backend.lost = FALSE
      /\ local.queue = Waiting /\ local.head = Nobody /\ hand.ids = <<>> /\ hand.left = {}
  BY DEF Init
<1>3. Labelled
  BY <1>1, <1>2, PassagesAssumption DEF Labelled, SongsLabelled, OursLabelled, Carriage
<1>4. Staged
  BY <1>2 DEF Init, Staged, PlayStates, PollSteps, HandStages
<1>5. QED
  BY <1>3, <1>4

LEMMA StepLabelled ==
    ASSUME Consistent, Honest, Labelled, Staged, [Next]_vars PROVE Labelled' /\ Staged'
<1>1. CASE UNCHANGED vars
  BY <1>1 DEF vars, Labelled, Staged, Carriage
<1>2. CASE LocalPlays \/ LocalAdmits
  BY <1>2, LocalLabelled DEF Honest
<1>3. QED
  BY <1>1, <1>2, WorldLabelled, GuestedLabelled, HandoverLabelled DEF Next

\* In every reachable state what is held is of a passage MPD was given, a position
\* seen lies within it, and a connection known to be lost is not the one in use,
\* for whatever number of songs, clients, deaths and handovers.
THEOREM TypeCorrect == Spec => []TypeOK
<1>1. Init => Consistent /\ Honest /\ Labelled /\ Staged
  BY InitConsistent, InitHonest, InitLabelled
<1>2. Consistent /\ Honest /\ Labelled /\ Staged /\ [Next]_vars
          => (Consistent /\ Honest /\ Labelled /\ Staged)'
  BY StepKeeps, StepHonest, StepLabelled
<1>3. Consistent /\ Honest /\ Labelled /\ Staged => TypeOK
  <2> SUFFICES ASSUME Consistent, Honest, Labelled, Staged PROVE TypeOK
    OBVIOUS
  <2>1. mpd.cur \in IdsIn(mpd.queue) \cup {None} /\ mpd.nextId \in Nat \ {0}
    BY DEF Consistent, Queued, Shaped
  <2>2. mpd.linked => DOMAIN backend.ours \subseteq 1..mpd.nextId
    <3>1. \A id \in DOMAIN backend.ours : id \in Nat \ {0} /\ (mpd.linked => id < mpd.nextId)
      BY DEF Consistent, Shaped, Holds
    <3>2. QED
      BY <2>1, <3>1
  <2>3. ASSUME NEW id \in DOMAIN backend.ours
        PROVE  LET o == backend.ours[id] IN
               /\ o.n \in DOMAIN songs /\ o.p \in Passages
               /\ o.heard \in Nat /\ o.seen \in NotSeen..(Span + 1)
               /\ o.heard > 0 => o.current
    <3>1. backend.ours[id].n \in DOMAIN songs
      BY DEF Consistent, Holds
    <3>2. backend.ours[id].heard \in Nat /\ backend.ours[id].seen \in Positions \cup {NotSeen}
      BY DEF Honest, OursTyped
    <3>3. backend.ours[id].p \in Passages
          /\ (backend.ours[id].heard > 0 => backend.ours[id].current)
      BY DEF Labelled, OursLabelled
    <3>4. backend.ours[id].seen \in NotSeen..(Span + 1)
      BY <3>2, SpanAssumption DEF Positions, NotSeen
    <3>5. QED
      BY <3>1, <3>2, <3>3, <3>4
  <2>4. QED
    BY <2>1, <2>2, <2>3 DEF TypeOK, Staged, PlayStates, PollSteps, HandStages
<1>4. QED
  BY <1>1, <1>2, <1>3, PTL DEF Spec

-----------------------------------------------------------------------------
(* What a handover says it carried.                                         *)

\* What is waiting to be taken by the session is a list, and what is held can be
\* given back as one.
Listed == (\E S : backend.dropped \in Seq(S)) /\ IsFiniteSet(DOMAIN backend.ours)

HeldPassages == {backend.ours[id].p : id \in DOMAIN backend.ours}

\* While a queue is carried to the guest, each of its passages is still to be
\* offered, was refused or given back, or is held.
Carrying ==
    active = "local" /\ hand.stage = "carry" =>
        \A i \in DOMAIN hand.ids :
            i \in hand.left \/ hand.ids[i] \in ToSet(backend.dropped) \cup HeldPassages

LEMMA ListOfAll ==
    ASSUME NEW S, IsFiniteSet(S)
    PROVE  /\ SetToSeq(S) \in Seq(S)
           /\ \A x \in S : \E i \in DOMAIN SetToSeq(S) : SetToSeq(S)[i] = x
<1> DEFINE n == Cardinality(S)
           f == SetToSeq(S)
<1>1. n \in Nat /\ ExistsBijection(1..n, S)
  BY FS_CardinalityType
<1>2. \E g \in [1..n -> S] : IsInjective(g)
  BY <1>1 DEF ExistsBijection, Bijection, Injection, IsInjective
<1>3. f \in [1..n -> S] /\ IsInjective(f)
  BY <1>2 DEF SetToSeq
<1>4. IsFiniteSet(1..n) /\ Cardinality(1..n) = n
  BY <1>1, FS_Interval
<1> HIDE DEF f
<1>5. f \in Injection(1..n, S)
  BY <1>3 DEF Injection, IsInjective
<1>6. f \in Surjection(1..n, S)
  BY <1>4, <1>5, FS_Injection
<1>7. DOMAIN f = 1..n
  BY <1>3
<1>8. f \in Seq(S)
  BY <1>1, <1>3, SeqDef
<1>9. \A x \in S : \E i \in DOMAIN f : f[i] = x
  BY <1>6, <1>7 DEF Surjection
<1>10. QED
  BY <1>8, <1>9 DEF f

LEMMA GivenBack ==
    ASSUME NEW ids, IsFiniteSet(ids)
    PROVE  /\ \E S : Given(ids) \in Seq(S)
           /\ \A id \in ids : backend.ours[id].p \in ToSet(Given(ids))
<1> DEFINE pair == [id \in ids |-> <<id, backend.ours[id].p>>]
           pairs == {<<id, backend.ours[id].p>> : id \in ids}
           given == SetToSeq(pairs)
           all == Given(ids)
<1>1. pair \in Surjection(ids, pairs)
  BY DEF Surjection
<1> HIDE DEF pair
<1>2. IsFiniteSet(pairs)
  BY <1>1, FS_Surjection
<1>3. /\ given \in Seq(pairs)
      /\ \A x \in pairs : \E i \in DOMAIN given : given[i] = x
  BY <1>2, ListOfAll
<1>4. all = [i \in DOMAIN given |-> given[i][2]]
  BY DEF Given
<1>5. Len(given) \in Nat /\ DOMAIN given = 1..Len(given)
  BY <1>3, LenProperties
<1> HIDE DEF given, all
<1>6. \E S : all \in Seq(S)
  <2> DEFINE S == {given[i][2] : i \in 1..Len(given)}
  <2>1. all \in [1..Len(given) -> S]
    BY <1>4, <1>5
  <2> HIDE DEF S
  <2>2. all \in Seq(S)
    BY <1>5, <2>1, SeqDef
  <2>3. QED
    BY <2>2
<1>7. ASSUME NEW id \in ids PROVE backend.ours[id].p \in ToSet(all)
  <2>1. PICK i \in DOMAIN given : given[i] = <<id, backend.ours[id].p>>
    BY <1>3
  <2>2. all[i] = backend.ours[id].p /\ i \in DOMAIN all
    BY <1>4, <2>1
  <2>3. QED
    BY <2>2 DEF ToSet
<1>8. QED
  BY <1>6, <1>7 DEF all

\* A list with more put behind it.
LEMMA ListedOn ==
    ASSUME NEW s, NEW t, \E S : s \in Seq(S), \E S : t \in Seq(S)
    PROVE  (\E S : s \o t \in Seq(S)) /\ ToSet(s \o t) = ToSet(s) \cup ToSet(t)
<1>1. PICK S : s \in Seq(S)
  OBVIOUS
<1>2. PICK T : t \in Seq(T)
  OBVIOUS
<1>3. s \in Seq(S \cup T) /\ t \in Seq(S \cup T)
  BY <1>1, <1>2, SeqMonotonic
<1>4. /\ s \o t \in Seq(S \cup T) /\ Len(s \o t) = Len(s) + Len(t)
      /\ \A i \in 1..(Len(s) + Len(t)) : (s \o t)[i] = IF i <= Len(s) THEN s[i] ELSE t[i - Len(s)]
  BY <1>3, ConcatProperties
<1>5. /\ Len(s) \in Nat /\ DOMAIN s = 1..Len(s) /\ Len(t) \in Nat /\ DOMAIN t = 1..Len(t)
      /\ DOMAIN (s \o t) = 1..(Len(s) + Len(t))
  BY <1>3, <1>4, LenProperties
<1>6. \A i \in 1..Len(s) : i \in 1..(Len(s) + Len(t)) /\ (s \o t)[i] = s[i]
  BY <1>4, <1>5
<1>7. \A i \in 1..Len(t) : /\ Len(s) + i \in 1..(Len(s) + Len(t))
                           /\ (s \o t)[Len(s) + i] = t[i]
  <2> TAKE i \in 1..Len(t)
  <2>1. /\ Len(s) + i \in 1..(Len(s) + Len(t)) /\ ~(Len(s) + i <= Len(s))
        /\ Len(s) + i - Len(s) = i
    BY <1>5
  <2>2. QED
    BY <1>4, <2>1
<1>8. \A i \in 1..(Len(s) + Len(t)) :
         \/ i \in 1..Len(s) /\ (s \o t)[i] = s[i]
         \/ i - Len(s) \in 1..Len(t) /\ (s \o t)[i] = t[i - Len(s)]
  BY <1>4, <1>5
<1>9. ToSet(s \o t) \subseteq ToSet(s) \cup ToSet(t)
  BY <1>5, <1>8 DEF ToSet
<1>10. ToSet(s) \cup ToSet(t) \subseteq ToSet(s \o t)
  BY <1>5, <1>6, <1>7 DEF ToSet
<1>11. QED
  BY <1>4, <1>9, <1>10

LEMMA ListedOneMore ==
    ASSUME NEW s, \E S : s \in Seq(S), NEW x
    PROVE  /\ \E S : Append(s, x) \in Seq(S)
           /\ x \in ToSet(Append(s, x)) /\ ToSet(s) \subseteq ToSet(Append(s, x))
<1> DEFINE one == <<x>>
<1>1. PICK S : s \in Seq(S)
  OBVIOUS
<1>2. s \in Seq(S \cup {x}) /\ one \in Seq(S \cup {x}) /\ x \in S \cup {x}
  BY <1>1, SeqMonotonic
<1>3. Append(s, x) = s \o one
  BY <1>2, AppendIsConcat
<1>4. x \in ToSet(one)
  BY DEF ToSet
<1> HIDE DEF one
<1>5. (\E T : s \o one \in Seq(T)) /\ ToSet(s \o one) = ToSet(s) \cup ToSet(one)
  BY <1>1, <1>2, ListedOn
<1>6. QED
  BY <1>3, <1>4, <1>5

\* What a passage offered comes to.
LEMMA EnqueuedCarries ==
    ASSUME Consistent, Listed, NEW p, Enqueued(p)
    PROVE  /\ Listed'
           /\ ToSet(backend.dropped) \cup HeldPassages \cup {p}
                 \subseteq ToSet(backend'.dropped) \cup HeldPassages'
<1>a. /\ DOMAIN backend = BackendFields
      /\ mpd.linked => mpd.nextId \notin DOMAIN backend.ours
  BY DEF Consistent, Shaped, Holds
<1>1. CASE \/ backend' = [backend EXCEPT !.dropped = Append(@, p)]
           \/ backend' = [backend EXCEPT !.dropped = Append(@, p), !.lost = TRUE]
  <2>1. backend'.dropped = Append(backend.dropped, p) /\ backend'.ours = backend.ours
    BY <1>a, <1>1 DEF BackendFields
  <2>2. /\ \E S : backend'.dropped \in Seq(S)
        /\ p \in ToSet(backend'.dropped) /\ ToSet(backend.dropped) \subseteq ToSet(backend'.dropped)
    BY <2>1, ListedOneMore DEF Listed
  <2>3. QED
    BY <2>1, <2>2 DEF Listed, HeldPassages
<1>2. CASE mpd.linked /\ \E honoured :
              backend' = [backend EXCEPT !.len = @ + 1,
                 !.ours = [i \in DOMAIN @ \cup {mpd.nextId} |->
                              IF i = mpd.nextId
                              THEN Offered(Len(songs) + 1, p, honoured, FALSE, FALSE) ELSE @[i]]]
  <2>1. PICK honoured :
              backend' = [backend EXCEPT !.len = @ + 1,
                 !.ours = [i \in DOMAIN @ \cup {mpd.nextId} |->
                              IF i = mpd.nextId
                              THEN Offered(Len(songs) + 1, p, honoured, FALSE, FALSE) ELSE @[i]]]
    BY <1>2
  <2> DEFINE o == Offered(Len(songs) + 1, p, honoured, FALSE, FALSE)
  <2>2. o.p = p
    BY DEF Offered
  <2> HIDE DEF o
  <2>3. /\ backend'.dropped = backend.dropped
        /\ backend'.ours = [i \in DOMAIN backend.ours \cup {mpd.nextId} |->
                               IF i = mpd.nextId THEN o ELSE backend.ours[i]]
    BY <1>a, <2>1 DEF BackendFields, o
  <2>4. /\ DOMAIN backend'.ours = DOMAIN backend.ours \cup {mpd.nextId}
        /\ backend'.ours[mpd.nextId] = o
        /\ \A id \in DOMAIN backend.ours : backend'.ours[id] = backend.ours[id]
    BY <1>2, <1>a, <2>3
  <2>5. IsFiniteSet(DOMAIN backend'.ours)
    BY <2>4, FS_AddElement DEF Listed
  <2>6. HeldPassages \cup {p} \subseteq HeldPassages'
    BY <2>2, <2>4 DEF HeldPassages
  <2>7. QED
    BY <2>3, <2>5, <2>6 DEF Listed
<1>3. QED
  <2>1. CASE p \in Outside \/ ~mpd.linked
    BY <1>1, <2>1 DEF Enqueued
  <2>2. CASE p \notin Outside /\ mpd.linked
    <3>1. PICK honoured \in {TRUE, (p \in Whole)} :
             backend' = [backend EXCEPT !.len = @ + 1,
                 !.ours = [i \in DOMAIN @ \cup {mpd.nextId} |->
                              IF i = mpd.nextId
                              THEN Offered(Len(songs) + 1, p, honoured, FALSE, FALSE) ELSE @[i]]]
      BY <2>2 DEF Enqueued
    <3>2. QED
      BY <1>2, <2>2, <3>1
  <2>3. QED
    BY <2>1, <2>2

LEMMA SampledLists ==
    ASSUME NEW b, DOMAIN b = BackendFields, NEW id, NEW at
    PROVE  /\ DOMAIN Sampled(b, id, at).ours = DOMAIN b.ours
           /\ Sampled(b, id, at).dropped = b.dropped
<1>1. CASE id \notin DOMAIN b.ours
  BY <1>1 DEF Sampled
<1>2. CASE id \in DOMAIN b.ours /\ ~b.playing
  <2>1. Sampled(b, id, at) = [b EXCEPT !.ours[id].current = TRUE]
    BY <1>2 DEF Sampled
  <2>2. QED
    BY <2>1 DEF BackendFields
<1>3. CASE id \in DOMAIN b.ours /\ b.playing
  <2>1. PICK x, y : Sampled(b, id, at) =
           [b EXCEPT !.ours[id].current = TRUE, !.ours[id].seen = at,
                     !.ours[id].heard = x, !.ours[id].furthest = y]
    BY <1>3 DEF Sampled
  <2>2. QED
    BY <2>1 DEF BackendFields
<1>4. QED
  BY <1>1, <1>2, <1>3

LEMMA ListedStays ==
    ASSUME Listed, NEW x, DOMAIN backend'.ours \subseteq DOMAIN backend.ours \cup {x},
           \/ backend'.dropped \in {backend.dropped, <<>>}
           \/ \E ids \in SUBSET DOMAIN backend.ours :
                 backend'.dropped = backend.dropped \o Given(ids)
    PROVE  Listed'
<1>1. IsFiniteSet(DOMAIN backend'.ours)
  <2>1. IsFiniteSet(DOMAIN backend.ours \cup {x})
    BY FS_AddElement DEF Listed
  <2>2. QED
    BY <2>1, FS_Subset
<1>2. \E S : backend'.dropped \in Seq(S)
  <2>1. CASE backend'.dropped = backend.dropped
    BY <2>1 DEF Listed
  <2>2. CASE backend'.dropped = <<>>
    BY <2>2, EmptySeq
  <2>3. ASSUME NEW ids \in SUBSET DOMAIN backend.ours,
               backend'.dropped = backend.dropped \o Given(ids)
        PROVE  \E S : backend'.dropped \in Seq(S)
    <3> DEFINE back == Given(ids)
    <3>1. IsFiniteSet(ids)
      BY FS_Subset DEF Listed
    <3>2. \E S : back \in Seq(S)
      BY <3>1, GivenBack
    <3>3. backend'.dropped = backend.dropped \o back
      BY <2>3
    <3>4. \E S : backend.dropped \in Seq(S)
      BY DEF Listed
    <3> HIDE DEF back
    <3>5. \E S : backend.dropped \o back \in Seq(S)
      BY <3>2, <3>4, ListedOn
    <3>6. QED
      BY <3>3, <3>5
  <2>4. QED
    BY <2>1, <2>2, <2>3
<1>3. QED
  BY <1>1, <1>2 DEF Listed

LEMMA ReconnectCarries ==
    ASSUME Consistent, Listed, Carrying, Reconnect
    PROVE  Listed' /\ Carrying'
<1>1. DOMAIN backend = BackendFields
  BY DEF Consistent, Shaped
<1>2. /\ backend'.ours = <<>> /\ backend'.dropped = backend.dropped \o Given(DOMAIN backend.ours)
      /\ hand' = hand /\ active' = active
  BY <1>1 DEF Reconnect, Reconnected, BackendFields
<1>3. /\ \E S : Given(DOMAIN backend.ours) \in Seq(S)
      /\ HeldPassages \subseteq ToSet(Given(DOMAIN backend.ours))
  BY GivenBack DEF Listed, HeldPassages
<1>4. ToSet(backend'.dropped) = ToSet(backend.dropped) \cup ToSet(Given(DOMAIN backend.ours))
  BY <1>2, <1>3, ListedOn DEF Listed
<1>5. DOMAIN backend'.ours \subseteq DOMAIN backend.ours \cup {0}
  BY <1>2
<1>6. Listed'
  BY <1>2, <1>5, ListedStays
<1>7. Carrying'
  BY <1>2, <1>3, <1>4 DEF Carrying
<1>8. QED
  BY <1>6, <1>7

LEMMA PollLists ==
    ASSUME Consistent, Listed, PollStatus \/ PollSong \/ PollList
    PROVE  Listed' /\ hand'.stage # "carry"
<1>a. /\ DOMAIN backend = BackendFields /\ "stage" \in DOMAIN hand
      /\ poll.step # "idle" => hand.stage # "carry"
  BY DEF Consistent, Shaped, Polling
<1>b. hand.stage # "carry"
  BY <1>a DEF PollStatus, PollSong, PollList
<1>c. PollOver => hand'.stage # "carry"
  BY <1>a, <1>b DEF PollOver
<1>d. ASSUME MarkLost PROVE Listed'
  <2>1. backend'.ours = backend.ours /\ backend'.dropped = backend.dropped
    BY <1>a, <1>d DEF MarkLost, BackendFields
  <2>2. QED
    BY <2>1 DEF Listed
<1>1. CASE PollStatus
  <2>1. CASE ~mpd.linked
    BY <1>1, <1>c, <1>d, <2>1 DEF PollStatus
  <2>2. CASE mpd.linked
    <3> DEFINE playing == mpd.state = "play"
               known == mpd.cur \in DOMAIN backend.ours
               b == [backend EXCEPT !.playing = playing, !.len = Len(mpd.queue),
                        !.head = IF known /\ playing
                                 THEN [p |-> backend.ours[mpd.cur].p, at |-> mpd.at]
                                 ELSE Nobody]
    <3>1. backend' = Sampled(b, mpd.cur, mpd.at)
      BY <1>1, <2>2 DEF PollStatus
    <3>2. DOMAIN b = BackendFields /\ b.ours = backend.ours /\ b.dropped = backend.dropped
      BY <1>a DEF BackendFields
    <3> HIDE DEF b
    <3>3. DOMAIN backend'.ours = DOMAIN backend.ours /\ backend'.dropped = backend.dropped
      BY <3>1, <3>2, SampledLists
    <3>4. hand' = hand
      BY <1>1, <2>2 DEF PollStatus
    <3>5. QED
      BY <1>b, <3>3, <3>4 DEF Listed
  <2>3. QED
    BY <2>1, <2>2
<1>2. CASE PollSong
  <2>1. hand' = hand
    BY <1>2 DEF PollSong
  <2>2. CASE backend' = backend
    BY <1>b, <2>1, <2>2 DEF Listed
  <2>3. CASE backend' # backend
    <3>1. PICK ours : /\ DOMAIN ours = DOMAIN backend.ours \cup {poll.id}
                      /\ backend' = Sampled([backend EXCEPT !.ours = ours], poll.id, poll.at)
      <4> DEFINE again == songs[poll.n].answer # "none"
                 n == IF again THEN Len(songs) + 1 ELSE poll.n
                 o == Offered(n, songs[SongOf(mpd.cur)].p, TRUE, TRUE, TRUE)
                 ours == [id \in DOMAIN backend.ours \cup {poll.id} |->
                            IF id = poll.id THEN o ELSE backend.ours[id]]
      <4>1. backend' = Sampled([backend EXCEPT !.ours = ours], poll.id, poll.at)
        BY <1>2, <2>3 DEF PollSong
      <4>2. DOMAIN ours = DOMAIN backend.ours \cup {poll.id}
        OBVIOUS
      <4> HIDE DEF ours
      <4>3. QED
        BY <4>1, <4>2
    <3> DEFINE b == [backend EXCEPT !.ours = ours]
    <3>2. DOMAIN b = BackendFields /\ b.ours = ours /\ b.dropped = backend.dropped
      BY <1>a DEF BackendFields
    <3>3. backend' = Sampled(b, poll.id, poll.at)
      BY <3>1
    <3> HIDE DEF b
    <3>4. DOMAIN backend'.ours = DOMAIN ours /\ backend'.dropped = backend.dropped
      BY <3>2, <3>3, SampledLists
    <3>5. QED
      BY <1>b, <2>1, <3>1, <3>4, ListedStays
  <2>4. QED
    BY <2>2, <2>3
<1>3. CASE PollList
  <2>1. CASE ~mpd.linked
    BY <1>3, <1>c, <1>d, <2>1 DEF PollList
  <2>2. CASE mpd.linked
    <3> DEFINE gone == DOMAIN backend.ours \ IdsIn(mpd.queue)
               given == {id \in gone : Verdict(backend.ours[id]) = "dropped"}
    <3>1. \E order : backend' = [backend EXCEPT !.order = order,
                            !.ours = [id \in DOMAIN @ \ gone |-> @[id]],
                            !.dropped = @ \o Given(given)]
      BY <1>3, <2>2 DEF PollList
    <3>2. given \in SUBSET DOMAIN backend.ours
      OBVIOUS
    <3> HIDE DEF given
    <3>3. /\ DOMAIN backend'.ours = DOMAIN backend.ours \ gone
          /\ backend'.dropped = backend.dropped \o Given(given)
      BY <1>a, <3>1 DEF BackendFields
    <3>4. DOMAIN backend'.ours \subseteq DOMAIN backend.ours \cup {0}
      BY <3>3
    <3>5. Listed'
      BY <3>2, <3>3, <3>4, ListedStays
    <3>6. QED
      BY <1>3, <1>c, <3>5 DEF PollList
  <2>3. QED
    BY <2>1, <2>2
<1>4. QED
  BY <1>1, <1>2, <1>3

LEMMA StillCarrying ==
    ASSUME Carrying, UNCHANGED <<hand, active>>, backend'.dropped = backend.dropped,
           backend'.ours = backend.ours
    PROVE  Carrying'
BY DEF Carrying, HeldPassages

LEMMA StillListed ==
    ASSUME Listed, backend'.dropped = backend.dropped, DOMAIN backend'.ours = DOMAIN backend.ours
    PROVE  Listed'
BY DEF Listed

LEMMA NotCarrying == ASSUME hand'.stage # "carry" PROVE Carrying'
BY DEF Carrying

LEMMA GuestedCarries == ASSUME Consistent, Listed, Carrying, Guested PROVE Listed' /\ Carrying'
<1>a. DOMAIN backend = BackendFields
  BY DEF Consistent, Shaped
<1>1. CASE Reconnect
  BY <1>1, ReconnectCarries
<1>2. CASE PollStatus \/ PollSong \/ PollList
  BY <1>2, PollLists, NotCarrying
<1>3. CASE SessionTakes
  <2>1. hand'.stage # "carry" /\ backend'.ours = backend.ours /\ backend'.dropped = <<>>
    BY <1>3, <1>a DEF SessionTakes, Between, BackendFields
  <2>2. Listed'
    BY <2>1, EmptySeq DEF Listed
  <2>3. QED
    BY <2>1, <2>2, NotCarrying
<1>4. ASSUME NEW p \in Passages, Refill(p) PROVE Listed' /\ Carrying'
  BY <1>4, EnqueuedCarries, NotCarrying DEF Refill, Between
<1>5. ASSUME NEW at \in {0, Span - 1}, SeekTo(at) PROVE Listed' /\ Carrying'
  <2>1. hand'.stage # "carry"
    BY <1>5 DEF SeekTo, Between
  <2>2. \E id : backend' = [backend EXCEPT !.ours[id].seen = NotSeen, !.head.at = at]
    BY <1>5 DEF SeekTo
  <2>3. backend'.dropped = backend.dropped /\ DOMAIN backend'.ours = DOMAIN backend.ours
    BY <1>a, <2>2 DEF BackendFields
  <2>4. QED
    BY <2>1, <2>3, StillListed, NotCarrying
<1>6. QED
  BY <1>1, <1>2, <1>3, <1>4, <1>5 DEF Guested

LEMMA EnqueueCarries ==
    ASSUME Consistent, Honest, Listed, Carrying, HandEnqueues
    PROVE  Listed' /\ Carrying'
<1>a. DOMAIN hand = HandFields
  BY DEF Honest, Placed
<1>1. PICK i \in hand.left :
         /\ hand.stage = "carry" /\ active' = active
         /\ hand' = [hand EXCEPT !.left = @ \ {i}]
         /\ IF active = "local" THEN Enqueued(hand.ids[i]) ELSE UNCHANGED backend
  BY DEF HandEnqueues
<1>2. /\ hand'.stage = "carry" /\ hand'.ids = hand.ids /\ hand'.left = hand.left \ {i}
  BY <1>1, <1>a DEF HandFields
<1>3. CASE active = "local"
  <2> DEFINE p == hand.ids[i]
  <2>1. Enqueued(p)
    BY <1>1, <1>3
  <2> HIDE DEF p
  <2>2. /\ Listed'
        /\ ToSet(backend.dropped) \cup HeldPassages \cup {p}
              \subseteq ToSet(backend'.dropped) \cup HeldPassages'
    BY <2>1, EnqueuedCarries
  <2>3. \A j \in DOMAIN hand.ids :
           j \in hand.left \/ hand.ids[j] \in ToSet(backend.dropped) \cup HeldPassages
    BY <1>1, <1>3 DEF Carrying
  <2>4. QED
    BY <1>2, <2>2, <2>3 DEF Carrying, p
<1>4. CASE active # "local"
  BY <1>1, <1>4 DEF Carrying, Listed
<1>5. QED
  BY <1>3, <1>4

LEMMA HandoverCarries ==
    ASSUME Consistent, Honest, Listed, Carrying, HandsOver
    PROVE  Listed' /\ Carrying'
<1>a. DOMAIN backend = BackendFields /\ DOMAIN hand = HandFields
  BY DEF Consistent, Shaped, Honest, Placed
<1>1. CASE HandBegins \/ HandResumesGuest \/ HandResumesLocal \/ HandFlips
  <2>1. \E s : s # "carry" /\ \/ hand' = [hand EXCEPT !.stage = s]
                              \/ hand' = [hand EXCEPT !.stage = s, !.moved = {}, !.lost = <<>>]
    <3>1. CASE HandBegins
      <4>1. \E s \in {"refresh", "read"} :
               hand' = [hand EXCEPT !.stage = s, !.moved = {}, !.lost = <<>>]
        BY <3>1 DEF HandBegins
      <4>2. QED
        BY <4>1
    <3>2. CASE HandResumesGuest
      BY <3>2 DEF HandResumesGuest
    <3>3. CASE HandResumesLocal \/ HandFlips
      BY <3>3 DEF HandResumesLocal, HandFlips
    <3>4. QED
      BY <1>1, <3>1, <3>2, <3>3
  <2>2. hand'.stage # "carry"
    BY <1>a, <2>1 DEF HandFields
  <2>3. backend' = backend \/ backend' = [backend EXCEPT !.playing = FALSE]
    BY <1>1 DEF HandBegins, HandResumesGuest, HandResumesLocal, HandFlips
  <2>4. backend'.dropped = backend.dropped /\ backend'.ours = backend.ours
    BY <1>a, <2>3 DEF BackendFields
  <2>5. QED
    BY <2>2, <2>4, StillListed, NotCarrying
<1>2. CASE HandReads
  <2>1. PICK ids, resume :
           /\ hand' = [hand EXCEPT !.stage = "carry", !.ids = ids, !.left = DOMAIN ids,
                                   !.resume = resume]
           /\ backend' = backend \/ backend' = [backend EXCEPT !.dropped = <<>>]
    BY <1>2 DEF HandReads
  <2>2. hand'.ids = ids /\ hand'.left = DOMAIN ids
    BY <1>a, <2>1 DEF HandFields
  <2>3. backend'.ours = backend.ours /\ backend'.dropped \in {backend.dropped, <<>>}
    BY <1>a, <2>1 DEF BackendFields
  <2>4. Listed'
    BY <2>3, EmptySeq DEF Listed
  <2>5. QED
    BY <2>2, <2>4 DEF Carrying
<1>3. CASE HandEnqueues
  BY <1>3, EnqueueCarries
<1>4. CASE HandCarried
  <2> DEFINE c == Carried(hand.ids, IF active = "local" THEN backend.dropped ELSE <<>>)
             s == IF hand.resume = Nobody THEN "wait" ELSE "resume"
  <2>1. /\ hand' = [hand EXCEPT !.stage = s, !.moved = c.moved, !.lost = c.lost]
        /\ backend' = backend \/ backend' = [backend EXCEPT !.dropped = <<>>]
    BY <1>4 DEF HandCarried
  <2> HIDE DEF c
  <2>2. hand'.stage # "carry"
    BY <1>a, <2>1 DEF HandFields
  <2>3. backend'.ours = backend.ours /\ backend'.dropped \in {backend.dropped, <<>>}
    BY <1>a, <2>1 DEF BackendFields
  <2>4. Listed'
    BY <2>3, EmptySeq DEF Listed
  <2>5. QED
    BY <2>2, <2>4, NotCarrying
<1>5. QED
  BY <1>1, <1>2, <1>3, <1>4 DEF HandsOver

LEMMA StepCarries ==
    ASSUME Consistent, Honest, Listed, Carrying, [Next]_vars
    PROVE  Listed' /\ Carrying'
<1>1. CASE UNCHANGED <<backend, hand, active>>
  BY <1>1 DEF Listed, Carrying, HeldPassages
<1>2. CASE World \/ LocalPlays \/ LocalAdmits \/ UNCHANGED vars
  BY <1>1, <1>2 DEF World, MpdPlays, MpdDies, MpdReturns, ClientPlaysOrPauses, ClientAdds,
                    ClientDeletes, ClientSeeks, LocalPlays, LocalAdmits, vars
<1>3. QED
  BY <1>2, GuestedCarries, HandoverCarries DEF Next

LEMMA CarriedTells ==
    ASSUME Consistent, Honest, Carrying, HandCarried, active = "local"
    PROVE  /\ hand'.moved \subseteq HeldPassages
           /\ ToSet(hand.ids) \subseteq hand'.moved \cup ToSet(hand'.lost)
<1>1. DOMAIN hand = HandFields
  BY DEF Honest, Placed
<1>2. /\ hand.stage = "carry" /\ hand.left = {}
      /\ \E s : hand' = [hand EXCEPT !.stage = s,
                            !.moved = ToSet(hand.ids) \ ToSet(backend.dropped),
                            !.lost = backend.dropped]
  BY DEF HandCarried, Carried
<1>3. /\ hand'.moved = ToSet(hand.ids) \ ToSet(backend.dropped) /\ hand'.lost = backend.dropped
  BY <1>1, <1>2 DEF HandFields
<1>4. ToSet(hand.ids) \subseteq ToSet(backend.dropped) \cup HeldPassages
  <2>1. \A i \in DOMAIN hand.ids : hand.ids[i] \in ToSet(backend.dropped) \cup HeldPassages
    BY <1>2 DEF Carrying
  <2>2. ToSet(hand.ids) = {hand.ids[i] : i \in DOMAIN hand.ids}
    BY DEF ToSet
  <2>3. QED
    BY <2>1, <2>2
<1>5. QED
  BY <1>3, <1>4

(* A handover says it carried only what the guest holds by then, and every  *)
(* passage it read is carried or reported lost, though MPD may refuse one,  *)
(* die between two and be found again by the enqueueing of the third, which *)
(* gives back all that was taken before (carry_queue).                      *)
THEOREM CarriedIsHonest == Spec => CarriedIsHeld
<1> DEFINE Inv == Consistent /\ Honest /\ Listed /\ Carrying
           Tells == (HandCarried /\ active = "local") =>
                       /\ hand'.moved \subseteq {backend.ours[id].p : id \in DOMAIN backend.ours}
                       /\ ToSet(hand.ids) \subseteq hand'.moved \cup ToSet(hand'.lost)
<1>1. Init => Inv
  <2>1. Init => Listed /\ Carrying
    <3>1. Init => DOMAIN backend.ours = {} /\ backend.dropped = <<>> /\ hand.stage = "none"
      BY DEF Init
    <3>2. QED
      BY <3>1, EmptySeq, FS_EmptySet DEF Listed, Carrying
  <2>2. QED
    BY <2>1, InitConsistent, InitHonest
<1>2. Inv /\ [Next]_vars => Inv'
  BY StepKeeps, StepHonest, StepCarries
<1>3. Inv /\ [Next]_vars => [Tells]_vars
  BY CarriedTells DEF HeldPassages
<1>4. QED
  BY <1>1, <1>2, <1>3, PTL DEF Spec, CarriedIsHeld


-----------------------------------------------------------------------------
(* The fourth invariant: how far what is credited may fall behind what     *)
(* sounded, by what happened so far.                                        *)

\* What may disturb the samples: clients and the bar, deaths of MPD, handovers.
Upheavals == bounds.clients + bounds.faults + bounds.handovers

\* A handover counts when it begins; until it has told the guest where to go on, or
\* stopped it, what that may cost is set aside.
SetAside == IF hand.stage = "none" \/ (active = "local" /\ hand.stage \in {"wait", "waited"})
            THEN 0 ELSE 3

Leeway == 3 * Upheavals - SetAside

Seens == Positions \cup {NotSeen}

\* What the next sample would credit of a song seen there, at that position.
Ahead(seen, at) == IF seen = NotSeen THEN 0 ELSE Way(seen, at)

\* Whether the next unit to sound goes without credit: not seen where it is now.
Unseen(seen) == IF mpd.state = "play" /\ (bounds.unpolled \/ seen = mpd.at) THEN 0 ELSE 1

\* What a song may still lose, at worst.
Gap(id, seen) ==
    IF id \notin IdsIn(mpd.queue) THEN 0
    ELSE IF id # mpd.cur THEN 3
    ELSE 2 + Unseen(seen) - Ahead(seen, mpd.at)

Asked(id) == poll.step = "song" /\ poll.id = id

\* What is credited of what: of what the backend holds, of what the poll under way
\* would adopt, and of what MPD has that no poll has asked about.
Counted(id, n, heard, seen) ==
    \/ /\ id \in DOMAIN backend.ours /\ n = backend.ours[id].n
       /\ heard = backend.ours[id].heard /\ seen = backend.ours[id].seen
    \/ /\ Asked(id) /\ n = poll.n
       /\ heard = 0 /\ seen = IF backend.playing THEN poll.at ELSE NotSeen
    \/ /\ id \notin DOMAIN backend.ours /\ ~Asked(id)
       /\ \E i \in DOMAIN mpd.queue : mpd.queue[i].id = id /\ mpd.queue[i].n = n
       /\ heard = 0 /\ seen = NotSeen

Even(id, n, heard, seen) ==
    songs[n].through => songs[n].sounded + Gap(id, seen) <= heard + 3 + Leeway

AllEven ==
    mpd.linked =>
        \A id, n, heard, seen : Counted(id, n, heard, seen) => Even(id, n, heard, seen)

\* A song played through that the backend does not hold can be adopted, unanswered.
Adoptable(n) == songs[n].p \in Whole /\ songs[n].answer = "none"

Unheld ==
    mpd.linked =>
        \A i \in DOMAIN mpd.queue :
            mpd.queue[i].id \notin DOMAIN backend.ours /\ songs[mpd.queue[i].n].through
                => Adoptable(mpd.queue[i].n)

\* What the poll asks about is what plays, if it is there.
AskedPlays ==
    mpd.linked /\ poll.step = "song" /\ poll.id \in IdsIn(mpd.queue) => mpd.cur = poll.id

\* While MPD is lost, what went through is what has yet to begin.
Unlinked ==
    ~mpd.linked =>
        /\ \A n \in DOMAIN songs : songs[n].through => songs[n].sounded = 0 /\ Adoptable(n)
        /\ \A id \in DOMAIN backend.ours : ~songs[backend.ours[id].n].through

\* What went through and was answered otherwise was short, for all that happened.
Judged ==
    \A n \in DOMAIN songs :
        songs[n].through /\ songs[n].answer \notin {"none", "played"}
            => 2 * songs[n].sounded < Span + 6 * (1 + Upheavals)

BoundFields == {"unpolled", "clients", "faults", "handovers"}

Numbered ==
    /\ DOMAIN bounds = BoundFields
    /\ bounds.clients \in Nat /\ bounds.faults \in Nat /\ bounds.handovers \in Nat
    /\ hand.stage # "none" => bounds.handovers > 0

Reckoned == Numbered /\ AllEven /\ Unheld /\ AskedPlays /\ Unlinked /\ Judged

-----------------------------------------------------------------------------
(* What a sample makes good, and what is lost without one.                  *)

LEMMA AheadBounds ==
    ASSUME NEW seen \in Seens, NEW at \in Nat
    PROVE  /\ Ahead(seen, at) \in 0..2 /\ Ahead(seen, at + 1) \in 0..2
           /\ Ahead(seen, at + 1) >= Ahead(seen, at)
           /\ seen = at => Ahead(seen, at) = 0 /\ Ahead(seen, at + 1) = 1
           /\ Ahead(seen, 0) = 0
<1>1. CASE seen = NotSeen
  BY <1>1 DEF Ahead, NotSeen
<1>2. CASE seen # NotSeen
  <2>1. seen \in Nat
    BY <1>2, PositionsAreNat DEF Seens
  <2>2. \A x \in Nat : Ahead(seen, x) = Way(seen, x)
    BY <1>2 DEF Ahead
  <2>3. QED
    BY <2>1, <2>2 DEF Way, SampleStep
<1>3. QED
  BY <1>1, <1>2

LEMMA CreditIsAhead ==
    ASSUME NEW o, NEW at
    PROVE  Credit(o, at) = Ahead(o.seen, at)
BY DEF Credit, Ahead, Way

GapBounded ==
    mpd.at \in Nat => \A id : \A seen \in Seens : Gap(id, seen) \in 0..3

LEMMA GapBounds == GapBounded
<1> SUFFICES ASSUME mpd.at \in Nat, NEW id, NEW seen \in Seens
             PROVE  Gap(id, seen) \in 0..3
  BY DEF GapBounded
<1>1. Ahead(seen, mpd.at) \in 0..2 /\ Unseen(seen) \in 0..1
  BY AheadBounds DEF Unseen
<1>2. QED
  BY <1>1 DEF Gap

LEMMA LeewayIsNat ==
    ASSUME Numbered
    PROVE  Leeway \in Nat /\ Upheavals \in Nat /\ Leeway <= 3 * Upheavals
<1>1. CASE hand.stage = "none"
  BY <1>1 DEF Numbered, Leeway, Upheavals, SetAside
<1>2. CASE hand.stage # "none"
  <2>1. PICK c, f, h \in Nat : c = bounds.clients /\ f = bounds.faults /\ h = bounds.handovers
                               /\ h > 0
    BY <1>2 DEF Numbered
  <2>2. Upheavals = c + f + h /\ SetAside \in {0, 3}
    BY <2>1 DEF Upheavals, SetAside
  <2>3. QED
    BY <2>1, <2>2 DEF Leeway
<1>3. QED
  BY <1>1, <1>2

NumberedLeeway ==
    Numbered => Leeway \in Nat /\ Upheavals \in Nat /\ Leeway <= 3 * Upheavals

LEMMA LeewayThere == NumberedLeeway
BY LeewayIsNat DEF NumberedLeeway

\* A song is no more than it was.
Untouched(n) ==
    songs'[n].through => songs[n].through /\ songs'[n].sounded = songs[n].sounded

\* Nothing happens to what is under that identifier, or room is made for it.
Steady(id) ==
    \/ Leeway' >= Leeway + 3
    \/ /\ Leeway' >= Leeway
       /\ id \in IdsIn(mpd'.queue) => id \in IdsIn(mpd.queue)
       /\ \/ id # mpd.cur \/ id \notin IdsIn(mpd'.queue)
          \/ /\ mpd'.cur = mpd.cur /\ mpd'.at = mpd.at /\ mpd'.state = mpd.state
             /\ bounds'.unpolled = bounds.unpolled

LEMMA GapStays ==
    ASSUME mpd.at \in Nat, mpd'.at \in Nat, NEW id, NEW seen \in Seens, Leeway \in Nat,
           Leeway' \in Nat, Steady(id)
    PROVE  Gap(id, seen)' + Leeway <= Gap(id, seen) + Leeway'
<1>1. Gap(id, seen) \in 0..3
  BY GapBounds DEF GapBounded
<1>2. Gap(id, seen)' \in 0..3
  <2>1. GapBounded'
    BY GapBounds, PTL
  <2>2. QED
    BY <2>1 DEF GapBounded
<1>3. CASE Leeway' >= Leeway + 3
  BY <1>1, <1>2, <1>3
<1>4. CASE ~(Leeway' >= Leeway + 3)
  <2>1. /\ Leeway' >= Leeway
        /\ id \in IdsIn(mpd'.queue) => id \in IdsIn(mpd.queue)
        /\ \/ id # mpd.cur \/ id \notin IdsIn(mpd'.queue)
           \/ /\ mpd'.cur = mpd.cur /\ mpd'.at = mpd.at /\ mpd'.state = mpd.state
              /\ bounds'.unpolled = bounds.unpolled
    BY <1>4 DEF Steady
  <2>2. Gap(id, seen)' <= Gap(id, seen)
    <3>1. CASE id \notin IdsIn(mpd'.queue)
      <4>1. Gap(id, seen)' = 0
        BY <3>1 DEF Gap
      <4>2. QED
        BY <1>1, <4>1
    <3>2. CASE id \in IdsIn(mpd'.queue) /\ id # mpd.cur
      <4>1. Gap(id, seen) = 3
        BY <2>1, <3>2 DEF Gap
      <4>2. QED
        BY <1>2, <4>1
    <3>3. CASE id \in IdsIn(mpd'.queue) /\ id = mpd.cur
      <4>1. Gap(id, seen)' = Gap(id, seen)
        BY <2>1, <3>3 DEF Gap, Unseen
      <4>2. QED
        BY <1>1, <4>1
    <3>4. QED
      BY <3>1, <3>2, <3>3
  <2>3. QED
    BY <1>1, <1>2, <2>1, <2>2
<1>5. QED
  BY <1>3, <1>4

LEMMA StillEven ==
    ASSUME mpd.at \in Nat, mpd'.at \in Nat, Leeway \in Nat, Leeway' \in Nat,
           NEW id, NEW n, NEW heard \in Nat, NEW seen \in Seens, songs[n].sounded \in Nat,
           Even(id, n, heard, seen), Untouched(n), Steady(id)
    PROVE  Even(id, n, heard, seen)'
<1> SUFFICES ASSUME songs'[n].through
             PROVE  songs'[n].sounded + Gap(id, seen)' <= heard + 3 + Leeway'
  BY DEF Even
<1>1. songs'[n].sounded = songs[n].sounded
      /\ songs[n].sounded + Gap(id, seen) <= heard + 3 + Leeway
  BY DEF Even, Untouched
<1>2. PICK g, l, m \in Nat : g = Gap(id, seen) /\ l = Leeway /\ m = Leeway'
  <2>1. Gap(id, seen) \in 0..3
    BY GapBounds DEF GapBounded
  <2>2. QED
    BY <2>1
<1>3. PICK h \in Nat : h = Gap(id, seen)'
  <2>1. GapBounded'
    BY GapBounds, PTL
  <2>2. QED
    BY <2>1 DEF GapBounded
<1>4. h + l <= g + m
  BY <1>2, <1>3, GapStays
<1>5. QED
  BY <1>1, <1>2, <1>3, <1>4

-----------------------------------------------------------------------------
(* Steps that leave what is credited where it was.                          *)

Grounded == Consistent /\ Honest /\ Labelled /\ Staged

LEMMA Grounds ==
    ASSUME Grounded
    PROVE  /\ Shaped /\ Queued /\ Holds /\ Polling /\ Placed /\ Named
           /\ SongsTyped(songs) /\ OursTyped(backend.ours)
           /\ DOMAIN mpd = MpdFields /\ DOMAIN backend = BackendFields
           /\ DOMAIN poll = PollFields /\ DOMAIN hand = HandFields
           /\ mpd.at \in Nat /\ poll.at \in Seens
           /\ \A id \in IdsIn(mpd.queue) : id # None
           /\ mpd.linked => ~backend.lost
<1>1. /\ Shaped /\ Queued /\ Holds /\ Polling /\ Placed /\ Named
      /\ SongsTyped(songs) /\ OursTyped(backend.ours)
  BY DEF Grounded, Consistent, Honest
<1>2. /\ DOMAIN mpd = MpdFields /\ DOMAIN backend = BackendFields
      /\ DOMAIN poll = PollFields /\ DOMAIN hand = HandFields
      /\ mpd.at \in Nat /\ poll.at \in Seens
  BY <1>1, PositionsAreNat DEF Shaped, Placed, Seens
<1>3. \A id \in IdsIn(mpd.queue) : id # None
  BY <1>1 DEF Queued, Shaped, IdsIn, None
<1>4. QED
  BY <1>1, <1>2, <1>3 DEF Grounded, Staged

LEMMA CountedTyped ==
    ASSUME Grounded, mpd.linked, NEW id, NEW n, NEW heard, NEW seen, Counted(id, n, heard, seen)
    PROVE  /\ n \in DOMAIN songs /\ songs[n].sounded \in Nat
           /\ heard \in Nat /\ seen \in Seens
<1>a. /\ Shaped /\ Queued /\ Holds /\ Polling /\ SongsTyped(songs) /\ OursTyped(backend.ours)
      /\ poll.at \in Seens
  BY Grounds
<1>b. 0 \in Nat /\ NotSeen \in Seens
  BY DEF Seens
<1>1. n \in DOMAIN songs /\ heard \in Nat /\ seen \in Seens
  <2>1. CASE /\ id \in DOMAIN backend.ours /\ n = backend.ours[id].n
             /\ heard = backend.ours[id].heard /\ seen = backend.ours[id].seen
    BY <1>a, <2>1 DEF Holds, OursTyped, Seens
  <2>2. CASE /\ Asked(id) /\ n = poll.n
             /\ heard = 0 /\ seen = IF backend.playing THEN poll.at ELSE NotSeen
    BY <1>a, <1>b, <2>2 DEF Asked, Polling
  <2>3. CASE /\ id \notin DOMAIN backend.ours /\ ~Asked(id)
             /\ \E i \in DOMAIN mpd.queue : mpd.queue[i].id = id /\ mpd.queue[i].n = n
             /\ heard = 0 /\ seen = NotSeen
    BY <1>a, <1>b, <2>3 DEF Queued
  <2>4. QED
    BY <2>1, <2>2, <2>3 DEF Counted
<1>2. QED
  BY <1>1, <1>a DEF SongsTyped

\* What is counted under an identifier is the song MPD plays under it.
LEMMA CountedPlays ==
    ASSUME Grounded, mpd.linked, NEW id, NEW n, NEW heard, NEW seen,
           Counted(id, n, heard, seen), NEW i \in DOMAIN mpd.queue
    PROVE  mpd.queue[i].id = id <=> mpd.queue[i].n = n
<1>a. Shaped /\ Queued /\ Holds /\ Polling /\ Named
  BY Grounds
<1>1. CASE id \in DOMAIN backend.ours /\ n = backend.ours[id].n
  BY <1>a, <1>1 DEF Holds, Named
<1>2. CASE Asked(id) /\ n = poll.n
  BY <1>a, <1>2 DEF Asked, Polling, Named
<1>3. CASE \E j \in DOMAIN mpd.queue : mpd.queue[j].id = id /\ mpd.queue[j].n = n
  BY <1>a, <1>3 DEF Queued
<1>4. QED
  BY <1>1, <1>2, <1>3 DEF Counted

Recounted ==
    \A id, n, heard, seen :
        Counted(id, n, heard, seen)' =>
            \/ ~songs'[n].through
            \/ songs'[n].sounded = 0 /\ heard \in Nat /\ seen \in Seens
            \/ Counted(id, n, heard, seen) /\ Untouched(n) /\ Steady(id)

LEMMA NumberedThen == Numbered' => Leeway' \in Nat /\ Upheavals' \in Nat
<1>1. NumberedLeeway'
  BY LeewayThere, PTL
<1>2. QED
  BY <1>1 DEF NumberedLeeway

LEMMA GapThen == mpd'.at \in Nat => \A id : \A seen \in Seens : Gap(id, seen)' \in 0..3
<1>1. GapBounded'
  BY GapBounds, PTL
<1>2. QED
  BY <1>1 DEF GapBounded

LEMMA EvenStays ==
    ASSUME Grounded, mpd.linked, Numbered, Numbered', mpd'.at \in Nat, AllEven, Recounted
    PROVE  AllEven'
<1> SUFFICES ASSUME NEW id, NEW n, NEW heard, NEW seen, Counted(id, n, heard, seen)'
             PROVE  Even(id, n, heard, seen)'
  BY DEF AllEven
<1>a. mpd.at \in Nat /\ Leeway \in Nat /\ Leeway' \in Nat
  BY Grounds, LeewayIsNat, NumberedThen
<1>1. CASE ~songs'[n].through
  BY <1>1 DEF Even
<1>2. CASE songs'[n].sounded = 0 /\ heard \in Nat /\ seen \in Seens
  <2>1. PICK g \in 0..3 : g = Gap(id, seen)'
    BY <1>2, GapThen
  <2>2. PICK l \in Nat : l = Leeway'
    BY <1>a
  <2>3. songs'[n].sounded + Gap(id, seen)' <= heard + 3 + Leeway'
    BY <1>2, <2>1, <2>2
  <2>4. QED
    BY <2>3 DEF Even
<1>3. CASE Counted(id, n, heard, seen) /\ Untouched(n) /\ Steady(id)
  <2>1. songs[n].sounded \in Nat /\ heard \in Nat /\ seen \in Seens
    BY <1>3, CountedTyped
  <2>2. Even(id, n, heard, seen)
    BY <1>3 DEF AllEven
  <2>3. QED
    BY <1>a, <1>3, <2>1, <2>2, StillEven
<1>4. QED
  BY <1>1, <1>2, <1>3 DEF Recounted

\* What is counted is what was, or has yet to sound, or had a hand on it.
SameCount ==
    /\ \A id \in DOMAIN backend'.ours :
          LET o == backend'.ours[id] IN
          \/ ~songs'[o.n].through
          \/ songs'[o.n].sounded = 0 /\ o.heard \in Nat /\ o.seen \in Seens
          \/ /\ id \in DOMAIN backend.ours /\ o.n = backend.ours[id].n
             /\ o.heard = backend.ours[id].heard /\ o.seen = backend.ours[id].seen
    /\ \/ poll' = poll /\ backend'.playing = backend.playing
       \/ poll.step # "song" /\ poll'.step # "song"
    /\ \A i \in DOMAIN mpd'.queue :
          \/ songs'[mpd'.queue[i].n].sounded = 0
          \/ /\ \E j \in DOMAIN mpd.queue : mpd'.queue[i] = mpd.queue[j]
             /\ mpd'.queue[i].id \in DOMAIN backend.ours
                   => mpd'.queue[i].id \in DOMAIN backend'.ours

LEMMA Recounts ==
    ASSUME SameCount,
           \A id, n, heard, seen :
               Counted(id, n, heard, seen) => Untouched(n) /\ Steady(id)
    PROVE  Recounted
<1> SUFFICES ASSUME NEW id, NEW n, NEW heard, NEW seen, Counted(id, n, heard, seen)',
                    songs'[n].through,
                    ~(songs'[n].sounded = 0 /\ heard \in Nat /\ seen \in Seens)
             PROVE  Counted(id, n, heard, seen)
  BY DEF Recounted
<1>b. 0 \in Nat /\ NotSeen \in Seens
  BY DEF Seens
<1>1. CASE /\ id \in DOMAIN backend'.ours /\ n = backend'.ours[id].n
           /\ heard = backend'.ours[id].heard /\ seen = backend'.ours[id].seen
  BY <1>1 DEF SameCount, Counted
<1>2. CASE /\ Asked(id)' /\ n = poll'.n
           /\ heard = 0 /\ seen = IF backend'.playing THEN poll'.at ELSE NotSeen
  BY <1>2 DEF SameCount, Counted, Asked
<1>3. CASE /\ id \notin DOMAIN backend'.ours /\ ~Asked(id)'
           /\ \E i \in DOMAIN mpd'.queue : mpd'.queue[i].id = id /\ mpd'.queue[i].n = n
           /\ heard = 0 /\ seen = NotSeen
  <2>1. PICK i \in DOMAIN mpd'.queue : mpd'.queue[i].id = id /\ mpd'.queue[i].n = n
    BY <1>3
  <2>2. PICK j \in DOMAIN mpd.queue : mpd'.queue[i] = mpd.queue[j]
    BY <1>3, <1>b, <2>1 DEF SameCount
  <2>3. id \notin DOMAIN backend.ours
    BY <1>3, <1>b, <2>1 DEF SameCount
  <2>4. ~Asked(id)
    BY <1>3 DEF SameCount, Asked
  <2>5. QED
    BY <1>3, <2>1, <2>2, <2>3, <2>4 DEF Counted
<1>4. QED
  BY <1>1, <1>2, <1>3 DEF Counted

\* Nothing is queued, answered, adopted or lost, and no more goes through.
Calm ==
    /\ mpd'.linked = mpd.linked /\ Upheavals' >= Upheavals
    /\ DOMAIN songs' = DOMAIN songs
    /\ \A n \in DOMAIN songs :
          Untouched(n) /\ songs'[n].p = songs[n].p /\ songs'[n].answer = songs[n].answer
    /\ \A id \in DOMAIN backend'.ours :
          id \in DOMAIN backend.ours /\ backend'.ours[id].n = backend.ours[id].n
    /\ mpd.linked =>
          \A i \in DOMAIN mpd'.queue :
              /\ \E j \in DOMAIN mpd.queue : mpd'.queue[i] = mpd.queue[j]
              /\ mpd'.queue[i].id \in DOMAIN backend.ours
                    => mpd'.queue[i].id \in DOMAIN backend'.ours

\* What was judged stays so, and nothing else is judged against it.
LEMMA JudgedStays ==
    ASSUME Numbered, Numbered', SongsTyped(songs), Judged, Upheavals' >= Upheavals,
           \A n \in DOMAIN songs' :
              \/ ~songs'[n].through \/ songs'[n].answer \in {"none", "played"}
              \/ n \in DOMAIN songs /\ Untouched(n) /\ songs'[n].answer = songs[n].answer
    PROVE  Judged'
<1> SUFFICES ASSUME NEW n \in DOMAIN songs', songs'[n].through,
                    songs'[n].answer \notin {"none", "played"}
             PROVE  2 * songs'[n].sounded < Span + 6 * (1 + Upheavals')
  BY DEF Judged
<1>1. n \in DOMAIN songs /\ Untouched(n) /\ songs'[n].answer = songs[n].answer
  OBVIOUS
<1>2. /\ 2 * songs[n].sounded < Span + 6 * (1 + Upheavals)
      /\ songs'[n].sounded = songs[n].sounded
  BY <1>1 DEF Judged, Untouched
<1>3. PICK u, v, s \in Nat : u = Upheavals /\ v = Upheavals' /\ s = songs[n].sounded
  BY <1>1, LeewayIsNat, NumberedThen DEF SongsTyped
<1>4. QED
  BY <1>2, <1>3, SpanAssumption

LEMMA CalmReckons ==
    ASSUME Grounded, Reckoned, Numbered', Calm, AskedPlays', AllEven'
    PROVE  Reckoned'
<1>a. /\ Queued /\ Holds /\ SongsTyped(songs)
      /\ Numbered /\ Unheld /\ Unlinked /\ Judged
  BY Grounds DEF Reckoned
<1>1. Unheld'
  <2> SUFFICES ASSUME mpd.linked, NEW i \in DOMAIN mpd'.queue,
                      mpd'.queue[i].id \notin DOMAIN backend'.ours,
                      songs'[mpd'.queue[i].n].through
               PROVE  Adoptable(mpd.queue[i].n)'
    BY DEF Unheld, Calm
  <2>1. PICK j \in DOMAIN mpd.queue : mpd'.queue[i] = mpd.queue[j]
    BY DEF Calm
  <2>2. mpd.queue[j].id \notin DOMAIN backend.ours /\ mpd.queue[j].n \in DOMAIN songs
    BY <1>a, <2>1 DEF Calm, Queued
  <2>3. /\ songs[mpd.queue[j].n].through
        /\ songs'[mpd.queue[j].n].p = songs[mpd.queue[j].n].p
        /\ songs'[mpd.queue[j].n].answer = songs[mpd.queue[j].n].answer
    BY <2>1, <2>2 DEF Calm, Untouched
  <2>4. Adoptable(mpd.queue[j].n)
    BY <1>a, <2>2, <2>3 DEF Unheld
  <2>5. QED
    BY <2>1, <2>3, <2>4 DEF Adoptable
<1>2. Unlinked'
  <2> SUFFICES ASSUME ~mpd.linked
               PROVE  /\ \A n \in DOMAIN songs' :
                            songs'[n].through => songs'[n].sounded = 0 /\ Adoptable(n)'
                      /\ \A id \in DOMAIN backend'.ours :
                            ~songs'[backend'.ours[id].n].through
    BY DEF Unlinked, Calm
  <2>1. ASSUME NEW n \in DOMAIN songs', songs'[n].through
        PROVE  songs'[n].sounded = 0 /\ Adoptable(n)'
    <3>1. /\ n \in DOMAIN songs /\ songs[n].through /\ songs'[n].sounded = songs[n].sounded
          /\ songs'[n].p = songs[n].p /\ songs'[n].answer = songs[n].answer
      BY <2>1 DEF Calm, Untouched
    <3>2. songs[n].sounded = 0 /\ Adoptable(n)
      BY <1>a, <3>1 DEF Unlinked
    <3>3. QED
      BY <3>1, <3>2 DEF Adoptable
  <2>2. ASSUME NEW id \in DOMAIN backend'.ours
        PROVE  ~songs'[backend'.ours[id].n].through
    <3>1. id \in DOMAIN backend.ours /\ backend'.ours[id].n = backend.ours[id].n
      BY DEF Calm
    <3>2. backend.ours[id].n \in DOMAIN songs /\ ~songs[backend.ours[id].n].through
      BY <1>a, <3>1 DEF Unlinked, Holds
    <3>3. QED
      BY <3>1, <3>2 DEF Calm, Untouched
  <2>3. QED
    BY <2>1, <2>2
<1>3. Judged'
  BY <1>a, JudgedStays DEF Calm
<1>4. QED
  BY <1>1, <1>2, <1>3 DEF Reckoned

LEMMA AskedStays ==
    ASSUME AskedPlays, poll'.step = "song" => poll' = poll, mpd'.linked => mpd.linked,
           IdsIn(mpd'.queue) \subseteq IdsIn(mpd.queue),
           mpd.cur \in IdsIn(mpd'.queue) => mpd'.cur = mpd.cur
    PROVE  AskedPlays'
BY DEF AskedPlays

LEMMA NotAsked == ASSUME poll'.step # "song" \/ ~mpd'.linked PROVE AskedPlays'
BY DEF AskedPlays

LEMMA LostIsEven == ASSUME ~mpd'.linked PROVE AllEven' /\ Unheld' /\ AskedPlays'
BY DEF AllEven, Unheld, AskedPlays

LEMMA WithinIds ==
    ASSUME NEW q, NEW r, Within(q, r)
    PROVE  /\ IdsIn(r) \subseteq IdsIn(q)
           /\ \A k \in DOMAIN r : \E j \in DOMAIN q : r[k] = q[j]
BY DEF Within, IdsIn

-----------------------------------------------------------------------------
(* What happened so far.                                                    *)

\* Nothing more happens, though a handover may go on, or a poll be made.
LEMMA NothingMore ==
    ASSUME Numbered, NEW u, bounds' = bounds \/ bounds' = [bounds EXCEPT !.unpolled = u],
           hand'.stage # "none" => hand.stage # "none"
    PROVE  /\ Numbered' /\ Upheavals' = Upheavals
           /\ SetAside' = SetAside => Leeway' = Leeway
           /\ SetAside' = 0 /\ SetAside = 3 => Leeway' = Leeway + 3
<1>1. PICK c, f, h \in Nat : c = bounds.clients /\ f = bounds.faults /\ h = bounds.handovers
                             /\ (hand.stage # "none" => h > 0)
  BY DEF Numbered
<1>2. /\ DOMAIN bounds' = BoundFields
      /\ bounds'.clients = c /\ bounds'.faults = f /\ bounds'.handovers = h
  BY <1>1 DEF Numbered, BoundFields
<1>3. Numbered'
  BY <1>1, <1>2 DEF Numbered
<1>4. Upheavals = c + f + h /\ Upheavals' = c + f + h
  BY <1>1, <1>2 DEF Upheavals
<1>5. QED
  BY <1>1, <1>3, <1>4 DEF Leeway

\* A client, the bar, or a death.
LEMMA OneMore ==
    ASSUME Numbered, UNCHANGED <<hand, active>>,
           \/ bounds' = [bounds EXCEPT !.clients = @ + 1]
           \/ bounds' = [bounds EXCEPT !.faults = @ + 1]
    PROVE  Numbered' /\ Upheavals' = Upheavals + 1 /\ Leeway' = Leeway + 3
           /\ Upheavals' >= Upheavals /\ Leeway' >= Leeway + 3
<1>1. PICK c, f, h \in Nat : c = bounds.clients /\ f = bounds.faults /\ h = bounds.handovers
                             /\ (hand.stage # "none" => h > 0)
  BY DEF Numbered
<1>2. /\ DOMAIN bounds' = BoundFields /\ bounds'.handovers = h
      /\ \/ bounds'.clients = c + 1 /\ bounds'.faults = f
         \/ bounds'.clients = c /\ bounds'.faults = f + 1
  BY <1>1 DEF Numbered, BoundFields
<1>3. Numbered'
  BY <1>1, <1>2 DEF Numbered
<1>4. PICK s \in {0, 3} : s = SetAside
  BY DEF SetAside
<1>5. SetAside' = s
  BY <1>4 DEF SetAside
<1>6. Upheavals = c + f + h /\ Upheavals' = c + f + h + 1
  BY <1>1, <1>2 DEF Upheavals
<1>7. QED
  BY <1>1, <1>3, <1>4, <1>5, <1>6 DEF Leeway

LEMMA RoomIsSteady == ASSUME Leeway' >= Leeway + 3 PROVE \A id : Steady(id)
BY DEF Steady

LEMMA SameIsSteady ==
    ASSUME mpd' = mpd, bounds'.unpolled = bounds.unpolled, Leeway' >= Leeway
    PROVE  \A id : Steady(id)
BY DEF Steady

LEMMA QuietReckons ==
    ASSUME Grounded, Reckoned, Numbered', mpd'.at \in Nat, Calm, AskedPlays',
           mpd.linked => SameCount /\ \A id : Steady(id)
    PROVE  Reckoned'
<1>1. CASE mpd.linked
  <2>1. \A id, n, heard, seen : Counted(id, n, heard, seen) => Untouched(n) /\ Steady(id)
    BY <1>1, CountedTyped DEF Calm
  <2>2. Recounted
    BY <1>1, <2>1, Recounts
  <2>3. AllEven'
    BY <1>1, <2>2, EvenStays DEF Reckoned
  <2>4. QED
    BY <2>3, CalmReckons
<1>2. CASE ~mpd.linked
  <2>1. AllEven'
    BY <1>2, LostIsEven DEF Calm
  <2>2. QED
    BY <2>1, CalmReckons
<1>3. QED
  BY <1>1, <1>2

\* The songs go on as they did, but for one somebody had a hand on.
SameSong ==
    /\ DOMAIN songs' = DOMAIN songs
    /\ \A n \in DOMAIN songs :
          Untouched(n) /\ songs'[n].p = songs[n].p /\ songs'[n].answer = songs[n].answer

LEMMA NoHand == ASSUME songs' = songs PROVE SameSong
BY DEF SameSong, Untouched

LEMMA HandOnOne ==
    ASSUME SongsTyped(songs), NEW m \in DOMAIN songs, NEW s,
           \/ songs' = [songs EXCEPT ![m].seeks = s, ![m].through = FALSE]
           \/ songs' = [songs EXCEPT ![m].sounded = s, ![m].through = FALSE]
           \/ songs' = [songs EXCEPT ![m].through = FALSE]
    PROVE  SameSong /\ ~songs'[m].through
<1>1. \A n \in DOMAIN songs : DOMAIN songs[n] = SongFields
  BY DEF SongsTyped
<1>2. DOMAIN songs' = DOMAIN songs
  OBVIOUS
<1>3. \A n \in DOMAIN songs : n # m => songs'[n] = songs[n]
  OBVIOUS
<1>4. songs'[m].through = FALSE /\ songs'[m].p = songs[m].p /\ songs'[m].answer = songs[m].answer
  BY <1>1 DEF SongFields
<1>5. QED
  BY <1>2, <1>3, <1>4 DEF SameSong, Untouched

\* The backend and its poll are left alone.
LEMMA OnlyMpd ==
    ASSUME UNCHANGED <<backend, poll>>, SameSong, mpd'.linked = mpd.linked,
           Upheavals' >= Upheavals, mpd.linked => Within(mpd.queue, mpd'.queue)
    PROVE  Calm /\ (mpd.linked => SameCount)
<1>1. mpd.linked => \A k \in DOMAIN mpd'.queue : \E j \in DOMAIN mpd.queue :
                       mpd'.queue[k] = mpd.queue[j]
  BY WithinIds
<1>2. Calm
  BY <1>1 DEF Calm, SameSong
<1>3. mpd.linked => SameCount
  BY <1>1 DEF SameCount
<1>4. QED
  BY <1>2, <1>3

\* A unit sounds of what MPD plays: no more goes without credit than before.
LEMMA OneUnit ==
    ASSUME NEW seen \in Seens, NEW id, id = mpd.cur, id \in IdsIn(mpd.queue),
           mpd.at \in Nat, ~bounds.unpolled,
           \/ id \notin IdsIn(mpd'.queue)
           \/ mpd'.cur = id /\ mpd'.at = mpd.at + 1 /\ mpd'.state = "play",
           bounds'.unpolled = TRUE
    PROVE  Gap(id, seen)' + 1 <= Gap(id, seen)
<1>1. PICK a, b \in 0..2 : a = Ahead(seen, mpd.at) /\ b = Ahead(seen, mpd.at + 1)
  BY AheadBounds
<1>2. b >= a /\ (seen = mpd.at => a = 0 /\ b = 1)
  BY <1>1, AheadBounds
<1>3. PICK u \in {0, 1} : u = Unseen(seen)
  BY DEF Unseen
<1>4. seen # mpd.at => u = 1
  BY <1>3 DEF Unseen
<1>5. Gap(id, seen) = 2 + u - a
  BY <1>1, <1>3 DEF Gap
<1>6. CASE id \notin IdsIn(mpd'.queue)
  <2>1. Gap(id, seen)' = 0
    BY <1>6 DEF Gap
  <2>2. QED
    BY <1>1, <1>2, <1>3, <1>4, <1>5, <2>1
<1>7. CASE /\ mpd'.cur = id /\ mpd'.at = mpd.at + 1 /\ mpd'.state = "play"
           /\ id \in IdsIn(mpd'.queue)
  <2>1. Unseen(seen)' = 0
    BY <1>7 DEF Unseen
  <2>2. Gap(id, seen)' = 2 + 0 - b
    BY <1>1, <1>7, <2>1 DEF Gap
  <2>3. QED
    BY <1>1, <1>2, <1>3, <1>4, <1>5, <2>2
<1>8. QED
  BY <1>6, <1>7

LEMMA TakenOut ==
    ASSUME Shaped, Queued, NEW id \in IdsIn(mpd.queue)
    PROVE  id \notin IdsIn(RemoveAt(mpd.queue, IndexOf(mpd.queue, id)))
<1>1. PICK q : q = mpd.queue
  OBVIOUS
<1>2. q \in Seq(Entries) /\ \A i, j \in DOMAIN q : q[i].id = q[j].id => i = j
  BY <1>1 DEF Shaped, Queued
<1>3. PICK i \in DOMAIN q : i = IndexOf(q, id) /\ q[i].id = id
  BY <1>1, Indexed
<1>4. PICK r : r = RemoveAt(q, i)
  OBVIOUS
<1>5. /\ r \in Seq(Entries) /\ Len(r) = Len(q) - 1 /\ Len(q) - 1 \in Nat
      /\ \A k \in 1 .. Len(q) - 1 : r[k] = IF k < i THEN q[k] ELSE q[k + 1]
  BY <1>2, <1>3, <1>4, Shorter
<1>6. DOMAIN r = 1 .. Len(q) - 1 /\ DOMAIN q = 1 .. Len(q) /\ i \in Nat
  BY <1>2, <1>3, <1>5, LenProperties
<1>7. ASSUME NEW k \in DOMAIN r PROVE r[k].id # id
  <2>1. CASE k < i
    BY <1>2, <1>3, <1>5, <1>6, <2>1
  <2>2. CASE ~(k < i)
    <3>1. k + 1 \in DOMAIN q /\ k + 1 # i /\ r[k] = q[k + 1]
      BY <1>3, <1>5, <1>6, <2>2
    <3>2. QED
      BY <1>2, <1>3, <3>1
  <2>3. QED
    BY <2>1, <2>2
<1>8. QED
  BY <1>1, <1>3, <1>4, <1>7 DEF IdsIn

LEMMA ConsumedLeaves ==
    ASSUME Shaped, Queued, mpd.cur # None
    PROVE  mpd.cur \notin IdsIn(Consumed(mpd).queue)
<1>1. mpd.cur \in IdsIn(mpd.queue) /\ DOMAIN mpd = MpdFields
  BY DEF Queued, Shaped
<1>2. Consumed(mpd).queue = RemoveAt(mpd.queue, IndexOf(mpd.queue, mpd.cur))
  BY <1>1 DEF Consumed, MpdFields
<1>3. QED
  BY <1>1, <1>2, TakenOut

LEMMA MpdPlaysReckons ==
    ASSUME Grounded, mpd'.at \in Nat, Reckoned, MpdPlays
    PROVE  Reckoned'
<1>a. /\ Shaped /\ Queued /\ Holds /\ SongsTyped(songs) /\ DOMAIN mpd = MpdFields
      /\ mpd.at \in Nat
  BY Grounds
<1>b. Numbered /\ AllEven /\ Unheld /\ AskedPlays /\ Unlinked /\ Judged
  BY DEF Reckoned
<1>1. PICK id : id = mpd.cur
  OBVIOUS
<1>2. id \in IdsIn(mpd.queue) /\ mpd.cur # None /\ mpd.state = "play"
  BY <1>a, <1>1 DEF MpdPlays, Queued
<1>3. PICK n \in DOMAIN songs : n = SongOf(id)
  BY <1>2, SongThere DEF Grounded
<1>4. /\ songs' = [songs EXCEPT ![n].sounded = @ + 1, ![n].through = @ /\ mpd.linked]
      /\ mpd' = [mpd EXCEPT !.at = @ + 1] \/ mpd' = Consumed(mpd)
      /\ bounds' = [bounds EXCEPT !.unpolled = TRUE]
      /\ UNCHANGED <<backend, poll, local, active, hand>>
  BY <1>1, <1>3 DEF MpdPlays
<1>5. Numbered' /\ Upheavals' = Upheavals /\ Leeway' = Leeway
  <2>1. PICK u : bounds' = [bounds EXCEPT !.unpolled = u]
    BY <1>4
  <2>2. SetAside' = SetAside
    BY <1>4 DEF SetAside
  <2>3. QED
    BY <1>b, <1>4, <2>1, <2>2, NothingMore
<1>6. /\ mpd'.linked = mpd.linked /\ Within(mpd.queue, mpd'.queue)
      /\ \/ id \notin IdsIn(mpd'.queue)
         \/ mpd'.cur = id /\ mpd'.at = mpd.at + 1 /\ mpd'.state = "play"
  <2>1. CASE mpd' = [mpd EXCEPT !.at = @ + 1]
    <3>1. /\ mpd'.linked = mpd.linked /\ mpd'.queue = mpd.queue /\ mpd'.cur = id
          /\ mpd'.at = mpd.at + 1 /\ mpd'.state = "play"
      BY <1>a, <1>1, <1>2, <2>1 DEF MpdFields
    <3>2. QED
      BY <3>1, WithinItself
  <2>2. CASE mpd' = Consumed(mpd)
    BY <1>a, <1>1, <1>2, <2>2, ConsumedGoesOn, ConsumedAt, ConsumedLeaves DEF GoesOn
  <2>3. QED
    BY <1>4, <2>1, <2>2
<1>7. /\ IdsIn(mpd'.queue) \subseteq IdsIn(mpd.queue)
      /\ \A k \in DOMAIN mpd'.queue : \E j \in DOMAIN mpd.queue : mpd'.queue[k] = mpd.queue[j]
  BY <1>6, WithinIds
<1>8. AskedPlays'
  <2>1. mpd.cur \in IdsIn(mpd'.queue) => mpd'.cur = mpd.cur
    BY <1>1, <1>6
  <2>2. QED
    BY <1>b, <1>4, <1>6, <1>7, <2>1, AskedStays
<1>9. CASE ~mpd.linked
  <2>1. PICK s : songs' = [songs EXCEPT ![n].sounded = s, ![n].through = FALSE]
    BY <1>4, <1>9
  <2>2. SameSong
    BY <1>a, <2>1, HandOnOne
  <2>3. Upheavals \in Nat
    BY <1>b, LeewayIsNat
  <2>4. Upheavals' >= Upheavals
    BY <1>5, <2>3
  <2>5. Calm
    BY <1>4, <1>6, <2>2, <2>4, OnlyMpd
  <2>6. QED
    BY <1>5, <1>8, <1>9, <2>5, QuietReckons
<1>10. CASE mpd.linked
  <2>1. /\ DOMAIN songs' = DOMAIN songs /\ \A m \in DOMAIN songs : m # n => songs'[m] = songs[m]
        /\ songs'[n].p = songs[n].p /\ songs'[n].answer = songs[n].answer
        /\ songs'[n].sounded = songs[n].sounded + 1
        /\ songs'[n].through => songs[n].through
    <3>1. DOMAIN songs[n] = SongFields
      BY <1>a DEF SongsTyped
    <3>2. QED
      BY <1>4, <1>10, <3>1 DEF SongFields
  <2>2. ~bounds.unpolled /\ bounds'.unpolled = TRUE
    <3>1. ~backend.lost
      BY <1>10, Grounds
    <3>2. ~bounds.unpolled
      BY <3>1 DEF MpdPlays
    <3>3. QED
      BY <1>b, <1>4, <3>2 DEF Numbered, BoundFields
  <2>3. AllEven'
    <3> SUFFICES ASSUME NEW jd, NEW m, NEW heard, NEW seen, Counted(jd, m, heard, seen)'
                 PROVE  Even(jd, m, heard, seen)'
      BY DEF AllEven
    <3>1. Counted(jd, m, heard, seen)
      BY <1>4, <1>7 DEF Counted, Asked
    <3>2. /\ m \in DOMAIN songs /\ songs[m].sounded \in Nat /\ heard \in Nat /\ seen \in Seens
          /\ Even(jd, m, heard, seen)
      BY <1>b, <1>10, <3>1, CountedTyped DEF AllEven
    <3>3. jd = id <=> m = n
      <4>1. PICK i \in DOMAIN mpd.queue : mpd.queue[i].id = id /\ mpd.queue[i].n = n
        BY <1>2, <1>3, Indexed DEF SongOf
      <4>2. mpd.queue[i].id = jd <=> mpd.queue[i].n = m
        BY <1>10, <3>1, CountedPlays
      <4>3. QED
        BY <4>1, <4>2
    <3>4. CASE m # n
      <4>1. Untouched(m)
        BY <2>1, <3>2, <3>4 DEF Untouched
      <4>2. Leeway \in Nat /\ Leeway' \in Nat
        BY <1>b, <1>5, LeewayIsNat
      <4>3. Steady(jd)
        BY <1>1, <1>5, <1>7, <3>3, <3>4, <4>2 DEF Steady
      <4>4. QED
        BY <1>a, <3>2, <4>1, <4>2, <4>3, StillEven
    <3>5. CASE m = n
      <4> SUFFICES ASSUME songs'[m].through
                   PROVE  songs'[m].sounded + Gap(jd, seen)' <= heard + 3 + Leeway'
        BY DEF Even
      <4>1. Gap(jd, seen)' + 1 <= Gap(jd, seen)
        BY <1>a, <1>1, <1>2, <1>6, <2>2, <3>2, <3>3, <3>5, OneUnit
      <4>2. songs[m].sounded + Gap(jd, seen) <= heard + 3 + Leeway
        BY <2>1, <3>2, <3>5 DEF Even
      <4>3. PICK g, h \in 0..3 : g = Gap(jd, seen) /\ h = Gap(jd, seen)'
        BY <1>a, <3>2, GapBounds, GapThen DEF GapBounded
      <4>4. PICK l \in Nat : l = Leeway
        BY <1>b, LeewayIsNat
      <4>5. QED
        BY <1>5, <2>1, <3>2, <3>5, <4>1, <4>2, <4>3, <4>4
    <3>6. QED
      BY <3>4, <3>5
  <2>4. Unheld'
    <3> SUFFICES ASSUME NEW i \in DOMAIN mpd'.queue,
                        mpd'.queue[i].id \notin DOMAIN backend.ours,
                        songs'[mpd'.queue[i].n].through
                 PROVE  Adoptable(mpd.queue[i].n)'
      BY <1>4 DEF Unheld
    <3>1. PICK j \in DOMAIN mpd.queue : mpd'.queue[i] = mpd.queue[j]
      BY <1>7
    <3>2. PICK m \in DOMAIN songs : m = mpd.queue[j].n
      BY <1>a DEF Queued
    <3>3. songs[m].through /\ songs'[m].p = songs[m].p /\ songs'[m].answer = songs[m].answer
      BY <2>1, <3>1, <3>2
    <3>4. Adoptable(m)
      BY <1>b, <1>10, <3>1, <3>2, <3>3 DEF Unheld
    <3>5. QED
      BY <3>1, <3>2, <3>3, <3>4 DEF Adoptable
  <2>5. Judged'
    <3>1. songs[n].through => songs[n].answer = "none"
      <4>1. PICK i \in DOMAIN mpd.queue : mpd.queue[i].id = id /\ mpd.queue[i].n = n
        BY <1>2, <1>3, Indexed DEF SongOf
      <4>2. CASE id \in DOMAIN backend.ours
        <5>1. backend.ours[id].n = n
          BY <1>2, <1>3, <1>10, <4>2, Knows DEF Grounded
        <5>2. QED
          BY <1>a, <4>2, <5>1 DEF Holds
      <4>3. CASE id \notin DOMAIN backend.ours
        BY <1>b, <1>10, <4>1, <4>3 DEF Unheld, Adoptable
      <4>4. QED
        BY <4>2, <4>3
    <3>2. \A m \in DOMAIN songs' :
             \/ ~songs'[m].through \/ songs'[m].answer \in {"none", "played"}
             \/ m \in DOMAIN songs /\ Untouched(m) /\ songs'[m].answer = songs[m].answer
      BY <2>1, <3>1 DEF Untouched
    <3>3. Upheavals \in Nat
      BY <1>b, LeewayIsNat
    <3>4. QED
      BY <1>a, <1>b, <1>5, <3>2, <3>3, JudgedStays
  <2>6. Unlinked'
    BY <1>6, <1>10 DEF Unlinked
  <2>7. QED
    BY <1>5, <1>8, <2>3, <2>4, <2>5, <2>6 DEF Reckoned
<1>11. QED
  BY <1>9, <1>10

\* One more song, of a client's or of the backend's.
LEMMA OneMoreReckons ==
    ASSUME Grounded, Reckoned, Numbered', mpd'.at \in Nat, mpd' = Added(mpd),
           NEW song, "answer" \in DOMAIN song, song.sounded = 0, song.answer = "none",
           songs' = Append(songs, song), poll' = poll, backend'.playing = backend.playing,
           Upheavals' >= Upheavals, Leeway' >= Leeway, bounds'.unpolled = bounds.unpolled,
           \/ backend'.ours = backend.ours /\ song.p \in Whole
           \/ /\ mpd.linked
              /\ DOMAIN backend'.ours = DOMAIN backend.ours \cup {mpd.nextId}
              /\ \A id \in DOMAIN backend.ours : backend'.ours[id] = backend.ours[id]
              /\ LET o == backend'.ours[mpd.nextId] IN
                 o.n = Len(songs) + 1 /\ o.heard = 0 /\ o.seen = NotSeen
    PROVE  Reckoned'
<1>a. /\ Shaped /\ Queued /\ Holds /\ Polling /\ SongsTyped(songs) /\ DOMAIN mpd = MpdFields
  BY Grounds
<1>b. Numbered /\ AllEven /\ Unheld /\ AskedPlays /\ Unlinked /\ Judged
  BY DEF Reckoned
<1>1. PICK x : x = Len(songs) + 1
  OBVIOUS
<1>2. /\ mpd'.linked = mpd.linked
      /\ DOMAIN songs = 1 .. x - 1 /\ DOMAIN songs' = 1 .. x /\ x \in Nat
      /\ \A n \in DOMAIN songs : songs'[n] = songs[n]
      /\ songs'[x] = song
      /\ \A i \in DOMAIN mpd'.queue :
            \/ i \in DOMAIN mpd.queue /\ mpd'.queue[i] = mpd.queue[i]
            \/ mpd'.queue[i] = [id |-> mpd.nextId, n |-> x]
  BY <1>1, OneMoreSong DEF Grounded
<1>3. /\ mpd'.cur = mpd.cur /\ mpd'.at = mpd.at /\ mpd'.state = mpd.state
      /\ mpd.nextId \in Nat
  BY <1>a DEF Added, MpdFields, Shaped
<1>4. x \in DOMAIN songs' /\ x \notin DOMAIN songs
      /\ \A n \in DOMAIN songs' : n \in DOMAIN songs \/ n = x
  BY <1>2
<1>5. \A n \in DOMAIN songs : Untouched(n)
  BY <1>2 DEF Untouched
<1>6. \A i \in DOMAIN mpd.queue : mpd.queue[i].id < mpd.nextId /\ mpd.queue[i].n \in DOMAIN songs
  BY <1>a DEF Queued, Shaped
<1>7. DOMAIN backend.ours \subseteq DOMAIN backend'.ours
  OBVIOUS
<1>8. ASSUME mpd.linked PROVE AllEven'
  <2>1. \A id, n, heard, seen : Counted(id, n, heard, seen) => Untouched(n) /\ Steady(id)
    <3> SUFFICES ASSUME NEW id, NEW n, NEW heard, NEW seen, Counted(id, n, heard, seen)
                 PROVE  Untouched(n) /\ Steady(id)
      OBVIOUS
    <3>1. Untouched(n)
      BY <1>5, <1>8, CountedTyped
    <3>2. id # mpd.nextId
      <4>1. CASE id \in DOMAIN backend.ours
        BY <1>3, <1>8, <1>a, <4>1 DEF Holds, Shaped
      <4>2. CASE Asked(id)
        BY <1>3, <1>8, <1>a, <4>2 DEF Asked, Polling
      <4>3. CASE \E i \in DOMAIN mpd.queue : mpd.queue[i].id = id
        BY <1>3, <1>6, <4>3
      <4>4. QED
        BY <4>1, <4>2, <4>3 DEF Counted
    <3>3. id \in IdsIn(mpd'.queue) => id \in IdsIn(mpd.queue)
      BY <1>2, <3>2 DEF IdsIn
    <3>4. QED
      BY <1>3, <3>1, <3>3 DEF Steady
  <2>2. SameCount
    <3>1. ASSUME NEW id \in DOMAIN backend'.ours
          PROVE  LET o == backend'.ours[id] IN
                 \/ songs'[o.n].sounded = 0 /\ o.heard \in Nat /\ o.seen \in Seens
                 \/ /\ id \in DOMAIN backend.ours /\ o.n = backend.ours[id].n
                    /\ o.heard = backend.ours[id].heard /\ o.seen = backend.ours[id].seen
      <4>1. CASE id \in DOMAIN backend.ours
        BY <4>1
      <4>2. CASE id \notin DOMAIN backend.ours
        <5>1. LET o == backend'.ours[id] IN o.n = x /\ o.heard = 0 /\ o.seen = NotSeen
          BY <1>1, <4>2
        <5>2. NotSeen \in Seens /\ 0 \in Nat
          BY DEF Seens
        <5>3. QED
          BY <1>2, <5>1, <5>2
      <4>3. QED
        BY <4>1, <4>2
    <3>2. ASSUME NEW i \in DOMAIN mpd'.queue
          PROVE  \/ songs'[mpd'.queue[i].n].sounded = 0
                 \/ /\ \E j \in DOMAIN mpd.queue : mpd'.queue[i] = mpd.queue[j]
                    /\ mpd'.queue[i].id \in DOMAIN backend.ours
                          => mpd'.queue[i].id \in DOMAIN backend'.ours
      BY <1>2, <1>7
    <3>3. QED
      BY <3>1, <3>2 DEF SameCount
  <2>3. Recounted
    BY <2>1, <2>2, Recounts
  <2>4. QED
    BY <1>8, <1>b, <2>3, EvenStays
<1>9. Unheld'
  <2> SUFFICES ASSUME mpd.linked, NEW i \in DOMAIN mpd'.queue,
                      mpd'.queue[i].id \notin DOMAIN backend'.ours,
                      songs'[mpd'.queue[i].n].through
               PROVE  Adoptable(mpd.queue[i].n)'
    BY <1>2 DEF Unheld
  <2>1. CASE i \in DOMAIN mpd.queue /\ mpd'.queue[i] = mpd.queue[i]
    <3>1. PICK n \in DOMAIN songs : n = mpd.queue[i].n
      BY <1>6, <2>1
    <3>2. songs[n].through /\ mpd.queue[i].id \notin DOMAIN backend.ours
      BY <1>2, <1>7, <2>1, <3>1
    <3>3. Adoptable(n)
      BY <1>b, <2>1, <3>1, <3>2 DEF Unheld
    <3>4. QED
      BY <1>2, <2>1, <3>1, <3>3 DEF Adoptable
  <2>2. CASE mpd'.queue[i] = [id |-> mpd.nextId, n |-> x]
    <3>1. mpd'.queue[i].id = mpd.nextId /\ mpd'.queue[i].n = x
      BY <2>2
    <3>2. song.p \in Whole
      BY <3>1
    <3>3. QED
      BY <1>2, <3>1, <3>2 DEF Adoptable
  <2>3. QED
    BY <1>2, <2>1, <2>2
<1>10. AskedPlays'
  <2> SUFFICES ASSUME mpd.linked, poll.step = "song", poll.id \in IdsIn(mpd'.queue)
               PROVE  mpd.cur = poll.id
    BY <1>2, <1>3 DEF AskedPlays
  <2>1. poll.id # mpd.nextId
    <3>1. poll.id \in 1 .. mpd.nextId - 1
      BY <1>a DEF Polling
    <3>2. QED
      BY <1>3, <3>1
  <2>2. poll.id \in IdsIn(mpd.queue)
    <3>1. PICK i \in DOMAIN mpd'.queue : mpd'.queue[i].id = poll.id
      BY DEF IdsIn
    <3>2. i \in DOMAIN mpd.queue /\ mpd'.queue[i] = mpd.queue[i]
      BY <1>2, <2>1, <3>1
    <3>3. QED
      BY <3>1, <3>2 DEF IdsIn
  <2>3. QED
    BY <1>b, <2>2 DEF AskedPlays
<1>11. Unlinked'
  <2> SUFFICES ASSUME ~mpd.linked
               PROVE  /\ \A n \in DOMAIN songs' :
                            songs'[n].through => songs'[n].sounded = 0 /\ Adoptable(n)'
                      /\ \A id \in DOMAIN backend'.ours :
                            ~songs'[backend'.ours[id].n].through
    BY <1>2 DEF Unlinked
  <2>1. backend'.ours = backend.ours /\ song.p \in Whole
    OBVIOUS
  <2>2. \A n \in DOMAIN songs : songs[n].through => songs[n].sounded = 0 /\ Adoptable(n)
    BY <1>b DEF Unlinked
  <2>3. ASSUME NEW n \in DOMAIN songs', songs'[n].through
        PROVE  songs'[n].sounded = 0 /\ Adoptable(n)'
    <3>1. CASE n \in DOMAIN songs
      BY <1>2, <2>2, <2>3, <3>1 DEF Adoptable
    <3>2. CASE n = x
      BY <1>2, <2>1, <3>2 DEF Adoptable
    <3>3. QED
      BY <1>4, <3>1, <3>2
  <2>4. \A id \in DOMAIN backend'.ours : ~songs'[backend'.ours[id].n].through
    BY <1>2, <1>a, <1>b, <2>1 DEF Unlinked, Holds
  <2>5. QED
    BY <2>3, <2>4
<1>12. Judged'
  <2>1. \A m \in DOMAIN songs' :
           \/ ~songs'[m].through \/ songs'[m].answer \in {"none", "played"}
           \/ m \in DOMAIN songs /\ Untouched(m) /\ songs'[m].answer = songs[m].answer
    BY <1>2, <1>4, <1>5
  <2>2. QED
    BY <1>a, <1>b, <2>1, JudgedStays
<1>13. AllEven'
  BY <1>2, <1>8 DEF AllEven
<1>14. QED
  BY <1>9, <1>10, <1>11, <1>12, <1>13 DEF Reckoned

LEMMA EnqueuedReckons ==
    ASSUME Grounded, Reckoned, Numbered', mpd'.at \in Nat, NEW p, Enqueued(p), poll' = poll,
           Upheavals' >= Upheavals, Leeway' >= Leeway, bounds'.unpolled = bounds.unpolled
    PROVE  Reckoned'
<1>a. /\ Shaped /\ Queued /\ Holds /\ SongsTyped(songs) /\ DOMAIN mpd = MpdFields
      /\ DOMAIN backend = BackendFields
  BY Grounds
<1>1. CASE p \in Outside \/ ~mpd.linked
  <2>1. UNCHANGED <<mpd, songs>> /\ backend'.ours = backend.ours
        /\ backend'.playing = backend.playing
    BY <1>1, <1>a DEF Enqueued, BackendFields
  <2>2. SameSong
    BY <2>1, NoHand
  <2>3. Calm
    BY <2>1, <2>2 DEF Calm, SameSong
  <2>4. SameCount
    BY <2>1 DEF SameCount
  <2>5. \A id : Steady(id)
    BY <2>1, SameIsSteady
  <2>6. AskedPlays'
    BY <2>1, AskedStays DEF Reckoned
  <2>7. QED
    BY <2>3, <2>4, <2>5, <2>6, QuietReckons
<1>2. CASE ~(p \in Outside \/ ~mpd.linked)
  <2>1. PICK honoured \in {TRUE, (p \in Whole)} :
           LET id == mpd.nextId
               o == Offered(Len(songs) + 1, p, honoured, FALSE, FALSE)
           IN /\ backend' = [backend EXCEPT !.len = @ + 1,
                     !.ours = [i \in DOMAIN @ \cup {id} |-> IF i = id THEN o ELSE @[i]]]
              /\ mpd' = Added(mpd)
              /\ songs' = Append(songs, NewSong(p, honoured))
    BY <1>2 DEF Enqueued
  <2>2. PICK song : song = NewSong(p, honoured)
    OBVIOUS
  <2>3. "answer" \in DOMAIN song /\ song.sounded = 0 /\ song.answer = "none"
    BY <2>2, FreshSong
  <2>4. PICK o : o = Offered(Len(songs) + 1, p, honoured, FALSE, FALSE)
    OBVIOUS
  <2>5. o.n = Len(songs) + 1 /\ o.heard = 0 /\ o.seen = NotSeen
    BY <2>4 DEF Offered
  <2>6. /\ backend'.playing = backend.playing
        /\ DOMAIN backend'.ours = DOMAIN backend.ours \cup {mpd.nextId}
        /\ backend'.ours[mpd.nextId] = o
        /\ \A id \in DOMAIN backend.ours : id # mpd.nextId => backend'.ours[id] = backend.ours[id]
    BY <1>a, <2>1, <2>4 DEF BackendFields
  <2>7. mpd.nextId \notin DOMAIN backend.ours
    BY <1>2, <1>a DEF Holds, Shaped
  <2>8. QED
    BY <1>2, <2>1, <2>2, <2>3, <2>5, <2>6, <2>7, OneMoreReckons
<1>3. QED
  BY <1>1, <1>2

LEMMA WorldReckons ==
    ASSUME Grounded, mpd'.at \in Nat, Reckoned, World
    PROVE  Reckoned'
<1>a. /\ Shaped /\ Queued /\ SongsTyped(songs) /\ DOMAIN mpd = MpdFields
      /\ mpd.cur # None => mpd.cur \in IdsIn(mpd.queue)
      /\ \A id \in IdsIn(mpd.queue) : id # None
  BY Grounds DEF Queued
<1>b. Numbered /\ AllEven /\ Unheld /\ AskedPlays /\ Unlinked /\ Judged
  BY DEF Reckoned
<1>c. ASSUME UNCHANGED <<hand, active>>, bounds' = [bounds EXCEPT !.clients = @ + 1]
      PROVE  Numbered' /\ Upheavals' >= Upheavals /\ Leeway' >= Leeway + 3 /\ \A id : Steady(id)
  BY <1>b, <1>c, OneMore, RoomIsSteady
<1>d. ASSUME UNCHANGED <<hand, active, backend, poll>>, bounds' = [bounds EXCEPT !.clients = @ + 1],
             SameSong, mpd'.linked = mpd.linked, Within(mpd.queue, mpd'.queue),
             mpd.cur \in IdsIn(mpd'.queue) => mpd'.cur = mpd.cur
      PROVE  Reckoned'
  <2>1. Numbered' /\ Upheavals' >= Upheavals /\ \A id : Steady(id)
    BY <1>c, <1>d
  <2>2. Calm /\ (mpd.linked => SameCount)
    BY <1>d, <2>1, OnlyMpd
  <2>3. IdsIn(mpd'.queue) \subseteq IdsIn(mpd.queue)
    BY <1>d, WithinIds
  <2>4. AskedPlays'
    BY <1>b, <1>d, <2>3, AskedStays
  <2>5. QED
    BY <2>1, <2>2, <2>4, QuietReckons
<1>1. CASE MpdPlays
  BY <1>1, MpdPlaysReckons
<1>2. CASE MpdDies
  <2>1. /\ bounds' = [bounds EXCEPT !.faults = @ + 1] /\ UNCHANGED <<hand, active, backend>>
        /\ songs' = [n \in DOMAIN songs |-> [songs[n] EXCEPT !.through = FALSE]]
        /\ ~mpd'.linked
    BY <1>2, <1>a DEF MpdDies, MpdFields
  <2>2. Numbered'
    BY <1>b, <2>1, OneMore
  <2>3. DOMAIN songs' = DOMAIN songs /\ \A n \in DOMAIN songs : ~songs'[n].through
    BY <1>a, <2>1 DEF SongsTyped, SongFields
  <2>4. Unlinked'
    <3>1. \A id \in DOMAIN backend.ours : backend.ours[id].n \in DOMAIN songs
      BY Grounds DEF Holds
    <3>2. QED
      BY <2>1, <2>3, <3>1 DEF Unlinked
  <2>5. Judged'
    BY <2>3 DEF Judged
  <2>6. QED
    BY <2>1, <2>2, <2>4, <2>5, LostIsEven DEF Reckoned
<1>3. CASE MpdReturns
  <2>1. UNCHANGED <<backend, poll, hand, active, songs, bounds>> /\ ~mpd.linked
    BY <1>3, <1>a DEF MpdReturns, Queued
  <2>2. mpd'.linked = mpd.linked
    BY <1>3, <1>a, ReturnsAt
  <2>3. Numbered' /\ Upheavals' = Upheavals
    BY <1>b, <2>1, NothingMore
  <2>4. Upheavals \in Nat
    BY <1>b, LeewayIsNat
  <2>5. Calm
    BY <2>1, <2>2, <2>3, <2>4, NoHand DEF Calm, SameSong
  <2>6. AskedPlays'
    BY <2>1, <2>2, NotAsked
  <2>7. QED
    BY <2>1, <2>3, <2>5, <2>6, QuietReckons
<1>4. CASE ClientPlaysOrPauses
  <2>1. /\ UNCHANGED <<backend, poll, hand, active, songs>>
        /\ bounds' = [bounds EXCEPT !.clients = @ + 1]
    BY <1>4 DEF ClientPlaysOrPauses, ClientActs
  <2>2. \/ mpd' = [mpd EXCEPT !.state = "pause"] \/ mpd' = [mpd EXCEPT !.state = "play"]
        \/ mpd.cur = None /\ mpd' = [mpd EXCEPT !.cur = mpd.queue[1].id, !.at = 0, !.state = "play"]
    BY <1>4 DEF ClientPlaysOrPauses, Sought
  <2>3. /\ mpd'.linked = mpd.linked /\ mpd'.queue = mpd.queue
        /\ mpd'.cur = mpd.cur \/ mpd.cur = None
    BY <1>a, <2>2 DEF MpdFields
  <2>4. mpd.cur \in IdsIn(mpd'.queue) => mpd'.cur = mpd.cur
    BY <1>a, <2>3
  <2>5. QED
    BY <1>d, <2>1, <2>3, <2>4, NoHand, WithinItself
<1>5. ASSUME NEW p \in Passages, ClientAdds(p) PROVE Reckoned'
  <2>1. /\ UNCHANGED <<backend, poll, hand, active>> /\ p \in Whole
        /\ bounds' = [bounds EXCEPT !.clients = @ + 1]
        /\ mpd' = Added(mpd) /\ songs' = Append(songs, NewSong(p, TRUE))
    BY <1>5 DEF ClientAdds, ClientActs
  <2>2. PICK song : song = NewSong(p, TRUE)
    OBVIOUS
  <2>3. "answer" \in DOMAIN song /\ song.sounded = 0 /\ song.answer = "none" /\ song.p = p
    BY <2>2, FreshSong, NewSongLabel
  <2>4. bounds'.unpolled = bounds.unpolled
    BY <1>b, <2>1 DEF Numbered, BoundFields
  <2>5. Numbered' /\ Upheavals' >= Upheavals /\ Leeway' >= Leeway + 3
    BY <1>c, <2>1
  <2>6. Leeway' >= Leeway
    BY <1>b, <2>5, LeewayIsNat, NumberedThen
  <2>7. QED
    BY <2>1, <2>2, <2>3, <2>4, <2>5, <2>6, OneMoreReckons
<1>6. ASSUME NEW id \in IdsIn(mpd.queue), ClientDeletes(id) PROVE Reckoned'
  <2>1. /\ UNCHANGED <<backend, poll, hand, active, songs>>
        /\ bounds' = [bounds EXCEPT !.clients = @ + 1]
        /\ mpd' = Removed(mpd, id)
    BY <1>6 DEF ClientDeletes, ClientActs
  <2>2. Within(mpd.queue, mpd'.queue)
    BY <1>a, <2>1, RemovedGoesOn DEF GoesOn
  <2>3. /\ mpd'.linked = mpd.linked
        /\ mpd.cur \in IdsIn(mpd'.queue) => mpd'.cur = mpd.cur
    <3>1. CASE id = mpd.cur
      <4>1. mpd' = Consumed(mpd) /\ mpd.cur # None
        BY <1>a, <2>1, <3>1 DEF Removed
      <4>2. QED
        BY <1>a, <4>1, ConsumedAt, ConsumedLeaves
    <3>2. CASE id # mpd.cur
      BY <1>a, <2>1, <3>2 DEF Removed, MpdFields
    <3>3. QED
      BY <3>1, <3>2
  <2>4. QED
    BY <1>d, <2>1, <2>2, <2>3, NoHand
<1>7. ASSUME NEW at \in {0, Span - 1}, ClientSeeks(at) PROVE Reckoned'
  <2> DEFINE n == SongOf(mpd.cur)
  <2>1. mpd.cur \in IdsIn(mpd.queue) /\ n \in DOMAIN songs
    BY <1>7, <1>a, SongThere DEF ClientSeeks, Grounded
  <2>2. /\ songs' = [songs EXCEPT ![n].seeks = @ + 1, ![n].through = FALSE]
        /\ UNCHANGED <<backend, poll, hand, active>>
        /\ bounds' = [bounds EXCEPT !.clients = @ + 1]
        /\ mpd' = [mpd EXCEPT !.at = at]
    BY <1>7 DEF ClientSeeks, ClientActs
  <2> HIDE DEF n
  <2>3. PICK s : songs' = [songs EXCEPT ![n].seeks = s, ![n].through = FALSE]
    BY <2>2
  <2>4. SameSong
    BY <1>a, <2>1, <2>3, HandOnOne
  <2>5. mpd'.linked = mpd.linked /\ mpd'.cur = mpd.cur /\ mpd'.queue = mpd.queue
    BY <2>2, <1>a DEF MpdFields
  <2>6. QED
    BY <1>d, <2>2, <2>4, <2>5, WithinItself
<1>8. QED
  BY <1>1, <1>2, <1>3, <1>4, <1>5, <1>6, <1>7 DEF World

-----------------------------------------------------------------------------
(* Polls.                                                                   *)

\* The rest of a poll costs a handover nothing.
LEMMA PollOverCosts ==
    ASSUME Numbered, DOMAIN hand = HandFields, DOMAIN poll = PollFields, PollOver,
           UNCHANGED active, NEW u, bounds' = bounds \/ bounds' = [bounds EXCEPT !.unpolled = u]
    PROVE  /\ Numbered' /\ Upheavals' = Upheavals /\ Leeway' = Leeway
           /\ poll'.step # "song"
           /\ Upheavals' >= Upheavals /\ Leeway' >= Leeway
<1>1. /\ poll'.step # "song"
      /\ hand'.stage = CASE hand.stage = "refresh" -> "read"
                         [] hand.stage = "look"    -> "found"
                         [] hand.stage = "wait"    -> "waited"
                         [] OTHER                  -> hand.stage
  BY DEF PollOver, HandFields
<1>2. (hand'.stage # "none" => hand.stage # "none") /\ SetAside' = SetAside
  BY <1>1 DEF SetAside
<1>3. Numbered' /\ Upheavals' = Upheavals /\ Leeway' = Leeway
  BY <1>2, NothingMore
<1>4. QED
  BY <1>1, <1>3, LeewayIsNat

LEMMA ReconnectReckons ==
    ASSUME Grounded, mpd'.at \in Nat, Reckoned, Reconnect
    PROVE  Reckoned'
<1>a. /\ Shaped /\ Queued /\ Holds /\ SongsTyped(songs) /\ DOMAIN mpd = MpdFields
      /\ DOMAIN backend = BackendFields
  BY Grounds
<1>b. Numbered /\ AllEven /\ Unheld /\ AskedPlays /\ Unlinked /\ Judged
  BY DEF Reckoned
<1>1. /\ backend.lost /\ poll.step = "idle" /\ UNCHANGED <<poll, hand, active, bounds>>
      /\ backend' = Reconnected(backend) /\ mpd' = [mpd EXCEPT !.linked = TRUE]
      /\ songs' = Answered([id \in DOMAIN backend.ours \ DOMAIN backend'.ours |-> "dropped"])
  BY DEF Reconnect
<1>2. ~mpd.linked
  BY <1>1, Grounds
<1>3. Numbered' /\ Upheavals' = Upheavals /\ Leeway' \in Nat
  BY <1>1, <1>b, NothingMore, NumberedThen
<1>4. DOMAIN backend'.ours = {}
  BY <1>1, <1>a DEF Reconnected, BackendFields
<1>5. mpd'.queue = mpd.queue
  BY <1>1, <1>a DEF MpdFields
<1>6. DOMAIN songs' = DOMAIN songs
  BY <1>1 DEF Answered
<1>7. ASSUME NEW n \in DOMAIN songs, songs'[n].through
      PROVE  songs'[n] = songs[n] /\ songs[n].sounded = 0 /\ Adoptable(n)
  <2> DEFINE verdict == [id \in DOMAIN backend.ours \ DOMAIN backend'.ours |-> "dropped"]
  <2>1. CASE \E id \in DOMAIN verdict : backend.ours[id].n = n
    <3>1. PICK w : songs'[n] = [songs[n] EXCEPT !.answer = w]
      BY <1>1, <2>1 DEF Answered
    <3>2. songs[n].through
      BY <1>7, <1>a, <3>1 DEF SongsTyped, SongFields
    <3>3. \A id \in DOMAIN backend.ours : ~songs[backend.ours[id].n].through
      BY <1>2, <1>b DEF Unlinked
    <3>4. QED
      BY <2>1, <3>2, <3>3
  <2>2. CASE ~\E id \in DOMAIN verdict : backend.ours[id].n = n
    <3>1. songs'[n] = songs[n]
      BY <1>1, <2>2 DEF Answered
    <3>2. QED
      BY <1>2, <1>7, <1>b, <3>1 DEF Unlinked
  <2>3. QED
    BY <2>1, <2>2
<1>8. \A i \in DOMAIN mpd.queue : mpd.queue[i].n \in DOMAIN songs
  BY <1>a DEF Queued
<1>9. AllEven'
  <2> SUFFICES ASSUME NEW id, NEW n, NEW heard, NEW seen, Counted(id, n, heard, seen)',
                      songs'[n].through
               PROVE  songs'[n].sounded + Gap(id, seen)' <= heard + 3 + Leeway'
    BY DEF AllEven, Even
  <2>1. n \in DOMAIN songs /\ heard = 0 /\ seen = NotSeen
    BY <1>1, <1>4, <1>5, <1>8 DEF Counted, Asked
  <2>2. songs'[n].sounded = 0 /\ seen \in Seens
    BY <1>7, <2>1 DEF Seens
  <2>3. PICK g \in 0..3 : g = Gap(id, seen)'
    BY <2>2, GapThen
  <2>4. PICK l \in Nat : l = Leeway'
    BY <1>3
  <2>5. QED
    BY <2>1, <2>2, <2>3, <2>4
<1>10. Unheld'
  <2> SUFFICES ASSUME NEW i \in DOMAIN mpd.queue, songs'[mpd.queue[i].n].through
               PROVE  Adoptable(mpd.queue[i].n)'
    BY <1>5 DEF Unheld
  <2>1. PICK n \in DOMAIN songs : n = mpd.queue[i].n
    BY <1>8
  <2>2. songs'[n] = songs[n] /\ Adoptable(n)
    BY <1>7, <2>1
  <2>3. QED
    BY <1>5, <2>1, <2>2 DEF Adoptable
<1>11. AskedPlays' /\ Unlinked'
  BY <1>1, <1>a DEF AskedPlays, Unlinked, MpdFields
<1>12. Judged'
  BY <1>6, <1>7 DEF Judged, Adoptable
<1>13. QED
  BY <1>3, <1>9, <1>10, <1>11, <1>12 DEF Reckoned

\* What a sample credits, and where it leaves a song seen.
LEMMA SampledHears ==
    ASSUME NEW b, DOMAIN b = BackendFields, OursTyped(b.ours), NEW id, NEW at
    PROVE  /\ Sampled(b, id, at).playing = b.playing
           /\ id \in DOMAIN b.ours /\ b.playing =>
                 /\ Sampled(b, id, at).ours[id].seen = at
                 /\ Sampled(b, id, at).ours[id].heard
                       = b.ours[id].heard + Ahead(b.ours[id].seen, at)
           /\ id \in DOMAIN b.ours /\ ~b.playing =>
                 /\ Sampled(b, id, at).ours[id].seen = b.ours[id].seen
                 /\ Sampled(b, id, at).ours[id].heard = b.ours[id].heard
<1>1. CASE id \notin DOMAIN b.ours
  BY <1>1 DEF Sampled
<1>2. CASE id \in DOMAIN b.ours /\ ~b.playing
  BY <1>2 DEF Sampled, OursTyped, OfferedFields, BackendFields
<1>3. CASE id \in DOMAIN b.ours /\ b.playing
  <2> DEFINE o == b.ours[id]
  <2>1. PICK y : Sampled(b, id, at) =
           [b EXCEPT !.ours[id].current = TRUE, !.ours[id].seen = at,
                     !.ours[id].heard = @ + Credit(b.ours[id], at),
                     !.ours[id].furthest = y]
    BY <1>3 DEF Sampled
  <2>2. DOMAIN o = OfferedFields
    BY <1>3 DEF OursTyped
  <2> DEFINE r == [o EXCEPT !.current = TRUE, !.seen = at,
                            !.heard = @ + Credit(b.ours[id], at), !.furthest = y]
  <2>3. r.seen = at /\ r.heard = o.heard + Credit(b.ours[id], at)
    BY <2>2 DEF OfferedFields
  <2>4. Sampled(b, id, at).ours = [b.ours EXCEPT ![id] = r]
    BY <1>3, <2>1 DEF BackendFields
  <2>5. Credit(o, at) = Ahead(o.seen, at)
    BY CreditIsAhead
  <2> HIDE DEF r
  <2>6. Sampled(b, id, at).ours[id] = r
    BY <1>3, <2>4
  <2> HIDE DEF o
  <2>7. PICK m : Sampled(b, id, at) = [b EXCEPT !.ours = m]
    BY <2>1
  <2>8. Sampled(b, id, at).playing = b.playing
    BY <2>7 DEF BackendFields
  <2>9. QED
    BY <1>3, <2>3, <2>5, <2>6, <2>8 DEF o
<1>4. QED
  BY <1>1, <1>2, <1>3

\* What was just seen, playing, loses no more than the two units of a sample.
LEMMA SeenNow ==
    ASSUME mpd.at \in Nat, NEW id, id = mpd.cur, mpd.state = "play", NEW seen, seen = mpd.at,
           mpd' = mpd \/ id \notin IdsIn(mpd'.queue)
    PROVE  Gap(id, seen)' \in 0..2
<1>1. CASE id \notin IdsIn(mpd'.queue)
  BY <1>1 DEF Gap
<1>2. CASE mpd' = mpd /\ id \in IdsIn(mpd'.queue)
  <2>1. Unseen(seen)' = 0
    BY <1>2 DEF Unseen
  <2>2. Ahead(seen, mpd.at)' = 0
    <3>1. PICK x \in Nat : x = mpd.at /\ x = mpd'.at
      BY <1>2
    <3>2. Way(x, x) = 0
      BY WayBounds
    <3>3. QED
      BY <3>1, <3>2 DEF Ahead
  <2>3. Gap(id, seen)' = 2
    BY <1>2, <2>1, <2>2 DEF Gap
  <2>4. QED
    BY <2>3
<1>3. QED
  BY <1>1, <1>2

LEMMA StatusReckons ==
    ASSUME Grounded, mpd'.at \in Nat, Reckoned, PollStatus
    PROVE  Reckoned'
<1>a. /\ Shaped /\ Queued /\ Holds /\ SongsTyped(songs) /\ OursTyped(backend.ours)
      /\ DOMAIN mpd = MpdFields /\ DOMAIN backend = BackendFields
      /\ DOMAIN poll = PollFields /\ DOMAIN hand = HandFields
      /\ mpd.at \in Nat /\ mpd.at \in Seens /\ NotSeen \in Seens
      /\ \A id \in IdsIn(mpd.queue) : id # None
      /\ \A id \in DOMAIN backend.ours : id # None
  BY Grounds DEF Placed, Seens, Shaped, None
<1>b. Numbered /\ AllEven /\ Unheld /\ AskedPlays /\ Unlinked /\ Judged
  BY DEF Reckoned
<1>1. /\ songs' = songs /\ UNCHANGED <<local, active>>
      /\ bounds' = [bounds EXCEPT !.unpolled = FALSE]
  BY DEF PollStatus
<1>2. SameSong
  BY <1>1, NoHand
<1>3. CASE ~mpd.linked
  <2>1. MarkLost /\ PollOver /\ mpd' = mpd
    BY <1>3 DEF PollStatus
  <2>2. Numbered' /\ Upheavals' >= Upheavals /\ poll'.step # "song"
    BY <1>a, <1>b, <1>1, <2>1, PollOverCosts
  <2>3. backend'.ours = backend.ours
    BY <1>a, <2>1 DEF MarkLost, BackendFields
  <2>4. Calm
    BY <1>2, <1>3, <2>1, <2>2, <2>3 DEF Calm, SameSong
  <2>5. AskedPlays'
    BY <2>2, NotAsked
  <2>6. QED
    BY <1>3, <2>2, <2>4, <2>5, QuietReckons
<1>4. CASE mpd.linked
  <2>1. PICK id : id = mpd.cur
    OBVIOUS
  <2> DEFINE known == id \in DOMAIN backend.ours
             b == [backend EXCEPT !.playing = (mpd.state = "play"), !.len = Len(mpd.queue),
                       !.head = IF known /\ mpd.state = "play"
                                THEN [p |-> backend.ours[id].p, at |-> mpd.at]
                                ELSE Nobody]
  <2>2. /\ backend' = Sampled(b, id, mpd.at)
        /\ mpd' = IF Overrun(backend', id) THEN Consumed(mpd) ELSE mpd
        /\ poll' = [step |-> IF id = None \/ known THEN "list" ELSE "song",
                    id |-> id, at |-> mpd.at,
                    n |-> IF id = None THEN None ELSE SongOf(id)]
        /\ UNCHANGED hand
    BY <1>4, <2>1 DEF PollStatus
  <2>3. DOMAIN b = BackendFields /\ b.ours = backend.ours /\ b.playing = (mpd.state = "play")
    BY <1>a DEF BackendFields
  <2> HIDE DEF b
  <2>4. /\ DOMAIN backend'.ours = DOMAIN backend.ours
        /\ \A i \in DOMAIN backend.ours : i # id => backend'.ours[i] = backend.ours[i]
        /\ known => backend'.ours[id].n = backend.ours[id].n
    BY <1>a, <2>2, <2>3, SampledCredit
  <2>5. /\ backend'.playing = (mpd.state = "play")
        /\ known /\ mpd.state = "play" =>
              /\ backend'.ours[id].seen = mpd.at
              /\ backend'.ours[id].heard
                    = backend.ours[id].heard + Ahead(backend.ours[id].seen, mpd.at)
        /\ known /\ mpd.state # "play" =>
              /\ backend'.ours[id].seen = backend.ours[id].seen
              /\ backend'.ours[id].heard = backend.ours[id].heard
    <3>1. PICK s : s = backend'
      OBVIOUS
    <3>2. s = Sampled(b, id, mpd.at) /\ OursTyped(b.ours)
      BY <1>a, <2>2, <2>3, <3>1
    <3>3. b.playing <=> mpd.state = "play"
      BY <2>3
    <3>4. /\ s.playing = b.playing
          /\ known /\ b.playing =>
                /\ s.ours[id].seen = mpd.at
                /\ s.ours[id].heard = backend.ours[id].heard + Ahead(backend.ours[id].seen, mpd.at)
          /\ known /\ ~b.playing =>
                s.ours[id].seen = backend.ours[id].seen /\ s.ours[id].heard = backend.ours[id].heard
      BY <2>3, <3>2, SampledHears
    <3>5. QED
      BY <2>3, <3>1, <3>3, <3>4
  <2>6. Overrun(backend', id) => known /\ mpd.state = "play" /\ id # None
    BY <1>a, <2>4, <2>5 DEF Overrun
  <2>7. /\ mpd'.linked = mpd.linked /\ Within(mpd.queue, mpd'.queue)
        /\ mpd' = mpd \/ (known /\ id # None /\ id \notin IdsIn(mpd'.queue) /\ mpd.state = "play")
    <3>1. CASE Overrun(backend', id)
      BY <1>a, <2>1, <2>2, <2>6, <3>1, ConsumedGoesOn, ConsumedAt, ConsumedLeaves DEF GoesOn
    <3>2. CASE ~Overrun(backend', id)
      BY <2>2, <3>2, WithinItself
    <3>3. QED
      BY <3>1, <3>2
  <2>8. /\ IdsIn(mpd'.queue) \subseteq IdsIn(mpd.queue)
        /\ \A k \in DOMAIN mpd'.queue : \E j \in DOMAIN mpd.queue : mpd'.queue[k] = mpd.queue[j]
    BY <2>7, WithinIds
  <2>9. /\ Numbered' /\ Upheavals' = Upheavals /\ Leeway' = Leeway
        /\ Leeway \in Nat /\ Upheavals \in Nat
    <3>1. PICK u : bounds' = [bounds EXCEPT !.unpolled = u]
      BY <1>1
    <3>2. SetAside' = SetAside
      BY <1>1, <2>2 DEF SetAside
    <3>3. QED
      BY <1>b, <2>2, <3>1, <3>2, NothingMore, LeewayIsNat
  <2>10. Calm
    BY <1>2, <2>4, <2>7, <2>8, <2>9 DEF Calm, SameSong
  <2>11. AskedPlays'
    BY <2>1, <2>2, <2>7 DEF AskedPlays
  <2>12. poll.step # "song"
    BY DEF PollStatus
  <2>13. AllEven'
    <3> SUFFICES ASSUME NEW jd, NEW n, NEW heard, NEW seen, Counted(jd, n, heard, seen)'
                 PROVE  Even(jd, n, heard, seen)'
      BY DEF AllEven
    <3>1. ASSUME Counted(jd, n, heard, seen), jd # id PROVE Even(jd, n, heard, seen)'
      <4>1. /\ n \in DOMAIN songs /\ songs[n].sounded \in Nat /\ heard \in Nat /\ seen \in Seens
            /\ Even(jd, n, heard, seen)
        BY <1>b, <1>4, <3>1, CountedTyped DEF AllEven
      <4>2. Untouched(n)
        BY <1>1 DEF Untouched
      <4>3. Steady(jd)
        BY <2>1, <2>8, <2>9, <3>1 DEF Steady
      <4>4. QED
        BY <1>a, <2>9, <4>1, <4>2, <4>3, StillEven
    <3>2. CASE jd # id
      <4>1. ~Asked(jd)'
        BY <2>2, <3>2 DEF Asked
      <4>2. Counted(jd, n, heard, seen)
        BY <2>4, <2>8, <2>12, <3>2, <4>1 DEF Counted, Asked
      <4>3. QED
        BY <3>1, <3>2, <4>2
    <3>3. CASE jd = id
      <4>1. SUFFICES ASSUME songs[n].through
                     PROVE  songs[n].sounded + Gap(id, seen)' <= heard + 3 + Leeway
        BY <1>1, <2>9, <3>3 DEF Even
      <4>2. CASE known
        <5>1. /\ n = backend.ours[id].n /\ heard = backend'.ours[id].heard
              /\ seen = backend'.ours[id].seen
          BY <2>2, <2>4, <3>3, <4>2 DEF Counted, Asked
        <5>2. PICK h, s : h = backend.ours[id].heard /\ s = backend.ours[id].seen
          OBVIOUS
        <5>3. Counted(id, n, h, s)
          BY <4>2, <5>1, <5>2 DEF Counted
        <5>4. /\ songs[n].sounded \in Nat /\ h \in Nat /\ s \in Seens
              /\ songs[n].sounded + Gap(id, s) <= h + 3 + Leeway
          BY <1>b, <1>4, <4>1, <5>3, CountedTyped DEF AllEven, Even
        <5>5. CASE mpd.state = "play"
          <6>1. PICK a \in 0..2 : a = Ahead(s, mpd.at)
            BY <1>a, <5>4, AheadBounds
          <6>2. heard = h + a /\ seen = mpd.at
            BY <2>5, <4>2, <5>1, <5>2, <5>5, <6>1
          <6>3. PICK g \in 0..2 : g = Gap(id, seen)'
            BY <1>1, <1>a, <2>1, <2>7, <5>5, <6>2, SeenNow
          <6>4. songs[n].sounded + 2 <= heard + 3 + Leeway
            <7>1. CASE id \in IdsIn(mpd.queue)
              <8>1. PICK v \in {0, 1} : v = Unseen(s)
                BY DEF Unseen
              <8>2. Gap(id, s) = 2 + v - a
                BY <2>1, <6>1, <7>1, <8>1 DEF Gap
              <8>3. QED
                BY <2>9, <5>4, <6>2, <8>2
            <7>2. CASE id \notin IdsIn(mpd.queue)
              BY <1>a, <2>1, <4>2, <7>2 DEF Queued
            <7>3. QED
              BY <7>1, <7>2
          <6>5. QED
            BY <2>9, <5>4, <6>2, <6>3, <6>4
        <5>6. CASE mpd.state # "play"
          <6>1. heard = h /\ seen = s /\ mpd' = mpd
            BY <2>5, <2>7, <4>2, <5>1, <5>2, <5>6
          <6>2. Gap(id, seen)' = Gap(id, s)
            BY <2>7, <5>6, <6>1 DEF Gap, Unseen
          <6>3. QED
            BY <5>4, <6>1, <6>2
        <5>7. QED
          BY <5>5, <5>6
      <4>3. CASE ~known
        <5>1. CASE id = None
          <6>1. poll'.step # "song" /\ \A i \in DOMAIN mpd'.queue : mpd'.queue[i].id # id
            BY <1>a, <2>2, <2>8, <5>1 DEF IdsIn
          <6>2. QED
            BY <2>4, <3>3, <4>3, <6>1 DEF Counted, Asked
        <5>2. CASE id # None
          <6>1. Asked(id)' /\ poll'.n = SongOf(id) /\ poll'.at = mpd.at /\ mpd' = mpd
            BY <2>2, <2>7, <4>3, <5>2 DEF Asked
          <6>2. n = SongOf(id) /\ heard = 0 /\ seen = IF mpd.state = "play" THEN mpd.at ELSE NotSeen
            BY <2>4, <2>5, <3>3, <4>3, <6>1 DEF Counted
          <6>3. id \in IdsIn(mpd.queue)
            BY <1>a, <2>1, <5>2 DEF Queued
          <6>4. Counted(id, n, 0, NotSeen)
            BY <2>12, <4>3, <6>2, <6>3, Indexed DEF Counted, Asked, SongOf
          <6>5. /\ songs[n].sounded \in Nat
                /\ songs[n].sounded + Gap(id, NotSeen) <= 0 + 3 + Leeway
            BY <1>b, <1>4, <4>1, <6>4, CountedTyped DEF AllEven, Even
          <6>6. PICK v \in {0, 1} : v = Unseen(NotSeen)
            BY DEF Unseen
          <6>7. Gap(id, NotSeen) = 2 + v
            <7>1. Ahead(NotSeen, mpd.at) = 0
              BY DEF Ahead
            <7>2. QED
              BY <2>1, <6>3, <6>6, <7>1 DEF Gap
          <6>8. CASE mpd.state = "play"
            <7>1. seen = mpd.at
              BY <6>2, <6>8
            <7>2. PICK g \in 0..2 : g = Gap(id, seen)'
              BY <1>1, <1>a, <2>1, <2>7, <6>8, <7>1, SeenNow
            <7>3. QED
              BY <2>9, <6>2, <6>5, <6>6, <6>7, <7>2
          <6>9. CASE mpd.state # "play"
            <7>1. seen = NotSeen
              BY <6>2, <6>9
            <7>2. Gap(id, seen)' = Gap(id, NotSeen)
              BY <6>1, <6>9, <7>1 DEF Gap, Unseen
            <7>3. QED
              BY <6>2, <6>5, <7>2
          <6>10. QED
            BY <6>8, <6>9
        <5>3. QED
          BY <5>1, <5>2
      <4>4. QED
        BY <4>2, <4>3
    <3>4. QED
      BY <3>2, <3>3
  <2>14. QED
    BY <2>9, <2>10, <2>11, <2>13, CalmReckons
<1>5. QED
  BY <1>3, <1>4

LEMMA SongReckons ==
    ASSUME Grounded, mpd'.at \in Nat, Reckoned, PollSong
    PROVE  Reckoned'
<1>a. /\ Shaped /\ Queued /\ Holds /\ Polling /\ SongsTyped(songs) /\ OursTyped(backend.ours)
      /\ DOMAIN mpd = MpdFields /\ DOMAIN backend = BackendFields
      /\ DOMAIN poll = PollFields
      /\ mpd.at \in Nat /\ poll.at \in Seens /\ NotSeen \in Seens
  BY Grounds DEF Seens
<1>b. Numbered /\ AllEven /\ Unheld /\ AskedPlays /\ Unlinked /\ Judged
  BY DEF Reckoned
<1> DEFINE adopts == mpd.linked /\ mpd.cur # None /\ songs[SongOf(mpd.cur)].p \in Whole
           again == songs[poll.n].answer # "none"
           n == IF again THEN Len(songs) + 1 ELSE poll.n
           o == Offered(n, songs[SongOf(mpd.cur)].p, TRUE, TRUE, TRUE)
           ours == [id \in DOMAIN backend.ours \cup {poll.id} |->
                       IF id = poll.id THEN o ELSE backend.ours[id]]
<1>1. /\ poll.step = "song" /\ poll' = [poll EXCEPT !.step = "list"]
      /\ ~adopts => UNCHANGED <<mpd, backend, songs>>
      /\ adopts =>
            /\ backend' = Sampled([backend EXCEPT !.ours = ours], poll.id, poll.at)
            /\ songs' = IF again THEN Append(songs, [songs[poll.n] EXCEPT !.answer = "none"])
                        ELSE songs
            /\ mpd' = [mpd EXCEPT !.queue = [i \in DOMAIN @ |->
                          IF @[i].id = poll.id THEN [@[i] EXCEPT !.n = n] ELSE @[i]]]
      /\ UNCHANGED <<local, active, hand, bounds>>
  BY DEF PollSong
<1>2. poll'.step = "list"
  BY <1>1, <1>a DEF PollFields
<1>3. /\ Numbered' /\ Upheavals' = Upheavals /\ Leeway' = Leeway
      /\ Leeway \in Nat /\ Upheavals \in Nat
  <2>1. SetAside' = SetAside
    BY <1>1 DEF SetAside
  <2>2. QED
    BY <1>1, <1>b, <2>1, NothingMore, LeewayIsNat
<1>4. AskedPlays'
  BY <1>2, NotAsked
<1>5. CASE ~adopts
  <2>1. UNCHANGED <<mpd, backend, songs>>
    BY <1>1, <1>5
  <2>2. Calm
    BY <1>3, <2>1, NoHand DEF Calm, SameSong
  <2>3. ASSUME mpd.linked PROVE AllEven'
    <3> SUFFICES ASSUME NEW id, NEW m, NEW heard, NEW seen, Counted(id, m, heard, seen)'
                 PROVE  Even(id, m, heard, seen)'
      BY DEF AllEven
    <3>1. ~Asked(id)'
      BY <1>2 DEF Asked
    <3>2. ASSUME Counted(id, m, heard, seen) PROVE Even(id, m, heard, seen)'
      <4>1. Even(id, m, heard, seen)
        BY <1>b, <2>3, <3>2 DEF AllEven
      <4>2. QED
        BY <1>1, <1>3, <2>1, <4>1 DEF Even, Gap, Unseen
    <3>3. CASE ~Asked(id)
      BY <2>1, <3>1, <3>2, <3>3 DEF Counted
    <3>4. CASE id \in DOMAIN backend.ours
      BY <2>1, <3>1, <3>2, <3>4 DEF Counted
    <3>5. CASE Asked(id) /\ id \notin DOMAIN backend.ours
      <4>1. PICK i \in DOMAIN mpd.queue : mpd.queue[i].id = id /\ mpd.queue[i].n = m
        BY <2>1, <3>1, <3>5 DEF Counted
      <4>2. mpd.cur = id /\ id \in IdsIn(mpd.queue)
        BY <1>1, <1>b, <2>3, <3>5, <4>1 DEF AskedPlays, Asked, IdsIn
      <4>3. mpd.cur # None
        BY <4>2, Grounds
      <4>4. SongOf(mpd.cur) = m
        <5>1. PICK j \in DOMAIN mpd.queue : j = IndexOf(mpd.queue, id) /\ mpd.queue[j].id = id
          BY <4>2, Indexed
        <5>2. i = j
          BY <1>a, <4>1, <5>1 DEF Queued
        <5>3. QED
          BY <4>1, <4>2, <5>1, <5>2 DEF SongOf
      <4>5. songs[m].p \notin Whole
        BY <1>5, <2>3, <4>3, <4>4
      <4>6. ~songs[m].through
        BY <1>b, <2>3, <3>5, <4>1, <4>5 DEF Unheld, Adoptable
      <4>7. QED
        BY <2>1, <4>6 DEF Even
    <3>6. QED
      BY <3>3, <3>4, <3>5
  <2>4. AllEven'
    BY <2>1, <2>3 DEF AllEven
  <2>5. QED
    BY <1>3, <1>4, <2>2, <2>4, CalmReckons
<1>6. CASE adopts
  <2>1. mpd.linked /\ poll.id \notin DOMAIN backend.ours /\ poll.n \in DOMAIN songs
    BY <1>1, <1>6, <1>a DEF Polling
  <2>2. PICK S : songs \in Seq(S)
    BY <1>a DEF Shaped
  <2>3. Len(songs) \in Nat /\ DOMAIN songs = 1 .. Len(songs)
    BY <2>2, LenProperties
  <2>4. /\ DOMAIN songs \subseteq DOMAIN songs' /\ \A m \in DOMAIN songs : songs'[m] = songs[m]
        /\ \A m \in DOMAIN songs' : m \in DOMAIN songs \/ m = n
        /\ songs'[n].answer = "none" /\ songs'[n].sounded = songs[poll.n].sounded
        /\ songs'[n].through => songs[poll.n].through
    <3>1. CASE ~again
      BY <1>1, <1>6, <3>1
    <3>2. CASE again
      <4> DEFINE song == [songs[poll.n] EXCEPT !.answer = "none"]
      <4>1. DOMAIN songs[poll.n] = SongFields
        BY <1>a, <2>1 DEF SongsTyped
      <4>2. song.sounded = songs[poll.n].sounded /\ song.through = songs[poll.n].through
            /\ song.answer = "none"
        BY <4>1 DEF SongFields
      <4>3. songs' = Append(songs, song) /\ n = Len(songs) + 1
        BY <1>1, <1>6, <3>2
      <4> HIDE DEF song, n
      <4>4. songs \in Seq(S \cup {song})
        BY <2>2, SeqMonotonic
      <4>5. /\ songs' \in Seq(S \cup {song}) /\ Len(songs') = Len(songs) + 1
            /\ \A m \in 1 .. Len(songs) : songs'[m] = songs[m]
            /\ songs'[Len(songs) + 1] = song
        BY <4>3, <4>4, AppendProperties
      <4>6. DOMAIN songs' = 1 .. Len(songs) + 1
        BY <4>5, LenProperties
      <4>7. \A m \in DOMAIN songs' : m \in DOMAIN songs \/ m = Len(songs) + 1
        BY <2>3, <4>6
      <4>8. DOMAIN songs \subseteq DOMAIN songs' /\ \A m \in DOMAIN songs : songs'[m] = songs[m]
        BY <2>3, <4>5, <4>6
      <4>9. QED
        BY <4>2, <4>3, <4>5, <4>7, <4>8
    <3>3. QED
      BY <3>1, <3>2
  <2>5. DOMAIN o = OfferedFields /\ o.n = n /\ o.heard = 0 /\ o.seen = NotSeen
    BY DEF Offered, OfferedFields
  <2>6. /\ DOMAIN ours = DOMAIN backend.ours \cup {poll.id} /\ ours[poll.id] = o
        /\ \A id \in DOMAIN backend.ours : ours[id] = backend.ours[id]
    BY <2>1
  <2> DEFINE b == [backend EXCEPT !.ours = ours]
             q == mpd.queue
             r == [i \in DOMAIN q |-> IF q[i].id = poll.id THEN [q[i] EXCEPT !.n = n] ELSE q[i]]
  <2>7. /\ DOMAIN b = BackendFields /\ b.ours = ours /\ b.playing = backend.playing
        /\ backend' = Sampled(b, poll.id, poll.at)
    BY <1>1, <1>6, <1>a DEF BackendFields
  <2>8. /\ mpd'.queue = r /\ mpd'.cur = mpd.cur /\ mpd'.at = mpd.at /\ mpd'.linked
        /\ mpd'.state = mpd.state
    BY <1>1, <1>6, <1>a, <2>1 DEF MpdFields
  <2>9. /\ DOMAIN r = DOMAIN q
        /\ \A i \in DOMAIN q : r[i].id = q[i].id
                               /\ r[i].n = IF q[i].id = poll.id THEN n ELSE q[i].n
    <3>1. q \in Seq(Entries)
      BY <1>a DEF Shaped
    <3>2. \A i \in DOMAIN q : q[i] \in Entries
      BY <3>1, LenProperties, ElementOfSeq
    <3>3. QED
      BY <3>2 DEF Entries
  <2> HIDE DEF b, o, n, ours, q, r
  <2>10. OursTyped(ours)
    <3>1. o.heard \in Nat /\ o.seen \in Positions \cup {NotSeen}
      BY <2>5
    <3>2. QED
      BY <1>a, <2>5, <2>6, <3>1 DEF OursTyped
  <2>11. /\ DOMAIN backend'.ours = DOMAIN backend.ours \cup {poll.id}
         /\ \A id \in DOMAIN backend.ours : backend'.ours[id] = backend.ours[id]
         /\ backend'.ours[poll.id].n = n /\ backend'.ours[poll.id].heard = 0
         /\ backend'.ours[poll.id].seen = IF backend.playing THEN poll.at ELSE NotSeen
    <3>1. PICK s : s = backend'
      OBVIOUS
    <3>2. s = Sampled(b, poll.id, poll.at) /\ OursTyped(b.ours) /\ poll.id \in DOMAIN b.ours
      BY <2>6, <2>7, <2>10, <3>1
    <3>3. /\ DOMAIN s.ours = DOMAIN ours /\ s.ours[poll.id].n = n
          /\ \A id \in DOMAIN ours : id # poll.id => s.ours[id] = ours[id]
      <4>1. poll.at \in Nat
        BY Grounds, PositionsAreNat DEF Placed
      <4>2. QED
        BY <2>5, <2>6, <2>7, <3>2, <4>1, SampledCredit
    <3>4. Ahead(o.seen, poll.at) = 0
      BY <2>5 DEF Ahead
    <3>5. /\ b.playing => s.ours[poll.id].seen = poll.at /\ s.ours[poll.id].heard = 0 + 0
          /\ ~b.playing => s.ours[poll.id].seen = NotSeen /\ s.ours[poll.id].heard = 0
      BY <2>5, <2>6, <2>7, <3>2, <3>4, SampledHears
    <3>6. QED
      BY <2>1, <2>6, <2>7, <3>1, <3>3, <3>5
  <2>12. Numbered /\ IdsIn(mpd'.queue) = IdsIn(mpd.queue)
    BY <1>b, <2>8, <2>9 DEF IdsIn, q
  <2>13. AllEven'
    <3> SUFFICES ASSUME NEW id, NEW m, NEW heard, NEW seen, Counted(id, m, heard, seen)'
                 PROVE  Even(id, m, heard, seen)'
      BY DEF AllEven
    <3>1. ~Asked(id)'
      BY <1>2 DEF Asked
    <3>2. Gap(id, seen)' = Gap(id, seen)
      BY <1>1, <2>8, <2>12 DEF Gap, Unseen
    <3>3. CASE id = poll.id
      <4>1. m = n /\ heard = 0 /\ seen = IF backend.playing THEN poll.at ELSE NotSeen
        BY <2>11, <3>1, <3>3 DEF Counted
      <4>2. Counted(id, poll.n, 0, seen)
        BY <1>1, <3>3, <4>1 DEF Counted, Asked
      <4>3. Even(id, poll.n, 0, seen)
        BY <1>b, <2>1, <4>2 DEF AllEven
      <4>4. QED
        BY <1>3, <2>4, <3>2, <4>1, <4>3 DEF Even
    <3>4. CASE id # poll.id
      <4>1. Counted(id, m, heard, seen)
        <5>1. ~Asked(id)
          BY <3>4 DEF Asked
        <5>2. CASE id \in DOMAIN backend'.ours
          BY <2>11, <3>1, <3>4, <5>2 DEF Counted
        <5>3. CASE id \notin DOMAIN backend'.ours
          <6>1. PICK i \in DOMAIN r : r[i].id = id /\ r[i].n = m
            BY <2>8, <3>1, <5>3 DEF Counted
          <6>2. mpd.queue[i].id = id /\ mpd.queue[i].n = m /\ i \in DOMAIN mpd.queue
            BY <2>9, <3>4, <6>1 DEF q
          <6>3. QED
            BY <2>11, <3>1, <5>1, <5>3, <6>2 DEF Counted
        <5>4. QED
          BY <5>2, <5>3
      <4>2. Even(id, m, heard, seen) /\ m \in DOMAIN songs
        BY <1>b, <2>1, <4>1, CountedTyped DEF AllEven
      <4>3. QED
        BY <1>3, <2>4, <3>2, <4>2 DEF Even
    <3>5. QED
      BY <3>3, <3>4
  <2>14. Unheld'
    <3> SUFFICES ASSUME NEW i \in DOMAIN r, r[i].id \notin DOMAIN backend'.ours,
                        songs'[r[i].n].through
                 PROVE  songs'[r[i].n].p \in Whole /\ songs'[r[i].n].answer = "none"
      BY <2>8 DEF Unheld, Adoptable
    <3>1. /\ r[i].n = mpd.queue[i].n /\ mpd.queue[i].id \notin DOMAIN backend.ours
          /\ i \in DOMAIN mpd.queue
      BY <2>9, <2>11 DEF q
    <3>2. songs'[r[i].n] = songs[mpd.queue[i].n]
      BY <1>a, <2>4, <3>1 DEF Queued
    <3>3. QED
      BY <1>b, <2>1, <3>1, <3>2 DEF Unheld, Adoptable
  <2>15. Unlinked'
    BY <2>8 DEF Unlinked
  <2>16. Judged'
    <3>1. \A m \in DOMAIN songs' :
             \/ ~songs'[m].through \/ songs'[m].answer \in {"none", "played"}
             \/ m \in DOMAIN songs /\ Untouched(m) /\ songs'[m].answer = songs[m].answer
      BY <2>4 DEF Untouched
    <3>2. QED
      BY <1>3, <1>a, <1>b, <3>1, JudgedStays
  <2>17. QED
    BY <1>3, <1>4, <2>13, <2>14, <2>15, <2>16 DEF Reckoned
<1>7. QED
  BY <1>5, <1>6

\* What was given up short was, of what sounded, as much short.
LEMMA GoneIsShort ==
    ASSUME Grounded, Labelled, Numbered, AllEven, mpd.linked,
           NEW id \in DOMAIN backend.ours, id \notin IdsIn(mpd.queue),
           songs[backend.ours[id].n].through, Verdict(backend.ours[id]) # "played"
    PROVE  2 * songs[backend.ours[id].n].sounded < Span + 6 * (1 + Upheavals)
<1>1. PICK n, heard, seen : n = backend.ours[id].n /\ heard = backend.ours[id].heard
                            /\ seen = backend.ours[id].seen
  OBVIOUS
<1>2. Counted(id, n, heard, seen)
  BY <1>1 DEF Counted
<1>3. /\ songs[n].sounded \in Nat /\ heard \in Nat
      /\ songs[n].sounded + Gap(id, seen) <= heard + 3 + Leeway
  BY <1>1, <1>2, CountedTyped DEF AllEven, Even
<1>4. Gap(id, seen) = 0
  BY DEF Gap
<1>5. PICK l, u \in Nat : l = Leeway /\ u = Upheavals /\ l <= 3 * u
  BY LeewayIsNat
<1>6. 2 * heard < Span
  <2>1. CASE backend.ours[id].current
    <3>1. ~CountsAsPlay(heard)
      BY <1>1, <2>1 DEF Verdict
    <3>2. QED
      BY <1>3, <3>1, SpanAssumption DEF CountsAsPlay
  <2>2. CASE ~backend.ours[id].current
    <3>1. heard = 0
      BY <1>1, <1>3, <2>2 DEF Labelled, OursLabelled
    <3>2. QED
      BY <3>1, SpanAssumption
  <2>3. QED
    BY <2>1, <2>2
<1>7. QED
  BY <1>1, <1>3, <1>4, <1>5, <1>6, SpanAssumption

LEMMA ListReckons ==
    ASSUME Grounded, mpd'.at \in Nat, Reckoned, PollList
    PROVE  Reckoned'
<1>a. /\ Shaped /\ Queued /\ Holds /\ SongsTyped(songs) /\ OursTyped(backend.ours)
      /\ DOMAIN mpd = MpdFields /\ DOMAIN backend = BackendFields
      /\ DOMAIN poll = PollFields /\ DOMAIN hand = HandFields
  BY Grounds
<1>b. Numbered /\ AllEven /\ Unheld /\ AskedPlays /\ Unlinked /\ Judged
  BY DEF Reckoned
<1>1. poll.step = "list" /\ PollOver /\ UNCHANGED <<mpd, local, active, bounds>>
  BY DEF PollList
<1>2. /\ Numbered' /\ Upheavals' = Upheavals /\ Upheavals' >= Upheavals
      /\ Leeway' >= Leeway /\ poll'.step # "song"
  <2>1. PICK u : u = 0
    OBVIOUS
  <2>2. QED
    BY <1>1, <1>a, <1>b, PollOverCosts
<1>3. AskedPlays'
  BY <1>2, NotAsked
<1>4. CASE ~mpd.linked
  <2>1. backend'.ours = backend.ours /\ songs' = songs
    BY <1>4, <1>a DEF PollList, MarkLost, BackendFields
  <2>2. Calm
    BY <1>1, <1>2, <1>4, <2>1, NoHand DEF Calm, SameSong
  <2>3. QED
    BY <1>1, <1>2, <1>3, <1>4, <2>2, QuietReckons
<1>5. CASE mpd.linked
  <2> DEFINE gone == DOMAIN backend.ours \ IdsIn(mpd.queue)
             verdict == [id \in gone |-> Verdict(backend.ours[id])]
  <2>1. /\ songs' = Answered(verdict)
        /\ \E order, dropped :
              backend' = [backend EXCEPT !.order = order,
                              !.ours = [id \in DOMAIN @ \ gone |-> @[id]], !.dropped = dropped]
    BY <1>5 DEF PollList
  <2>2. /\ DOMAIN backend'.ours = DOMAIN backend.ours \ gone
        /\ \A id \in DOMAIN backend'.ours : backend'.ours[id] = backend.ours[id]
        /\ backend'.playing = backend.playing
    BY <2>1, <1>a DEF BackendFields
  <2> HIDE DEF verdict
  <2>3. DOMAIN songs' = DOMAIN songs
    BY <2>1 DEF Answered
  <2>4. ASSUME NEW n \in DOMAIN songs
        PROVE  /\ songs'[n].sounded = songs[n].sounded /\ songs'[n].through = songs[n].through
               /\ songs'[n].p = songs[n].p
               /\ \/ songs'[n].answer = songs[n].answer
                     /\ \A id \in gone : backend.ours[id].n # n
                  \/ \E id \in gone : /\ backend.ours[id].n = n
                                      /\ songs'[n].answer = Verdict(backend.ours[id])
    <3>1. DOMAIN songs[n] = SongFields
      BY <1>a DEF SongsTyped
    <3>2. DOMAIN verdict = gone
      BY DEF verdict
    <3>3. CASE \E id \in gone : backend.ours[id].n = n
      <4>1. PICK id : id = CHOOSE x \in gone : backend.ours[x].n = n
        OBVIOUS
      <4>2. id \in gone /\ backend.ours[id].n = n
        BY <3>3, <4>1
      <4>3. songs'[n] = [songs[n] EXCEPT !.answer = verdict[id]]
        BY <2>1, <3>2, <3>3, <4>1 DEF Answered
      <4>4. verdict[id] = Verdict(backend.ours[id])
        BY <4>2 DEF verdict
      <4>5. QED
        BY <3>1, <4>2, <4>3, <4>4 DEF SongFields
    <3>4. CASE ~\E id \in gone : backend.ours[id].n = n
      <4>1. songs'[n] = songs[n]
        BY <2>1, <3>2, <3>4 DEF Answered
      <4>2. QED
        BY <3>4, <4>1
    <3>5. QED
      BY <3>3, <3>4
  <2>5. \A n \in DOMAIN songs : Untouched(n)
    BY <2>4 DEF Untouched
  <2>6. AllEven'
    <3>1. bounds'.unpolled = bounds.unpolled
      BY <1>1
    <3>2. \A id, n, heard, seen : Counted(id, n, heard, seen) => Untouched(n) /\ Steady(id)
      BY <1>1, <1>2, <1>5, <2>5, <3>1, CountedTyped, SameIsSteady
    <3>3. SameCount
      <4>1. poll.step # "song"
        BY <1>1
      <4>2. \A i \in DOMAIN mpd.queue : mpd.queue[i].id \in IdsIn(mpd.queue)
        BY DEF IdsIn
      <4>3. QED
        BY <1>1, <1>2, <2>2, <4>1, <4>2 DEF SameCount
    <3>4. Recounted
      BY <3>2, <3>3, Recounts
    <3>5. QED
      BY <1>2, <1>5, <1>b, <3>4, EvenStays
  <2>7. Unheld'
    <3> SUFFICES ASSUME NEW i \in DOMAIN mpd.queue,
                        mpd.queue[i].id \notin DOMAIN backend'.ours,
                        songs'[mpd.queue[i].n].through
                 PROVE  /\ songs'[mpd.queue[i].n].p \in Whole
                        /\ songs'[mpd.queue[i].n].answer = "none"
      BY <1>1 DEF Unheld, Adoptable
    <3>1. PICK n \in DOMAIN songs : n = mpd.queue[i].n
      BY <1>a DEF Queued
    <3>2. mpd.queue[i].id \in IdsIn(mpd.queue)
      BY DEF IdsIn
    <3>3. mpd.queue[i].id \notin DOMAIN backend.ours
      BY <2>2, <3>2
    <3>4. \A id \in gone : backend.ours[id].n # n
      <4>1. \A id \in DOMAIN backend.ours : backend.ours[id].n = n => mpd.queue[i].id = id
        BY <1>5, <1>a, <3>1 DEF Holds
      <4>2. QED
        BY <3>3, <4>1
    <3>5. songs[n].through /\ songs'[n].p = songs[n].p /\ songs'[n].answer = songs[n].answer
      BY <2>4, <3>1, <3>4
    <3>6. QED
      BY <1>5, <1>b, <3>1, <3>3, <3>5 DEF Unheld, Adoptable
  <2>8. Unlinked'
    BY <1>1, <1>5 DEF Unlinked
  <2>9. Judged'
    <3> SUFFICES ASSUME NEW n \in DOMAIN songs, songs'[n].through,
                        songs'[n].answer \notin {"none", "played"}
                 PROVE  2 * songs'[n].sounded < Span + 6 * (1 + Upheavals)
      BY <1>2, <2>3 DEF Judged
    <3>1. songs'[n].sounded = songs[n].sounded /\ songs[n].through
      BY <2>4
    <3>2. CASE songs'[n].answer = songs[n].answer
      BY <1>b, <3>1, <3>2 DEF Judged
    <3>3. CASE \E id \in gone : /\ backend.ours[id].n = n
                                /\ songs'[n].answer = Verdict(backend.ours[id])
      <4>1. PICK id \in gone : /\ backend.ours[id].n = n
                               /\ songs'[n].answer = Verdict(backend.ours[id])
        BY <3>3
      <4>2. QED
        BY <1>5, <1>b, <3>1, <4>1, GoneIsShort DEF Grounded
    <3>4. QED
      BY <2>4, <3>2, <3>3
  <2>10. QED
    BY <1>2, <1>3, <2>6, <2>7, <2>8, <2>9 DEF Reckoned
<1>6. QED
  BY <1>4, <1>5

-----------------------------------------------------------------------------
(* Everything else.                                                         *)

\* Nothing that is counted changes, nor MPD.
LEMMA AsItWas ==
    ASSUME Grounded, Reckoned, UNCHANGED <<mpd, songs>>, bounds'.unpolled = bounds.unpolled,
           Numbered', Upheavals' >= Upheavals, Leeway' >= Leeway,
           backend'.ours = backend.ours,
           \/ poll' = poll /\ backend'.playing = backend.playing
           \/ poll.step # "song" /\ poll'.step # "song"
    PROVE  Reckoned'
<1>1. Calm
  BY NoHand DEF Calm, SameSong
<1>2. SameCount
  BY DEF SameCount
<1>3. AskedPlays'
  BY DEF Reckoned, AskedPlays
<1>4. mpd'.at \in Nat
  BY Grounds
<1>5. QED
  BY <1>1, <1>2, <1>3, <1>4, SameIsSteady, QuietReckons

LEMMA NothingHappens ==
    ASSUME Numbered, UNCHANGED bounds, hand'.stage = hand.stage, active' = active
    PROVE  /\ Numbered' /\ Upheavals' >= Upheavals /\ Leeway' >= Leeway
           /\ bounds'.unpolled = bounds.unpolled
<1>1. SetAside' = SetAside
  BY DEF SetAside
<1>2. Numbered' /\ Upheavals' = Upheavals /\ Leeway' = Leeway
  BY <1>1, NothingMore
<1>3. QED
  BY <1>2, LeewayIsNat

LEMMA SeekReckons ==
    ASSUME Grounded, mpd'.at \in Nat, Reckoned, NEW at, SeekTo(at)
    PROVE  Reckoned'
<1>a. /\ SongsTyped(songs) /\ OursTyped(backend.ours) /\ DOMAIN mpd = MpdFields
      /\ DOMAIN backend = BackendFields /\ Holds
  BY Grounds
<1>1. /\ poll.step = "idle" /\ mpd.linked /\ UNCHANGED <<poll, active, hand>>
      /\ bounds' = [bounds EXCEPT !.clients = @ + 1]
  BY DEF SeekTo, Between
<1>2. PICK id \in DOMAIN backend.ours :
         /\ id \in IdsIn(mpd.queue) /\ mpd' = Sought(mpd, id, at)
         /\ backend' = [backend EXCEPT !.ours[id].seen = NotSeen, !.head.at = at]
         /\ songs' = [songs EXCEPT ![SongOf(id)].through = FALSE]
  BY DEF SeekTo
<1>3. SongOf(id) \in DOMAIN songs /\ SongOf(id) = backend.ours[id].n
  BY <1>1, <1>2, Knows DEF Grounded
<1>4. SameSong /\ ~songs'[SongOf(id)].through
  BY <1>2, <1>3, <1>a, HandOnOne
<1>5. /\ Numbered' /\ Upheavals' >= Upheavals /\ \A jd : Steady(jd)
  BY <1>1, OneMore, RoomIsSteady DEF Reckoned
<1>6. mpd'.linked = mpd.linked /\ mpd'.queue = mpd.queue
  BY <1>2, <1>a DEF Sought, MpdFields
<1>7. /\ DOMAIN backend'.ours = DOMAIN backend.ours
      /\ \A jd \in DOMAIN backend.ours : jd # id => backend'.ours[jd] = backend.ours[jd]
      /\ backend'.ours[id].n = backend.ours[id].n
  BY <1>2, <1>a DEF BackendFields, OursTyped, OfferedFields
<1>8. Calm
  BY <1>4, <1>5, <1>6, <1>7 DEF Calm, SameSong
<1>9. SameCount
  <2>1. \A jd \in DOMAIN backend'.ours :
          LET o == backend'.ours[jd] IN
          \/ ~songs'[o.n].through
          \/ /\ jd \in DOMAIN backend.ours /\ o.n = backend.ours[jd].n
             /\ o.heard = backend.ours[jd].heard /\ o.seen = backend.ours[jd].seen
    BY <1>3, <1>4, <1>7
  <2>2. QED
    BY <1>1, <1>6, <1>7, <2>1 DEF SameCount
<1>10. AskedPlays'
  BY <1>1, NotAsked
<1>11. QED
  BY <1>5, <1>8, <1>9, <1>10, QuietReckons

LEMMA GuestedReckons ==
    ASSUME Grounded, mpd'.at \in Nat, Reckoned, Guested
    PROVE  Reckoned'
<1>1. CASE Reconnect
  BY <1>1, ReconnectReckons
<1>2. CASE PollStatus
  BY <1>2, StatusReckons
<1>3. CASE PollSong
  BY <1>3, SongReckons
<1>4. CASE PollList
  BY <1>4, ListReckons
<1>5. CASE SessionTakes
  <2>1. backend'.ours = backend.ours /\ backend'.playing = backend.playing
        /\ UNCHANGED <<mpd, poll, active, hand, songs, bounds>>
    BY <1>5, Grounds DEF SessionTakes, BackendFields
  <2>2. QED
    BY <2>1, NothingHappens, AsItWas DEF Reckoned
<1>6. ASSUME NEW p \in Passages, Refill(p) PROVE Reckoned'
  <2>1. Enqueued(p) /\ UNCHANGED <<poll, active, hand, bounds>>
    BY <1>6 DEF Refill
  <2>2. /\ Numbered' /\ Upheavals' >= Upheavals /\ Leeway' >= Leeway
        /\ bounds'.unpolled = bounds.unpolled
    BY <2>1, NothingHappens DEF Reckoned
  <2>3. QED
    BY <2>1, <2>2, EnqueuedReckons
<1>7. ASSUME NEW at \in {0, Span - 1}, SeekTo(at) PROVE Reckoned'
  BY <1>7, SeekReckons
<1>8. QED
  BY <1>1, <1>2, <1>3, <1>4, <1>5, <1>6, <1>7 DEF Guested

\* A handover that goes on, and has not yet told the guest anything.
LEMMA HandGoesOn ==
    ASSUME Numbered, UNCHANGED bounds, active' = active, hand.stage # "none",
           SetAside = 3
    PROVE  /\ Numbered' /\ Upheavals' >= Upheavals /\ Leeway' >= Leeway
           /\ bounds'.unpolled = bounds.unpolled
           /\ SetAside' = 0 => Leeway' >= Leeway + 3
<1>1. SetAside' = 3 \/ SetAside' = 0
  BY DEF SetAside
<1>2. Leeway \in Nat /\ Upheavals \in Nat
  BY LeewayIsNat
<1>3. /\ Numbered' /\ Upheavals' = Upheavals
      /\ Leeway' = Leeway \/ Leeway' = Leeway + 3
      /\ SetAside' = 0 => Leeway' = Leeway + 3
  BY <1>1, NothingMore
<1>4. QED
  BY <1>2, <1>3

LEMMA HandoverReckons ==
    ASSUME Grounded, mpd'.at \in Nat, Reckoned, HandsOver
    PROVE  Reckoned'
<1>a. /\ SongsTyped(songs) /\ OursTyped(backend.ours) /\ DOMAIN mpd = MpdFields
      /\ DOMAIN backend = BackendFields /\ DOMAIN hand = HandFields /\ DOMAIN poll = PollFields
      /\ Polling
  BY Grounds
<1>b. Numbered /\ AskedPlays
  BY DEF Reckoned
<1>1. CASE HandBegins
  <2>1. /\ hand.stage = "none" /\ poll.step = "idle"
        /\ UNCHANGED <<mpd, backend, active, songs>>
        /\ bounds' = [bounds EXCEPT !.handovers = @ + 1]
    BY <1>1 DEF HandBegins, Between
  <2>2. hand'.stage \in {"refresh", "read"} /\ poll'.step # "song"
    BY <1>1, <1>a, <2>1 DEF HandBegins, HandFields, PollFields
  <2>3. PICK c, f, h \in Nat : c = bounds.clients /\ f = bounds.faults /\ h = bounds.handovers
    BY <1>b DEF Numbered
  <2>4. /\ DOMAIN bounds' = BoundFields /\ bounds'.clients = c /\ bounds'.faults = f
        /\ bounds'.handovers = h + 1 /\ bounds'.unpolled = bounds.unpolled
    BY <1>b, <2>1, <2>3 DEF Numbered, BoundFields
  <2>5. Numbered'
    BY <2>3, <2>4 DEF Numbered
  <2>6. SetAside = 0 /\ SetAside' = 3
    BY <2>1, <2>2 DEF SetAside
  <2>7. Upheavals = c + f + h /\ Upheavals' = c + f + (h + 1)
    BY <2>3, <2>4 DEF Upheavals
  <2>8. Upheavals' >= Upheavals /\ Leeway' >= Leeway
    BY <2>6, <2>7 DEF Leeway
  <2>9. QED
    BY <2>1, <2>2, <2>4, <2>5, <2>8, AsItWas
<1>2. CASE HandReads
  <2>1. /\ hand.stage = "read" /\ hand'.stage = "carry"
        /\ UNCHANGED <<mpd, poll, active, songs, bounds>>
        /\ backend'.ours = backend.ours /\ backend'.playing = backend.playing
    BY <1>2, <1>a DEF HandReads, HandFields, BackendFields
  <2>2. SetAside = 3
    BY <2>1 DEF SetAside
  <2>3. QED
    BY <1>b, <2>1, <2>2, HandGoesOn, AsItWas
<1>3. CASE HandEnqueues
  <2>1. /\ hand.stage = "carry" /\ UNCHANGED <<poll, active, bounds>>
    BY <1>3 DEF HandEnqueues
  <2>2. SetAside = 3
    BY <2>1 DEF SetAside
  <2>3. /\ Numbered' /\ Upheavals' >= Upheavals /\ Leeway' >= Leeway
        /\ bounds'.unpolled = bounds.unpolled
    BY <1>b, <2>1, <2>2, HandGoesOn
  <2>4. CASE active = "local"
    <3>1. PICK p : Enqueued(p)
      BY <1>3, <2>4 DEF HandEnqueues
    <3>2. QED
      BY <2>1, <2>3, <3>1, EnqueuedReckons
  <2>5. CASE active # "local"
    <3>1. UNCHANGED <<mpd, backend, songs>>
      BY <1>3, <2>5 DEF HandEnqueues
    <3>2. QED
      BY <2>1, <2>3, <3>1, AsItWas
  <2>6. QED
    BY <2>4, <2>5
<1>4. CASE HandCarried
  <2>1. /\ hand.stage = "carry" /\ UNCHANGED <<mpd, poll, active, songs, bounds>>
        /\ backend'.ours = backend.ours /\ backend'.playing = backend.playing
    BY <1>4, <1>a DEF HandCarried, BackendFields
  <2>2. SetAside = 3
    BY <2>1 DEF SetAside
  <2>3. QED
    BY <1>b, <2>1, <2>2, HandGoesOn, AsItWas
<1>5. CASE HandResumesGuest
  <2>1. /\ active = "local" /\ hand.stage \in {"resume", "found"}
        /\ UNCHANGED <<backend, local, active, bounds>>
    BY <1>5 DEF HandResumesGuest
  <2>2. SetAside = 3 /\ poll.step # "song"
    BY <1>a, <2>1 DEF SetAside, Polling
  <2>3. /\ Numbered' /\ Upheavals' >= Upheavals /\ Leeway' >= Leeway
        /\ bounds'.unpolled = bounds.unpolled
        /\ SetAside' = 0 => Leeway' >= Leeway + 3
    BY <1>b, <2>1, <2>2, HandGoesOn
  <2>4. poll'.step # "song"
    BY <1>5, <1>a, <2>2 DEF HandResumesGuest, PollFields
  <2>5. CASE UNCHANGED <<mpd, songs>>
    BY <2>1, <2>2, <2>3, <2>4, <2>5, AsItWas
  <2>6. CASE ~UNCHANGED <<mpd, songs>>
    <3>1. PICK id : /\ hand' = [hand EXCEPT !.stage = "wait"]
                    /\ mpd.linked /\ id \in IdsIn(mpd.queue)
                    /\ mpd' = Sought(mpd, id, hand.resume.at)
                    /\ songs' = [songs EXCEPT ![SongOf(id)].seeks = @ + 1,
                                              ![SongOf(id)].through = FALSE]
                    /\ poll' = poll
      BY <1>5, <2>6 DEF HandResumesGuest
    <3>2. PICK n : n = SongOf(id)
      OBVIOUS
    <3>3. n \in DOMAIN songs
      BY <3>1, <3>2, SongThere DEF Grounded
    <3>4. PICK s : songs' = [songs EXCEPT ![n].seeks = s, ![n].through = FALSE]
      BY <3>1, <3>2
    <3>5. SameSong
      BY <1>a, <3>3, <3>4, HandOnOne
    <3>6. mpd'.linked = mpd.linked /\ mpd'.queue = mpd.queue
      BY <1>a, <3>1 DEF Sought, MpdFields
    <3>7. Calm /\ SameCount
      BY <2>1, <2>3, <3>1, <3>5, <3>6, OnlyMpd, WithinItself
    <3>8. SetAside' = 0
      <4>1. hand'.stage = "wait"
        BY <1>a, <3>1 DEF HandFields
      <4>2. QED
        BY <2>1, <4>1 DEF SetAside
    <3>9. \A jd : Steady(jd)
      BY <2>3, <3>8, RoomIsSteady
    <3>10. AskedPlays'
      BY <2>4, NotAsked
    <3>11. QED
      BY <2>3, <3>7, <3>9, <3>10, QuietReckons
  <2>7. QED
    BY <2>5, <2>6
<1>6. CASE HandResumesLocal
  <2>1. /\ hand.stage = "resume" /\ UNCHANGED <<mpd, backend, poll, active, songs, bounds>>
    BY <1>6 DEF HandResumesLocal
  <2>2. SetAside = 3
    BY <2>1 DEF SetAside
  <2>3. QED
    BY <1>b, <2>1, <2>2, HandGoesOn, AsItWas
<1>7. CASE HandFlips
  <2>1. /\ poll.step = "idle" /\ hand'.stage = "none" /\ UNCHANGED <<poll, songs, bounds>>
        /\ hand.stage # "none"
    BY <1>7, <1>a DEF HandFlips, HandFields
  <2>2. SetAside' = 0
    BY <2>1 DEF SetAside
  <2>3. Upheavals \in Nat /\ Leeway \in Nat
    BY <1>b, LeewayIsNat
  <2>4. Numbered' /\ Upheavals' = Upheavals
    BY <1>b, <2>1, NothingMore
  <2>5. Upheavals' >= Upheavals
    BY <2>3, <2>4
  <2>6. CASE active = "local"
    <3>1. UNCHANGED <<mpd, backend>> /\ SetAside = 0
      BY <1>7, <2>6 DEF HandFlips, SetAside
    <3>2. Leeway' = Leeway
      BY <1>b, <2>1, <2>2, <3>1, NothingMore
    <3>3. Leeway' >= Leeway
      BY <2>3, <3>2
    <3>4. QED
      BY <2>1, <2>4, <2>5, <3>1, <3>3, AsItWas
  <2>7. CASE active # "local"
    <3>1. /\ SetAside = 3 /\ backend'.ours = backend.ours
          /\ mpd' = mpd \/ mpd' = [mpd EXCEPT !.state = "stop", !.at = 0]
      BY <1>7, <1>a, <2>7 DEF HandFlips, SetAside, BackendFields
    <3>2. Leeway' = Leeway + 3
      BY <1>b, <2>1, <2>2, <3>1, NothingMore
    <3>3. Leeway' >= Leeway + 3
      BY <2>3, <3>2
    <3>4. mpd'.linked = mpd.linked /\ mpd'.queue = mpd.queue
      BY <1>a, <3>1 DEF MpdFields
    <3>5. Calm
      BY <2>1, <2>5, <3>1, <3>4, NoHand DEF Calm, SameSong
    <3>6. SameCount
      BY <2>1, <3>1, <3>4 DEF SameCount
    <3>7. \A jd : Steady(jd)
      BY <3>3, RoomIsSteady
    <3>8. AskedPlays'
      BY <2>1, NotAsked
    <3>9. QED
      BY <2>4, <3>5, <3>6, <3>7, <3>8, QuietReckons
  <2>8. QED
    BY <2>6, <2>7
<1>8. QED
  BY <1>1, <1>2, <1>3, <1>4, <1>5, <1>6, <1>7 DEF HandsOver

LEMMA StepReckons ==
    ASSUME Grounded, Grounded', Reckoned, [Next]_vars PROVE Reckoned'
<1>1. mpd'.at \in Nat
  BY PositionsAreNat DEF Grounded, Honest, Placed
<1>2. CASE UNCHANGED vars
  BY <1>2, NothingHappens, AsItWas DEF vars, Reckoned
<1>3. CASE LocalPlays \/ LocalAdmits
  <2>1. UNCHANGED <<mpd, backend, poll, active, hand, songs, bounds>>
    BY <1>3 DEF LocalPlays, LocalAdmits
  <2>2. QED
    BY <2>1, NothingHappens, AsItWas DEF Reckoned
<1>4. CASE World
  BY <1>1, <1>4, WorldReckons
<1>5. CASE Guested
  BY <1>1, <1>5, GuestedReckons
<1>6. CASE HandsOver
  BY <1>1, <1>6, HandoverReckons
<1>7. QED
  BY <1>2, <1>3, <1>4, <1>5, <1>6 DEF Next

LEMMA InitReckoned == Init => Reckoned
<1> SUFFICES ASSUME Init PROVE Reckoned
  OBVIOUS
<1>1. /\ mpd.linked = TRUE /\ mpd.queue = <<>> /\ DOMAIN backend.ours = {} /\ poll.step = "idle"
      /\ DOMAIN songs = {} /\ DOMAIN mpd.queue = {}
      /\ bounds = [unpolled |-> FALSE, clients |-> 0, faults |-> 0, handovers |-> 0]
      /\ hand.stage = "none"
  BY DEF Init
<1>2. Numbered
  BY <1>1 DEF Numbered, BoundFields
<1>3. AllEven
  BY <1>1 DEF AllEven, Counted, Asked
<1>4. QED
  BY <1>1, <1>2, <1>3 DEF Reckoned, Unheld, AskedPlays, Unlinked, Judged

\* What sounded from its start to its end, with nobody's hand on it, is recorded as
\* played, although only samples of it are seen and the last of it never. How long
\* a passage must be for that grows with what happened meanwhile: each thing a
\* client or the bar does, each death of MPD, each handover may cost it the three
\* units that went uncounted then, and the last sample as much once more. It holds
\* for every number of songs, of passages and of events, where they are no more
\* than that.
THEOREM PlayedOutCounts == Spec => [](6 * (1 + Upheavals) <= Span => PlayedOutIsAPlay)
<1>1. Init => Grounded /\ Reckoned
  BY InitConsistent, InitHonest, InitLabelled, InitReckoned DEF Grounded
<1>2. Grounded /\ Reckoned /\ [Next]_vars => Grounded' /\ Reckoned'
  <2> SUFFICES ASSUME Grounded, Reckoned, [Next]_vars PROVE Grounded' /\ Reckoned'
    OBVIOUS
  <2>1. Grounded'
    BY StepKeeps, StepHonest, StepLabelled DEF Grounded
  <2>2. QED
    BY <2>1, StepReckons
<1>3. Grounded /\ Reckoned => (6 * (1 + Upheavals) <= Span => PlayedOutIsAPlay)
  <2> SUFFICES ASSUME Grounded, Reckoned, 6 * (1 + Upheavals) <= Span,
                      NEW n \in DOMAIN songs, songs[n].through, songs[n].sounded >= Span,
                      songs[n].answer \notin {"none", "played"}
               PROVE  FALSE
    BY DEF PlayedOutIsAPlay
  <2>1. 2 * songs[n].sounded < Span + 6 * (1 + Upheavals)
    BY DEF Reckoned, Judged
  <2>2. PICK u, s \in Nat : u = Upheavals /\ s = songs[n].sounded
    BY LeewayIsNat, Grounds DEF Reckoned, SongsTyped
  <2>3. QED
    BY <2>1, <2>2, SpanAssumption
<1>4. QED
  BY <1>1, <1>2, <1>3, PTL DEF Spec
=============================================================================
