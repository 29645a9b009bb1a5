------------------------------- MODULE Fleet -------------------------------
(***************************************************************************)
(* The star sync: a hub, the appliances it reaches by signed request, and  *)
(* the phones that come to it.  A run takes a snapshot of every node, the  *)
(* hub merges them, and each node is handed a patch of what the merge      *)
(* decided (star_sync.py, star_merge.py, mesh.py); an appliance applies it *)
(* in star_node.rs and mesh_sync.rs, a phone when it next comes            *)
(* (MeshActivity.kt).  Everybody goes on editing meanwhile.                *)
(*                                                                         *)
(* Three rows stand for the databases: one preference, merged by the last  *)
(* write; one flag, merged by union and removed on evidence; one row of    *)
(* the catalogue, written at the hub and patched strictly.  A value is the *)
(* second it was written in, 0 the one everybody began with, and for the   *)
(* flag 0 is no row.                                                       *)
(***************************************************************************)
EXTENDS Integers, FiniteSets, FiniteSetsExt

CONSTANTS Hub, Appliances, Phones,
          NoOne,        \* whom the hub waits for when it waits for nobody
          AtOnce,       \* requests an appliance works on at one time
          MaxEdits, MaxRuns, MaxFaults

ASSUME FleetAssumption ==
    /\ Hub \notin Appliances \cup Phones /\ Appliances \cap Phones = {}
    /\ NoOne \notin {Hub} \cup Appliances \cup Phones
    /\ AtOnce \in Nat \ {0}
ASSUME BoundsAssumption == {MaxEdits, MaxRuns, MaxFaults} \subseteq Nat

VARIABLES
    clock,      \* the second of the last edit
    held,       \* every node's listener database: its preference and its flag
    cat,        \* the catalogue row of the hub and of every appliance
    star,       \* the run the hub is making
    sent,       \* state.json: when a node was last sent a copy, if that held the flag
    upload,     \* a phone's last upload, and when an earlier one last held the flag
    outbox,     \* the patch that waits for a phone
    phone,      \* where a phone is in its visit, and the run whose patch it applied
    work,       \* the commits an appliance is working on
    lastRun,    \* state.json of an appliance: the newest run committed there
    faults,
    history     \* what the properties remember

vars == <<clock, held, cat, star, sent, upload, outbox, phone, work, lastRun,
          faults, history>>

Nodes == {Hub} \cup Appliances \cup Phones
Stocked == {Hub} \cup Appliances        \* the nodes with a catalogue that is synced
Runs == 1 .. MaxRuns
Times == 0 .. MaxEdits
Rows == [pref : Times, flag : Times]
Blank == [pref |-> 0, flag |-> 0]
NoPatch == [run |-> 0, was |-> Blank, now |-> Blank]
Patches == [run : 0 .. MaxRuns, was : Rows, now : Rows]
Flagged(row) == row.flag # 0

-----------------------------------------------------------------------------
(* Rules *)

\* The same with the comparison left out.
MemberBlindly(cur, patch) == patch.now

\* Rule::Member: a row is written only where it still holds what was uploaded.
Member(cur, patch) ==
    [f \in DOMAIN cur |-> IF cur[f] = patch.was[f] THEN patch.now[f] ELSE cur[f]]

\* Rule::Strict: each row the patch names holds its old value or its new one.
Expected(cur, was, now) == was = now \/ cur \in {was, now}

\* When a node is last known to have held the flag, 0 for never: by the copy it
\* was last sent, or for a phone by its own earlier uploads.
LastSeen(n) == IF n \in Phones THEN star.seen[n] ELSE sent[n]
SeenAt(row) == IF Flagged(row) THEN clock ELSE 0

\* The same with no evidence looked for.
NeverRemoved(stamp) == FALSE

\* A node that held the flag once and does not now removed it after that, and
\* a flag no newer than the evidence goes.
Removed(stamp) ==
    \E n \in star.took : ~Flagged(star.taken[n]) /\ stamp <= LastSeen(n)

\* The union keeps the row of the holder that comes first by name, whichever
\* that is.
Unions == LET stamps == {star.taken[n].flag : n \in star.took} \ {0}
          IN  IF stamps = {} THEN {0} ELSE stamps

Merge(stamp) ==
    [pref |-> Max({star.taken[n].pref : n \in star.took}),
     flag |-> IF Removed(stamp) THEN 0 ELSE stamp]

-----------------------------------------------------------------------------
(* Edits: by a listener at any node, and of the catalogue *)

\* A node the merge took that its run has not reached again.
Unreached == star.took \ (star.landed \cup {Hub})

\* Every flag there is, at the nodes and in the phones' uploads.
Flags == {held[n].flag : n \in Nodes} \cup {upload[p].row.flag : p \in Phones}

\* When a node's own last copy, or last upload, held the flag.
Evidence(n) == IF n \in Phones THEN upload[n].at ELSE sent[n]

\* Nothing is under way, everybody has the flag or nobody, and the evidence of
\* everybody is as new as any: the next edit of it is the first word since.
Agreed ==
    /\ \/ Flags = {0}
       \/ 0 \notin Flags /\ \A n \in Nodes : \A stamp \in Flags : stamp <= Evidence(n)
    /\ \A p \in Phones : outbox[p] = NoPatch /\ phone[p].step = "away"
    /\ \A a \in Appliances : work[a] = {}
    /\ star.stage = "shared" => star.left = {} /\ Unreached = {}
    /\ star.stage \notin {"taking", "merged"}

Edit == /\ clock < MaxEdits
        /\ clock' = clock + 1
        /\ star' = [star EXCEPT !.quiet = FALSE]
        /\ UNCHANGED <<sent, upload, outbox, phone, work, lastRun, faults>>

SetPreference(n) ==
    /\ Edit
    /\ held' = [held EXCEPT ![n].pref = clock']
    /\ history' = [history EXCEPT !.newest = clock']
    /\ UNCHANGED cat

SetFlag(n, on) ==
    /\ Edit
    /\ on \/ Flagged(held[n])
    /\ held' = [held EXCEPT ![n].flag = IF on THEN clock' ELSE 0]
    /\ history' = [history EXCEPT !.actors = IF Agreed THEN {n} ELSE @ \cup {n},
                                  !.shared = IF Agreed THEN 0 ELSE @]
    /\ UNCHANGED cat

EditCatalogue(n) ==
    /\ Edit
    /\ cat' = [cat EXCEPT ![n] = clock']
    /\ UNCHANGED <<held, history>>

-----------------------------------------------------------------------------
(* The hub: a run, from its snapshots to what each node was sent *)

Resting == star.waiting = NoOne

\* star_sync snapshot: the hub's own databases first.  A run that was begun
\* before is let go of, whatever it has not sent.
BeginRun ==
    /\ Resting /\ star.run < MaxRuns
    /\ star' = [run |-> star.run + 1, stage |-> "taking", took |-> {Hub},
                taken |-> [n \in Nodes |-> held[Hub]],
                cats |-> [n \in Stocked |-> cat[Hub]], seen |-> [n \in Nodes |-> 0],
                merged |-> held[Hub], left |-> {}, landed |-> {}, waiting |-> NoOne,
                quiet |-> \A p \in Phones : phone[p].step = "away"]
    /\ UNCHANGED <<clock, held, cat, sent, upload, outbox, phone, work, lastRun,
                   faults, history>>

\* A node that does not answer is missing from the run and gets nothing of it.
TakeAppliance(a) ==
    /\ star.stage = "taking" /\ a \notin star.took
    /\ star' = [star EXCEPT !.took = @ \cup {a}, !.taken[a] = held[a], !.cats[a] = cat[a],
                            !.quiet = @ /\ work[a] = {}]
    /\ UNCHANGED <<clock, held, cat, sent, upload, outbox, phone, work, lastRun,
                   faults, history>>

\* A phone takes part by its last upload, however old, and its earlier ones.
TakePhone(p) ==
    /\ star.stage = "taking" /\ p \notin star.took
    /\ star' = [star EXCEPT !.took = @ \cup {p}, !.taken[p] = upload[p].row,
                            !.seen[p] = upload[p].seen,
                            !.quiet = @ /\ upload[p].row = held[p]]
    /\ UNCHANGED <<clock, held, cat, sent, upload, outbox, phone, work, lastRun,
                   faults, history>>

\* star_sync merge and patch: every conflict takes the default it is shown with.
MergeRun ==
    /\ star.stage = "taking" /\ star.took # {Hub}
    /\ \E stamp \in Unions :
         star' = [star EXCEPT !.stage = "merged", !.merged = Merge(stamp)]
    /\ UNCHANGED <<clock, held, cat, sent, upload, outbox, phone, work, lastRun,
                   faults, history>>

\* The hub's own half, strictly and before any node's: one row changed since
\* the snapshot that the patch would write, and nothing is written anywhere.
HubTakes ==
    /\ star.stage = "merged"
    /\ IF \A f \in {"pref", "flag"} :
            Expected(held[Hub][f], star.taken[Hub][f], star.merged[f])
       THEN /\ held' = [held EXCEPT ![Hub] =
                 Member(@, [was |-> star.taken[Hub], now |-> star.merged])]
            /\ sent' = [sent EXCEPT ![Hub] = SeenAt(star.merged)]
            /\ star' = [star EXCEPT !.stage = "shared", !.left = star.took \ {Hub}]
            /\ history' = [history EXCEPT !.shared = @ + 1]
       ELSE /\ star' = [star EXCEPT !.stage = "refused"]
            /\ UNCHANGED <<held, sent, history>>
    /\ UNCHANGED <<clock, cat, upload, outbox, phone, work, lastRun, faults>>

Landed(n) == /\ sent' = [sent EXCEPT ![n] = SeenAt(star.merged)]
             /\ star' = [star EXCEPT !.left = @ \ {n}, !.landed = @ \cup {n},
                                     !.waiting = NoOne]

\* The same, still waiting for the node.
StillWaiting(n) == /\ star' = [star EXCEPT !.left = @ \ {n}]
                   /\ UNCHANGED sent

NotLanded(n) == /\ star' = [star EXCEPT !.left = @ \ {n}, !.waiting = NoOne]
                /\ UNCHANGED sent

\* member_offer: the patch waits for the phone, over any that waited before.
Offer(p) ==
    /\ star.stage = "shared" /\ Resting /\ p \in star.left
    /\ outbox' = [outbox EXCEPT ![p] =
         [run |-> star.run, was |-> star.taken[p], now |-> star.merged]]
    /\ Landed(p)
    /\ UNCHANGED <<clock, held, cat, upload, phone, work, lastRun, faults, history>>

Untouched(run) == [run |-> run, catalogue |-> "untouched", listener |-> "untouched"]

\* The same with the catalogue forgotten.
NothingOfTheListener(a) == star.taken[a] = star.merged

NothingToSend(a) ==
    star.taken[a] = star.merged /\ star.cats[a] = star.cats[Hub]

\* player_step: one appliance at a time, and the next once it has answered.
Send(a) ==
    /\ star.stage = "shared" /\ Resting /\ a \in star.left
    /\ UNCHANGED <<clock, held, cat, upload, outbox, phone, lastRun, faults>>
    /\ \/ NothingToSend(a) /\ Landed(a) /\ UNCHANGED <<work, history>>
       \/ /\ ~NothingToSend(a) /\ star.run > lastRun[a]
          /\ Cardinality(work[a]) < AtOnce
          /\ star' = [star EXCEPT !.waiting = a]
          /\ \E id \in 1 .. AtOnce :
               /\ \A w \in work[a] : w.id # id
               /\ work' = [work EXCEPT ![a] = @ \cup
                    {[id |-> id, run |-> star.run, step |-> "catalogue", wrote |-> FALSE,
                      was |-> star.taken[a], now |-> star.merged,
                      catWas |-> star.cats[a], catNow |-> star.cats[Hub]]}]
          /\ history' = [history EXCEPT !.halves[a] =
               IF @.run = star.run THEN @ ELSE Untouched(star.run)]
          /\ UNCHANGED sent
       \/ /\ ~NothingToSend(a) /\ star.run <= lastRun[a]
          /\ NotLanded(a)
          /\ UNCHANGED <<work, history>>

\* Its player does not answer the members' query, or the request is lost.
Unreachable(a) ==
    /\ star.stage = "shared" /\ Resting /\ a \in star.left /\ faults < MaxFaults
    /\ faults' = faults + 1
    /\ NotLanded(a)
    /\ UNCHANGED <<clock, held, cat, upload, outbox, phone, work, lastRun, history>>

\* The person commits the run again for those it did not reach; a hub that had
\* rows of its own to write has its backup of them in the way.
CommitAgain ==
    /\ star.stage = "shared" /\ Resting /\ star.left = {} /\ Unreached # {}
    /\ star.merged = star.taken[Hub]
    /\ star' = [star EXCEPT !.left = star.took \ {Hub}]
    /\ sent' = [sent EXCEPT ![Hub] = SeenAt(star.merged)]
    /\ UNCHANGED <<clock, held, cat, upload, outbox, phone, work, lastRun, faults, history>>

-----------------------------------------------------------------------------
(* An appliance: star_node::commit *)

Heard(a, w) == star.waiting = a /\ star.run = w.run

\* What the hub makes of the end of a piece of work, if it still listens.
Answered(a, w, ok) ==
    IF ~Heard(a, w) THEN UNCHANGED <<star, sent>>
    ELSE IF ok THEN Landed(a) ELSE NotLanded(a)

Moves(a, w, step, wrote) ==
    work' = [work EXCEPT ![a] = (@ \ {w}) \cup {[w EXCEPT !.step = step, !.wrote = wrote]}]

\* The catalogue, in one transaction, under the strict rule.
WriteCatalogue(a, w) ==
    /\ w.step = "catalogue"
    /\ UNCHANGED <<clock, held, upload, outbox, phone, lastRun, faults>>
    /\ LET writes == w.catWas # w.catNow /\ cat[a] = w.catWas IN
       IF Expected(cat[a], w.catWas, w.catNow)
       THEN /\ cat' = [cat EXCEPT ![a] = IF writes THEN w.catNow ELSE @]
            /\ Moves(a, w, "listener", writes)
            /\ history' = [history EXCEPT !.halves[a].catalogue =
                 IF writes /\ w.run = history.halves[a].run THEN "in" ELSE @]
            /\ UNCHANGED <<star, sent>>
       ELSE /\ work' = [work EXCEPT ![a] = @ \ {w}]
            /\ Answered(a, w, FALSE)
            /\ UNCHANGED <<cat, history>>

\* The listener, in one transaction, under the member rule.
WriteListener(a, w) ==
    /\ w.step = "listener"
    /\ held' = [held EXCEPT ![a] = Member(@, w)]
    /\ Moves(a, w, "record", w.wrote)
    /\ history' = [history EXCEPT
         !.halves[a].listener = IF w.run = history.halves[a].run THEN "in" ELSE @]
    /\ UNCHANGED <<clock, cat, star, sent, upload, outbox, phone, lastRun, faults>>

\* The same with nothing put back.
LeftAsWritten(cur, w) == cur

\* undo_parts: the catalogue as it was, if the row is still as the patch wrote it.
Undone(cur, w) == IF w.wrote /\ cur = w.catNow THEN w.catWas ELSE cur

\* The one failure a rehearsal cannot foresee.
ListenerFails(a, w) ==
    /\ w.step = "listener" /\ w.was # w.now /\ faults < MaxFaults
    /\ faults' = faults + 1
    /\ work' = [work EXCEPT ![a] = @ \ {w}]
    /\ cat' = [cat EXCEPT ![a] = Undone(@, w)]
    /\ history' = [history EXCEPT
         !.halves[a].catalogue = IF w.wrote /\ cat'[a] = w.catWas THEN "out" ELSE @,
         !.torn = IF w.wrote /\ cat[a] # w.catNow THEN @ \cup {a} ELSE @]
    /\ Answered(a, w, FALSE)
    /\ UNCHANGED <<clock, held, upload, outbox, phone, lastRun>>

\* keep_inverse and set_last_run, and the answer.
Record(a, w) ==
    /\ w.step = "record"
    /\ lastRun' = [lastRun EXCEPT ![a] = w.run]
    /\ work' = [work EXCEPT ![a] = @ \ {w}]
    /\ Answered(a, w, TRUE)
    /\ UNCHANGED <<clock, held, cat, upload, outbox, phone, faults, history>>

\* The appliance loses its power: each database keeps what was committed to it.
PowerCut(a) ==
    /\ faults < MaxFaults /\ work[a] # {}
    /\ faults' = faults + 1
    /\ work' = [work EXCEPT ![a] = {}]
    /\ history' = [history EXCEPT !.torn = IF \E w \in work[a] : w.step = "listener"
                                           THEN @ \cup {a} ELSE @]
    /\ IF star.waiting = a THEN NotLanded(a) ELSE UNCHANGED <<star, sent>>
    /\ UNCHANGED <<clock, held, cat, upload, outbox, phone, lastRun>>

\* The hub hears no answer, and the appliance works on unheard.
NoAnswer(a) ==
    /\ star.waiting = a /\ faults < MaxFaults
    /\ faults' = faults + 1
    /\ NotLanded(a)
    /\ UNCHANGED <<clock, held, cat, upload, outbox, phone, work, lastRun, history>>

-----------------------------------------------------------------------------
(* A phone's visit: MeshActivity.syncEdits *)

Away == [step |-> "away", run |-> 0]

\* The household's edits down: what waits is fetched and applied.
Visit(p) ==
    /\ phone[p].step = "away"
    /\ IF outbox[p] = NoPatch
       THEN /\ phone' = [phone EXCEPT ![p].step = "upload"]
            /\ UNCHANGED <<held, star>>
       ELSE /\ phone' = [phone EXCEPT ![p] = [step |-> "tell", run |-> outbox[p].run]]
            /\ held' = [held EXCEPT ![p] = Member(@, outbox[p])]
            /\ star' = [star EXCEPT !.quiet = @ /\ outbox[p].run = star.run]
    /\ UNCHANGED <<clock, cat, sent, upload, outbox, work, lastRun, faults, history>>

\* The hub clears the patch it is told of, unless another waits by now.
Clear(p) == outbox' = [outbox EXCEPT ![p] =
                         IF @.run = phone[p].run THEN NoPatch ELSE @]

Tell(p) ==
    /\ phone[p].step = "tell"
    /\ Clear(p)
    /\ phone' = [phone EXCEPT ![p] = [step |-> "upload", run |-> 0]]
    /\ UNCHANGED <<clock, held, cat, star, sent, upload, work, lastRun, faults, history>>

Upload(p) ==
    /\ phone[p].step = "upload"
    /\ upload' = [upload EXCEPT ![p] =
         [row |-> held[p], at |-> SeenAt(held[p]),
          seen |-> IF Flagged(@.row) THEN @.at ELSE @.seen]]
    /\ phone' = [phone EXCEPT ![p] = Away]
    /\ UNCHANGED <<clock, held, cat, star, sent, outbox, work, lastRun, faults, history>>

\* The visit breaks off; what the phone was telling the hub may have arrived.
BreakOff(p) ==
    /\ phone[p].step # "away" /\ faults < MaxFaults
    /\ faults' = faults + 1
    /\ phone' = [phone EXCEPT ![p] = Away]
    /\ \/ UNCHANGED outbox
       \/ phone[p].step = "tell" /\ Clear(p)
    /\ UNCHANGED <<clock, held, cat, star, sent, upload, work, lastRun, history>>

-----------------------------------------------------------------------------
Init ==
    /\ clock = 0 /\ faults = 0
    /\ held = [n \in Nodes |-> Blank]
    /\ cat = [n \in Stocked |-> 0]
    /\ star = [run |-> 0, stage |-> "none", took |-> {}, taken |-> [n \in Nodes |-> Blank],
               cats |-> [n \in Stocked |-> 0], seen |-> [n \in Nodes |-> 0],
               merged |-> Blank, left |-> {}, landed |-> {}, waiting |-> NoOne,
               quiet |-> FALSE]
    /\ sent = [n \in Nodes |-> 0]
    /\ upload = [p \in Phones |-> [row |-> Blank, at |-> 0, seen |-> 0]]
    /\ outbox = [p \in Phones |-> NoPatch]
    /\ phone = [p \in Phones |-> Away]
    /\ work = [a \in Appliances |-> {}]
    /\ lastRun = [a \in Appliances |-> 0]
    /\ history = [newest |-> 0, actors |-> {}, shared |-> 0, torn |-> {},
                  halves |-> [a \in Appliances |-> Untouched(0)]]

Edits == \/ \E n \in Nodes : SetPreference(n) \/ \E on \in BOOLEAN : SetFlag(n, on)
         \/ \E n \in Stocked : EditCatalogue(n)

HubSteps == \/ BeginRun \/ MergeRun \/ HubTakes \/ CommitAgain
            \/ \E a \in Appliances : TakeAppliance(a) \/ Send(a) \/ Unreachable(a) \/ NoAnswer(a)
            \/ \E p \in Phones : TakePhone(p) \/ Offer(p)

ApplianceSteps ==
    \E a \in Appliances :
      \/ PowerCut(a)
      \/ \E w \in work[a] : \/ WriteCatalogue(a, w) \/ WriteListener(a, w)
                            \/ ListenerFails(a, w) \/ Record(a, w)

PhoneSteps == \E p \in Phones : Visit(p) \/ Tell(p) \/ Upload(p) \/ BreakOff(p)

Next == Edits \/ HubSteps \/ ApplianceSteps \/ PhoneSteps

Spec == Init /\ [][Next]_vars

-----------------------------------------------------------------------------
(* What must be true *)

TypeOK ==
    /\ clock \in Times /\ faults \in 0 .. MaxFaults
    /\ held \in [Nodes -> Rows] /\ cat \in [Stocked -> Times]
    /\ star.run \in 0 .. MaxRuns /\ star.took \subseteq Nodes
    /\ star.taken \in [Nodes -> Rows] /\ star.merged \in Rows
    /\ star.left \cup star.landed \subseteq star.took
    /\ star.waiting \in {NoOne} \cup (Appliances \cap star.left)
    /\ outbox \in [Phones -> Patches]
    /\ \A a \in Appliances : /\ lastRun[a] \in 0 .. star.run
                             /\ Cardinality(work[a]) <= AtOnce
                             /\ \A w \in work[a] : w.run \in 1 .. star.run

\* No run, however its patches cross the edits made meanwhile, takes the last
\* word on a preference from the household: somebody holds it.
NewestWordHeld == \E n \in Nodes : held[n].pref = history.newest

\* An appliance that works on nothing holds both halves of a run or neither,
\* but for a power cut between them and for a catalogue edited before it could
\* be put back (which the answer says).
NeverHalfASwitch ==
    \A a \in Appliances : work[a] = {} /\ a \notin history.torn =>
      LET h == history.halves[a] IN /\ h.catalogue = "in" => h.listener = "in"
                                    /\ h.catalogue = "out" => h.listener # "in"

\* A run that reached everybody while nobody edited anything, and for which nobody
\* was taken in the middle of an earlier one.
Complete ==
    /\ star.stage = "shared" /\ star.quiet
    /\ star.took = Nodes /\ star.landed = Nodes \ {Hub}
    /\ \A p \in Phones : outbox[p] = NoPatch /\ phone[p].step \in {"away", "upload"}

\* After such a run every node holds the same: the newest preference, one
\* catalogue, and a flag everywhere or nowhere.
InStepAfterARun ==
    Complete => /\ \A n \in Nodes : held[n].pref = history.newest
                /\ \A n, m \in Nodes : Flagged(held[n]) = Flagged(held[m])
                /\ \A a \in Appliances : cat[a] = cat[Hub]

\* A flag only one node has had a word on since everybody agreed is, after the
\* first run that was shared since, as that node has it, if the run reached
\* everybody: set there it is set everywhere, and taken away there it comes back
\* nowhere.
TheOnlyWordStands ==
    Complete /\ history.shared = 1 =>
      \A n \in Nodes : history.actors = {n} =>
        \A m \in Nodes : Flagged(held[m]) = Flagged(star.taken[n])

=============================================================================
