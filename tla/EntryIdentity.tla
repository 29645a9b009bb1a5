---------------------------- MODULE EntryIdentity ----------------------------
(***************************************************************************)
(* What the queue promises whoever holds an identifier of one of its       *)
(* entries (core/src/queue.rs, the comment of Queue::next_qid): it may be  *)
(* stale, naming an entry that has gone, and is never ambiguous.  Entries  *)
(* leave as they like; whoever arrives carries an identifier never seen    *)
(* before, and an entry that stays is the entry it was.                    *)
(***************************************************************************)
EXTENDS Integers

VARIABLES
    entries,        \* the entries waiting, as a set
    nextQid         \* no identifier from here on has been given out

Distinct(es) == \A a, b \in es : a.qid = b.qid => a = b

Init == entries = {} /\ nextQid \in Nat

Step ==
    /\ nextQid' \in Nat /\ nextQid' >= nextQid
    /\ \A e \in entries' :
          e \in entries \/ (nextQid <= e.qid /\ e.qid < nextQid')
    /\ Distinct(entries')

Spec == Init /\ [][Step]_<<entries, nextQid>>
=============================================================================
