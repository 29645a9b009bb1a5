------------------------------ MODULE MCMarks -------------------------------
(* A small library: two passages of one artist, who was heard long ago.    *)
EXTENDS Marks

CONSTANTS p1, p2

MCKeysOf == p1 :> {"p1", "artist"} @@ p2 :> {"p2", "artist"}
MCFirstPlayed == [k \in Keys |-> IF k = "artist" THEN LongAgo ELSE Never]
=============================================================================
