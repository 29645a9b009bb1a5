------------------------------ MODULE Answers -------------------------------
(***************************************************************************)
(* What a backend promises of the passages it takes: each is held until it *)
(* is answered, is answered once, and none is lost sight of, whatever      *)
(* becomes of the player behind it.                                        *)
(***************************************************************************)
VARIABLES
    held,           \* offerings taken and not answered yet
    answered        \* offerings answered: heard, declined or given back

Apart(h, a) == h \cap a = {}

Init == held = {} /\ answered = {}

Step ==
    /\ answered \subseteq answered'
    /\ held \subseteq held' \cup answered'
    /\ Apart(held', answered')

Spec == Init /\ [][Step]_<<held, answered>>
=============================================================================
