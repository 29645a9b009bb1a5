------------------------------ MODULE MCEngine ------------------------------
(* Small instances of the engine: the spans and leads the runs use.        *)
EXTENDS Engine, TLC

CONSTANTS Span, LeadUnits

AllSpan == [p \in Passages |-> Span]
AllLead == [p \in Passages |-> LeadUnits]

PassageSymmetry == Permutations(Passages)
=============================================================================
