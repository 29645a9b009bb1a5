------------------------------ MODULE MCFleet ------------------------------
(* The star sync with one appliance and one phone. *)
EXTENDS Fleet

=============================================================================
