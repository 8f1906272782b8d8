------------------------------ MODULE MCApiKeys ------------------------------
(***************************************************************************)
(* One key whose limit is none, two or seven requests a minute; half       *)
(* seconds; pauses of 8.5 seconds, about the time one token takes at seven *)
(* a minute, and of 21.5: their sums fall on both sides of every whole     *)
(* token and of every whole second.                                        *)
(***************************************************************************)
EXTENDS ApiKeys

==============================================================================
