---------------------------- MODULE MCTriageServer ----------------------------
(***************************************************************************)
(* Two workers and a batch of three dumps with one fingerprint: checks     *)
(* race on the same entry and one worker starts over while the other is    *)
(* still in its first job.  The clock passes two windows and a day.        *)
(***************************************************************************)
EXTENDS TriageServer, TLC

WorkersSymmetry == Permutations(Workers)
===============================================================================
