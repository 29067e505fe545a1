---------------------------- MODULE MCCandidate -----------------------------
(* Small instances of Candidate for TLC. *)
EXTENDS Candidate
=============================================================================
