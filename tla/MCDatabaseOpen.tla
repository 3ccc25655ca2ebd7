---------------------------- MODULE MCDatabaseOpen ----------------------------
(* Instances of DatabaseOpen for TLC; Nat is never enumerated. *)
EXTENDS DatabaseOpen
=============================================================================
