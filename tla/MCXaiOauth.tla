----------------------------- MODULE MCXaiOauth -----------------------------
(* Instances of XaiOauth for TLC. *)
EXTENDS XaiOauth, TLC
=============================================================================
