----------------------------- MODULE MCProgress -----------------------------
(* Progress as it is, with its constants from the configuration. *)
EXTENDS Progress
=============================================================================
