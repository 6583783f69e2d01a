------------------------------ MODULE MCSteady ------------------------------
(* Steady with four entries, the second one a no-op. *)
EXTENDS Steady

MCNoop == {2}
=============================================================================
