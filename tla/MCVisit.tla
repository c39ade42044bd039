------------------------------- MODULE MCVisit -------------------------------
(* One tab of one browser: what it does in many is in VisitProofs. *)
EXTENDS Visit
=============================================================================
