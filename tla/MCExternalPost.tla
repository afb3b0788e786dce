---------------------------- MODULE MCExternalPost ----------------------------
(* ExternalPost with a few posts to one endpoint. *)
EXTENDS ExternalPost

CONSTANTS p1, p2, p3, e

MCTo == [p \in Post |-> e]
=============================================================================
