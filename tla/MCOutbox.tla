------------------------------ MODULE MCOutbox ------------------------------
(***************************************************************************)
(* Constants of the model-checking runs of Outbox and OutboxOverlap.       *)
(***************************************************************************)
EXTENDS OutboxOverlap

CONSTANTS e1, e2, p1, p2

TwoEvents     == {e1, e2}
OneEvent      == {e1}
TwoPublishers == {p1, p2}
=============================================================================
