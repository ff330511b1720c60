--------------------------- MODULE MCEventPipeline ---------------------------
(***************************************************************************)
(* Constants of the model-checking runs of EventPipeline.                  *)
(***************************************************************************)
EXTENDS EventPipeline, TLC

CONSTANTS e1, p1, c1, c2, w1

OneEvent  == {e1}
Publisher1 == {p1}
Consumers2 == {c1, c2}
Worker1    == {w1}
=============================================================================
