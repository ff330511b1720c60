----------------------- MODULE MCNotificationDelivery -----------------------
(***************************************************************************)
(* Constants of the model-checking runs of NotificationDelivery.           *)
(***************************************************************************)
EXTENDS NotificationDelivery, TLC

CONSTANTS e1, e2, c1, c2, w1, w2

TwoEvents    == {e1, e2}
TwoConsumers == {c1, c2}
TwoWorkers   == {w1, w2}

InstanceSymmetry == Permutations(Consumers) \cup Permutations(Workers)
                      \cup Permutations(Events)
=============================================================================
