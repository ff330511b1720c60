---------------------------- MODULE EventDelivery ----------------------------
(***************************************************************************)
(* What the transactional outbox promises to the rest of the program: an   *)
(* event whose business transaction committed is delivered at least once,  *)
(* and nothing is delivered that no transaction emitted.  Publishers,      *)
(* locks, retries and the database are not visible at this level.          *)
(***************************************************************************)
CONSTANTS
  Events,
  Deliverable   \* the events the broker does not refuse forever

VARIABLES
  emitted,    \* events whose business transaction committed
  delivered   \* events that reached their destination at least once

vars == <<emitted, delivered>>

Init == emitted = {} /\ delivered = {}

Emit(e) ==
  /\ e \notin emitted
  /\ emitted' = emitted \cup {e}
  /\ UNCHANGED delivered

Deliver(e) ==
  /\ e \in emitted \ delivered
  /\ delivered' = delivered \cup {e}
  /\ UNCHANGED emitted

Next == \E e \in Events : Emit(e) \/ Deliver(e)

SafeSpec == Init /\ [][Next]_vars

Spec == SafeSpec /\ \A e \in Deliverable : WF_vars(Deliver(e))
=============================================================================
