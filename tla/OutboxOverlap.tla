---------------------------- MODULE OutboxOverlap ----------------------------
(***************************************************************************)
(* Outbox with a history variable.  A claim locks its rows only until its  *)
(* transaction commits, so a second publisher may claim a row the first is *)
(* still sending; `shared` has the events this has happened to, until no   *)
(* publisher has a copy of them any more.  The properties say what every   *)
(* other event, and one whose overlapping copies are gone, can rely on.    *)
(***************************************************************************)
EXTENDS Outbox

VARIABLE shared

overlapVars == <<vars, shared>>

\* Two publishers have a copy, or had and one of them still has.
Track ==
  shared' = {e \in Events :
    \/ \E p, q \in Publishers : p # q /\ e \in ClaimedBy(p)' /\ e \in ClaimedBy(q)'
    \/ e \in shared /\ \E p \in Publishers : e \in ClaimedBy(p)'}

OverlapNext ==
  \/ \E e \in Events : Commit(e) /\ Track
  \/ \E e \in Events : Elapse(e) /\ Track
  \/ \E p \in Publishers : Local(p) /\ Track
  \/ \E p \in Publishers, e \in Events : Append1(p, e) /\ Track

OverlapInit == Init /\ shared = {}

OverlapSafeSpec == OverlapInit /\ [][OverlapNext]_overlapVars

OverlapSpec == OverlapSafeSpec /\ Fairness
-----------------------------------------------------------------------------
\* The lifecycle of a row ends at PUBLISHED: with any number of publishers it is
\* not reopened and its message not sent again, unless a second publisher
\* claimed the row while it was being sent and one of the two is not done.
PublishedIsFinal ==
  [][\A e \in Events \ shared : row[e].status = "PUBLISHED" =>
       row'[e].status = "PUBLISHED" /\ copies'[e] = copies[e]]_overlapVars

\* Every failed attempt counts, although markFailed() computes attemptCount from
\* a copy claimed earlier: each time a row is put off its count has grown by
\* one, and nothing else takes from it, so the backoff never shortens.  Only
\* rows with overlapping copies may lose attempts.
AttemptsNeverLost ==
  [][\A e \in Events \ shared :
       /\ row'[e].attempts >= row[e].attempts
       /\ e \in due \ due' =>
            row'[e].attempts = SaturatingSucc(row[e].attempts, MaxAttempts)]_overlapVars

\* Publishing comes to rest: from some time on the row of an event the broker
\* accepts stays PUBLISHED, however many events fail forever beside it, unless
\* publishers go on claiming its row while another is sending it.
EventuallySettled ==
  \A e \in Deliverable :
    <>[](e \notin shared) => (e \in Committed ~> [](row[e].status = "PUBLISHED"))
=============================================================================
