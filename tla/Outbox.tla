------------------------------- MODULE Outbox -------------------------------
(***************************************************************************)
(* The transactional outbox and its polling publishers                     *)
(* (modules/outbox/services).  A business transaction writes an            *)
(* outbox_events row with its own rows; every publisher process polls the  *)
(* table: it claims a batch in a short SELECT ... FOR UPDATE SKIP LOCKED   *)
(* transaction that commits without changing the rows, then, outside any   *)
(* transaction, sends the claimed copies one after the other to Kafka and  *)
(* writes the outcome of each with an unconditional UPDATE.                *)
(*                                                                         *)
(* availableAt is abstracted to what the claim query makes of it: whether  *)
(* the row is due (availableAt <= now) and, among due rows, which became   *)
(* due first (ORDER BY availableAt).  Publisher clocks are taken to agree. *)
(***************************************************************************)
EXTENDS Naturals, Sequences, FiniteSets

CONSTANTS
  Events,       \* the events the business transactions may emit
  Publishers,   \* the processes that run OutboxPublisherService
  BatchSize,    \* OUTBOX_BATCH_SIZE, the LIMIT of the claim query
  MaxAttempts,  \* attemptCount saturates here: past it the delay is capped
  MaxCopies,    \* copies of one event are counted up to here
  MaxFaults,    \* crashes and failed UPDATEs in one behaviour
  Deliverable   \* events the broker does not refuse forever

ASSUME OutboxAssumption ==
  /\ BatchSize \in Nat \ {0}
  /\ MaxAttempts \in Nat
  /\ MaxCopies \in Nat \ {0}
  /\ MaxFaults \in Nat
  /\ Deliverable \subseteq Events

VARIABLES
  row,     \* outbox_events: status and attemptCount, "NONE" before the insert
  due,     \* rows with availableAt <= now
  older,   \* pairs of due rows, the one with the smaller availableAt first
  pc,      \* where each publisher is in tick()
  batch,   \* claimed copies it has not finished, oldest first
  copies,  \* copies of each event on the topic (saturating at MaxCopies)
  faults   \* crashes and failed UPDATEs so far

vars == <<row, due, older, pc, batch, copies, faults>>
-----------------------------------------------------------------------------
Status == {"NONE", "PENDING", "PUBLISHED", "FAILED"}
Row    == [status : Status, attempts : 0..MaxAttempts]
Claim  == [event : Events, attempts : 0..MaxAttempts]
PC     == {"idle", "claim", "send", "appended", "mark", "fail"}

Committed == {e \in Events : row[e].status # "NONE"}

\* The events publisher p holds a claimed copy of.
ClaimedBy(p) == {batch[p][i].event : i \in DOMAIN batch[p]}

\* Rows locked by the claim transactions that are still open.
Locked == UNION {ClaimedBy(p) : p \in {q \in Publishers : pc[q] = "claim"}}

\* Slip in the claim query: no retry of FAILED rows.
ClaimablePending == {e \in due : row[e].status = "PENDING"} \ Locked

\* WHERE status IN (PENDING, FAILED) AND availableAt <= now ... SKIP LOCKED
Claimable == {e \in due : row[e].status \in {"PENDING", "FAILED"}} \ Locked

\* ORDER BY availableAt LIMIT BatchSize over the claimable rows.
IsOldestFirst(b) ==
  /\ \A i, j \in DOMAIN b : i < j => <<b[i], b[j]>> \in older
  /\ \A e \in Claimable \ {b[i] : i \in DOMAIN b} :
       /\ Len(b) = BatchSize
       /\ \A i \in DOMAIN b : <<b[i], e>> \in older

Current(p) == Head(batch[p]).event

SaturatingSucc(n, cap) == IF n < cap THEN n + 1 ELSE cap

Fault == faults < MaxFaults /\ faults' = faults + 1
-----------------------------------------------------------------------------
Init ==
  /\ row    = [e \in Events |-> [status |-> "NONE", attempts |-> 0]]
  /\ due    = {}
  /\ older  = {}
  /\ pc     = [p \in Publishers |-> "idle"]
  /\ batch  = [p \in Publishers |-> <<>>]
  /\ copies = [e \in Events |-> 0]
  /\ faults = 0

\* OutboxService.create() in a business transaction that commits; one that
\* rolls back leaves nothing.
Commit(e) ==
  /\ row[e].status = "NONE"
  /\ row'   = [row EXCEPT ![e] = [status |-> "PENDING", attempts |-> 0]]
  /\ due'   = due \cup {e}
  /\ older' = older \cup (due \X {e})
  /\ UNCHANGED <<pc, batch, copies, faults>>

\* Slip: ordered by creation, a row that failed is back in front of the others.
ElapseInFront(e) ==
  /\ e \in Committed \ due
  /\ due'   = due \cup {e}
  /\ older' = older \cup ({e} \X due)
  /\ UNCHANGED <<row, pc, batch, copies, faults>>

\* The backoff delay of a row ends: availableAt is no longer in the future.
Elapse(e) ==
  /\ e \in Committed \ due
  /\ due'   = due \cup {e}
  /\ older' = older \cup (due \X {e})
  /\ UNCHANGED <<row, pc, batch, copies, faults>>

\* Slip: no `ticking` guard, the interval starts a tick while one is sending.
ClaimSelectAgain(p) ==
  /\ pc[p] \in {"idle", "send"}
  /\ \E n \in 1..BatchSize : \E b \in [1..n -> Claimable] :
       /\ IsOldestFirst(b)
       /\ batch' = [batch EXCEPT ![p] = @ \o
            [i \in 1..n |-> [event |-> b[i], attempts |-> row[b[i]].attempts]]]
  /\ pc' = [pc EXCEPT ![p] = "claim"]
  /\ UNCHANGED <<row, due, older, copies, faults>>

\* tick() with no tick running: the claim transaction's SELECT, which locks
\* what it returns.
ClaimSelect(p) ==
  /\ pc[p] = "idle"
  /\ \E n \in 1..BatchSize : \E b \in [1..n -> Claimable] :
       /\ IsOldestFirst(b)
       /\ batch' = [batch EXCEPT ![p] =
            [i \in 1..n |-> [event |-> b[i], attempts |-> row[b[i]].attempts]]]
  /\ pc' = [pc EXCEPT ![p] = "claim"]
  /\ UNCHANGED <<row, due, older, copies, faults>>

\* The claim transaction commits: the locks go, the rows are as they were.
ClaimCommit(p) ==
  /\ pc[p] = "claim"
  /\ pc' = [pc EXCEPT ![p] = "send"]
  /\ UNCHANGED <<row, due, older, batch, copies, faults>>

\* The broker appends the message being sent (more than once when the client
\* library repeats a request whose acknowledgement was lost).
Append1(p, e) ==
  /\ pc[p] \in {"send", "appended"}
  /\ e = Current(p)
  /\ copies' = [copies EXCEPT ![e] = SaturatingSucc(@, MaxCopies)]
  /\ pc'     = [pc EXCEPT ![p] = "appended"]
  /\ UNCHANGED <<row, due, older, batch, faults>>

\* Slip: publish() is not awaited.
SendNotAwaited(p, e) ==
  /\ pc[p] \in {"send", "appended"}
  /\ e = Current(p)
  /\ pc' = [pc EXCEPT ![p] = "mark"]
  /\ UNCHANGED <<row, due, older, batch, copies, faults>>

\* kafkaProducer.publish() resolves.
SendAcked(p, e) ==
  /\ pc[p] = "appended"
  /\ e = Current(p)
  /\ pc' = [pc EXCEPT ![p] = "mark"]
  /\ UNCHANGED <<row, due, older, batch, copies, faults>>

\* kafkaProducer.publish() throws, whether or not the broker has the message.
SendFails(p) ==
  /\ pc[p] \in {"send", "appended"}
  /\ pc' = [pc EXCEPT ![p] = "fail"]
  /\ UNCHANGED <<row, due, older, batch, copies, faults>>

\* publishOne() is done with its event: the loop goes on to the next copy.
NextCopy(p) ==
  /\ batch' = [batch EXCEPT ![p] = Tail(@)]
  /\ pc'    = [pc EXCEPT ![p] = IF Len(batch[p]) = 1 THEN "idle" ELSE "send"]

\* markPublished(): UPDATE by id; it waits for a claim that holds the row.
MarkPublished(p) ==
  /\ pc[p] = "mark"
  /\ Current(p) \notin Locked
  /\ row' = [row EXCEPT ![Current(p)].status = "PUBLISHED"]
  /\ NextCopy(p)
  /\ UNCHANGED <<due, older, copies, faults>>

\* markPublished() throws inside publishOne()'s try: the catch block runs.
MarkPublishedFails(p) ==
  /\ pc[p] = "mark"
  /\ Fault
  /\ pc' = [pc EXCEPT ![p] = "fail"]
  /\ UNCHANGED <<row, due, older, batch, copies>>

\* markFailed(): attemptCount from the claimed copy, availableAt pushed into
\* the future by computeBackoffMs(), status FAILED whatever it was.
MarkFailed(p) ==
  LET e == Current(p) IN
  /\ pc[p] = "fail"
  /\ e \notin Locked
  /\ row' = [row EXCEPT ![e] =
       [status   |-> "FAILED",
        attempts |-> SaturatingSucc(Head(batch[p]).attempts, MaxAttempts)]]
  /\ due'   = due \ {e}
  /\ older' = {r \in older : r[1] # e /\ r[2] # e}
  /\ NextCopy(p)
  /\ UNCHANGED <<copies, faults>>

\* markFailed() throws: tick() catches, the rest of the batch is abandoned.
MarkFailedFails(p) ==
  /\ pc[p] = "fail"
  /\ Fault
  /\ pc'    = [pc EXCEPT ![p] = "idle"]
  /\ batch' = [batch EXCEPT ![p] = <<>>]
  /\ UNCHANGED <<row, due, older, copies>>

\* The process dies and restarts; what it had claimed was only in memory, and
\* an open claim transaction rolls back.
Crash(p) ==
  /\ pc[p] # "idle"
  /\ Fault
  /\ pc'    = [pc EXCEPT ![p] = "idle"]
  /\ batch' = [batch EXCEPT ![p] = <<>>]
  /\ UNCHANGED <<row, due, older, copies>>

\* Every step of a publisher but the broker's append.
Local(p) ==
  \/ ClaimSelect(p) \/ ClaimCommit(p)
  \/ \E e \in Events : SendAcked(p, e)
  \/ SendFails(p)
  \/ MarkPublished(p) \/ MarkPublishedFails(p)
  \/ MarkFailed(p) \/ MarkFailedFails(p)
  \/ Crash(p)

Next ==
  \/ \E e \in Events : Commit(e) \/ Elapse(e)
  \/ \E p \in Publishers : Local(p) \/ \E e \in Events : Append1(p, e)

SafeSpec == Init /\ [][Next]_vars
-----------------------------------------------------------------------------
\* The steps a running publisher takes by itself: setInterval() keeps calling
\* tick(), and every await of tick() settles one way or the other.
Advance(p) ==
  \/ ClaimSelect(p) \/ ClaimCommit(p)
  \/ \E e \in Events : SendAcked(p, e)
  \/ SendFails(p)
  \/ MarkPublished(p) \/ MarkFailed(p)

\* Weak fairness for those steps and for the passing of the backoff delay.  A
\* deliverable event that is sent again and again reaches the broker and is
\* acknowledged some time: the broker is not down forever.
Fairness ==
  /\ \A p \in Publishers : WF_vars(Advance(p))
  /\ \A e \in Events : WF_vars(Elapse(e))
  /\ \A e \in Deliverable :
       /\ SF_vars(\E p \in Publishers : Append1(p, e))
       /\ SF_vars(\E p \in Publishers : SendAcked(p, e))

Spec == SafeSpec /\ Fairness
-----------------------------------------------------------------------------
\* Every variable keeps to the values the columns and the publisher's own
\* state can have; a publisher holds claimed copies exactly while it is inside
\* tick(), and only of rows that exist.
TypeOK ==
  /\ row \in [Events -> Row]
  /\ due \subseteq Committed
  /\ older \subseteq due \X due
  /\ pc \in [Publishers -> PC]
  /\ batch \in [Publishers -> Seq(Claim)]
  /\ \A p \in Publishers : pc[p] = "idle" <=> batch[p] = <<>>
  /\ \A p \in Publishers : ClaimedBy(p) \subseteq Committed
  /\ copies \in [Events -> 0..MaxCopies]
  /\ faults \in 0..MaxFaults

\* No event is lost: a row says PUBLISHED only when the topic has the message,
\* whichever publisher wrote it and whatever failed before (the order publish,
\* then markPublished, in publishOne()).
PublishedIsOnTopic ==
  \A e \in Events : row[e].status = "PUBLISHED" => copies[e] > 0

\* The class comment of OutboxPublisherService: "two publishers never double-claim
\* the same row", whichever copies they are sending.
NeverDoubleClaimed ==
  \A p, q \in Publishers : p # q => ClaimedBy(p) \cap ClaimedBy(q) = {}

\* Every committed event the broker accepts in the end is published, also when
\* failing events share the table and the batches with it.
EventuallyPublished ==
  \A e \in Deliverable : e \in Committed ~> row[e].status = "PUBLISHED"

\* The outbox implements at-least-once delivery.
Delivery == INSTANCE EventDelivery WITH
  emitted <- Committed, delivered <- {e \in Events : copies[e] > 0}

\* Every step of the outbox is a step of EventDelivery or leaves it alone, and
\* every emitted event that the broker does not refuse forever is delivered.
AtLeastOnce == Delivery!Spec
=============================================================================
