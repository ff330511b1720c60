---------------------------- MODULE EventPipeline ----------------------------
(***************************************************************************)
(* The outbox and the notification consumer together: what the broker      *)
(* appends for a publisher is what the consumer group reads.  The two      *)
(* share nothing else (and, in this model, the budget of faults).          *)
(***************************************************************************)
EXTENDS Naturals, Sequences, FiniteSets

CONSTANTS
  Events, Publishers, BatchSize, MaxAttempts, MaxCopies, MaxFaults, Deliverable,
  Consumers, Workers, None, MaxTopic, MaxTries, MaxStalls, MaxDeliveries,
  MaxLockLosses

VARIABLES
  row, due, older, pc, batch, copies,
  topic, owner, pos, cpc, cmsg, processed, notif, job, holder, wpc, wjob,
  deliveries, givenUp, lockLosses,
  faults

P == INSTANCE Outbox
N == INSTANCE NotificationDelivery

outboxVars       == <<row, due, older, pc, batch, copies>>
notificationVars == <<topic, owner, pos, cpc, cmsg, processed, notif, job,
                      holder, wpc, wjob, deliveries, givenUp, lockLosses>>
vars == <<outboxVars, notificationVars, faults>>

Init == P!Init /\ N!Init

\* The business transactions and the backoff timers.
Emit == /\ \E e \in Events : P!Commit(e) \/ P!Elapse(e)
        /\ UNCHANGED notificationVars

PublisherStep(p) == P!Local(p) /\ UNCHANGED notificationVars

\* The broker's append is the message the consumer group will read.
Append2(p, e) == P!Append1(p, e) /\ N!Produce(e)

Deliver == N!Internal /\ UNCHANGED outboxVars

Next ==
  \/ Emit
  \/ \E p \in Publishers : PublisherStep(p) \/ \E e \in Events : Append2(p, e)
  \/ Deliver

SafeSpec == Init /\ [][Next]_vars

\* The publishers as in Outbox; the running instances go on with their
\* handlers, the slots with their jobs, BullMQ with its timers, kafkajs with
\* its commits.  Nothing is assumed of new messages, faults, lost locks, or the
\* eviction of records.
Fairness ==
  /\ \A p \in Publishers : WF_vars(P!Advance(p) /\ UNCHANGED notificationVars)
  /\ \A e \in Events : WF_vars(P!Elapse(e) /\ UNCHANGED notificationVars)
  /\ \A e \in Deliverable :
       /\ SF_vars(\E p \in Publishers : Append2(p, e))
       /\ SF_vars(\E p \in Publishers :
                    P!SendAcked(p, e) /\ UNCHANGED notificationVars)
  /\ WF_vars(N!CommitOffset /\ UNCHANGED outboxVars)
  /\ \A c \in Consumers : WF_vars(N!ConsumerAdvance(c) /\ UNCHANGED outboxVars)
  /\ \A w \in Workers : WF_vars(N!WorkerAdvance(w) /\ UNCHANGED outboxVars)
  /\ \A e \in Events :
       /\ WF_vars(N!StalledCheck(e) /\ UNCHANGED outboxVars)
       /\ WF_vars(N!Promote(e) /\ UNCHANGED outboxVars)

Spec == SafeSpec /\ Fairness
-----------------------------------------------------------------------------
\* The promise of the outbox holds end to end, up to the limits of the queue:
\* every committed event that the broker does not refuse forever is brought to
\* the notification provider, or its job is given up after its attempts or its
\* stalls (DEFAULT_JOB_OPTIONS in queue.service.ts), and neither happens for an
\* event that no business transaction emitted.
Delivery == INSTANCE EventDelivery WITH
  emitted <- P!Committed, delivered <- {e \in Events : deliveries[e] > 0} \cup givenUp

EndToEnd == Delivery!Spec

\* Every committed event that the broker does not refuse forever ends in a
\* notification that is settled.
EventuallyNotified ==
  \A e \in Deliverable : e \in P!Committed ~> N!Settled(e)

=============================================================================
