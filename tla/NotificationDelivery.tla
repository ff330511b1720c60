------------------------- MODULE NotificationDelivery -------------------------
(***************************************************************************)
(* From the payment topic to a sent notification.  The instances of one    *)
(* Kafka consumer group run NotificationEventConsumer: check               *)
(* processed_events, create the notification row, enqueue a BullMQ job,    *)
(* record the event as processed, with no transaction around the four.     *)
(* BullMQ hands the jobs to NotificationWorker slots, which read the row,  *)
(* call the provider and write the status with an unconditional UPDATE.    *)
(*                                                                         *)
(* One partition and one channel (IN_APP).  The topic is kept from the     *)
(* group's committed offset on.  Kafka and BullMQ are external: their      *)
(* steps are the ones the configuration in src/ relies on.                 *)
(***************************************************************************)
EXTENDS Naturals, Sequences, FiniteSets

CONSTANTS
  Events,         \* payment.confirmed events
  Consumers,      \* instances of the consumer group
  Workers,        \* worker slots (processes x concurrency)
  None,           \* no event, no worker
  MaxTopic,       \* messages past the committed offset at one time
  MaxTries,       \* attempts of a job (DEFAULT_JOB_OPTIONS.attempts)
  MaxStalls,      \* times BullMQ restarts a stalled job before it fails it
  MaxDeliveries,  \* provider calls are counted up to here
  MaxFaults,      \* crashes and failed calls in one behaviour
  MaxLockLosses   \* times a live worker loses its job lock in one behaviour

ASSUME NotificationAssumption ==
  /\ None \notin Events \cup Workers \cup Consumers
  /\ {MaxTopic, MaxTries, MaxDeliveries} \subseteq Nat \ {0}
  /\ {MaxStalls, MaxFaults, MaxLockLosses} \subseteq Nat

VARIABLES
  topic,      \* messages from the committed offset on
  owner,      \* the instance the partition is assigned to
  pos,        \* messages the owner has handled but not committed
  cpc, cmsg,  \* where each instance is in the handler, and with which event
  processed,  \* processed_events rows of this consumer
  notif,      \* status of the notification row of each event
  job,        \* the BullMQ job record with jobId notification-<id>
  holder,     \* the worker slot that holds the job's lock
  wpc, wjob,  \* where each worker slot is in process(), and with which job
  deliveries, \* provider.deliver() calls per event (saturating)
  givenUp,    \* history: events whose job BullMQ has moved to failed
  faults, lockLosses

consumerVars == <<owner, pos, cpc, cmsg, processed>>
workerVars   == <<holder, wpc, wjob, deliveries, givenUp, lockLosses>>
vars == <<topic, consumerVars, notif, job, workerVars, faults>>
-----------------------------------------------------------------------------
JobState == {"none", "waiting", "active", "delayed", "completed", "failed"}
Job      == [state : JobState, tries : 0..MaxTries, stalls : 0..MaxStalls]
NoJob    == [state |-> "none", tries |-> 0, stalls |-> 0]
NewJob   == [NoJob EXCEPT !.state = "waiting"]

Fault == faults < MaxFaults /\ faults' = faults + 1

Init ==
  /\ topic = <<>> /\ pos = 0
  /\ owner \in Consumers
  /\ cpc  = [c \in Consumers |-> "idle"]
  /\ cmsg = [c \in Consumers |-> None]
  /\ processed = {}
  /\ notif  = [e \in Events |-> "NONE"]
  /\ job    = [e \in Events |-> NoJob]
  /\ holder = [e \in Events |-> None]
  /\ wpc  = [w \in Workers |-> "idle"]
  /\ wjob = [w \in Workers |-> None]
  /\ deliveries = [e \in Events |-> 0]
  /\ givenUp = {}
  /\ faults = 0 /\ lockLosses = 0
-----------------------------------------------------------------------------
(* The topic and the consumer group.                                       *)

\* The publisher appends a message; the same event may come more than once.
Produce(e) ==
  /\ Len(topic) < MaxTopic
  /\ topic' = Append(topic, e)
  /\ UNCHANGED <<consumerVars, notif, job, workerVars, faults>>

\* The owner commits the offset of what it has handled.
CommitOffset ==
  /\ pos > 0
  /\ topic' = SubSeq(topic, pos + 1, Len(topic))
  /\ pos' = 0
  /\ UNCHANGED <<owner, cpc, cmsg, processed, notif, job, workerVars, faults>>

\* A rebalance gives the partition to another instance, which starts from the
\* committed offset; the former owner finishes the handler it is in.
Rebalance(c) ==
  /\ c # owner /\ cpc[c] = "idle"
  /\ Fault
  /\ owner' = c /\ pos' = 0
  /\ UNCHANGED <<topic, cpc, cmsg, processed, notif, job, workerVars>>

\* eachMessage: the owner takes the next message.
Receive(c) ==
  /\ c = owner /\ cpc[c] = "idle"
  /\ pos < Len(topic)
  /\ cpc'  = [cpc EXCEPT ![c] = "check"]
  /\ cmsg' = [cmsg EXCEPT ![c] = topic[pos + 1]]
  /\ UNCHANGED <<topic, owner, pos, processed, notif, job, workerVars, faults>>

\* The handler returns: kafkajs resolves the offset if the instance still owns
\* the partition.
HandlerReturns(c) ==
  /\ cpc'  = [cpc EXCEPT ![c] = "idle"]
  /\ cmsg' = [cmsg EXCEPT ![c] = None]
  /\ pos'  = IF c = owner THEN pos + 1 ELSE pos
  /\ UNCHANGED <<topic, owner>>

\* processIdempotently(): the processed_events lookup.
CheckProcessed(c) ==
  /\ cpc[c] = "check"
  /\ \/ /\ cmsg[c] \in processed
        /\ HandlerReturns(c)
     \/ /\ cmsg[c] \notin processed
        /\ cpc' = [cpc EXCEPT ![c] = "create"]
        /\ UNCHANGED <<topic, owner, pos, cmsg>>
  /\ UNCHANGED <<processed, notif, job, workerVars, faults>>

\* Slip: a row that is there already is taken for one that was enqueued.
CreatePendingOnce(c) ==
  /\ cpc[c] = "create"
  /\ notif' = [notif EXCEPT ![cmsg[c]] = IF @ = "NONE" THEN "PENDING" ELSE @]
  /\ cpc'   = [cpc EXCEPT ![c] =
                 IF notif[cmsg[c]] = "NONE" THEN "enqueue" ELSE "record"]
  /\ UNCHANGED <<topic, owner, pos, cmsg, processed, job, workerVars, faults>>

\* createPending(): the row, or the one that UNIQUE(source_event_id, channel)
\* says is there already.
CreatePending(c) ==
  /\ cpc[c] = "create"
  /\ notif' = [notif EXCEPT ![cmsg[c]] = IF @ = "NONE" THEN "PENDING" ELSE @]
  /\ cpc'   = [cpc EXCEPT ![c] = "enqueue"]
  /\ UNCHANGED <<topic, owner, pos, cmsg, processed, job, workerVars, faults>>

\* queueService.enqueue(): BullMQ ignores a jobId it still has a record of.
Enqueue(c) ==
  /\ cpc[c] = "enqueue"
  /\ job' = [job EXCEPT ![cmsg[c]] = IF @.state = "none" THEN NewJob ELSE @]
  /\ cpc' = [cpc EXCEPT ![c] = "record"]
  /\ UNCHANGED <<topic, owner, pos, cmsg, processed, notif, workerVars, faults>>

\* INSERT into processed_events; ER_DUP_ENTRY counts as done.
RecordProcessed(c) ==
  /\ cpc[c] = "record"
  /\ processed' = processed \cup {cmsg[c]}
  /\ HandlerReturns(c)
  /\ UNCHANGED <<notif, job, workerVars, faults>>

\* Slip: the handler swallows the error, and the offset is resolved.
HandlerFailsQuietly(c) ==
  /\ cpc[c] # "idle"
  /\ Fault
  /\ HandlerReturns(c)
  /\ UNCHANGED <<processed, notif, job, workerVars>>

\* A database or Redis call of the handler throws, or the instance dies and
\* restarts: nothing is resolved, and what was not committed comes again.
HandlerFails(c) ==
  /\ cpc[c] # "idle"
  /\ Fault
  /\ cpc'  = [cpc EXCEPT ![c] = "idle"]
  /\ cmsg' = [cmsg EXCEPT ![c] = None]
  /\ pos'  \in IF c = owner THEN {0, pos} ELSE {pos}
  /\ UNCHANGED <<topic, owner, processed, notif, job, workerVars>>
-----------------------------------------------------------------------------
(* BullMQ and the workers.                                                 *)

\* A slot takes a waiting job and its lock.
TakeJob(w, e) ==
  /\ wpc[w] = "idle" /\ job[e].state = "waiting"
  /\ job'    = [job EXCEPT ![e].state = "active"]
  /\ holder' = [holder EXCEPT ![e] = w]
  /\ wpc'    = [wpc EXCEPT ![w] = "read"]
  /\ wjob'   = [wjob EXCEPT ![w] = e]
  /\ UNCHANGED <<topic, consumerVars, notif, deliveries, givenUp, faults,
                 lockLosses>>

Leave(w) ==
  /\ wpc'  = [wpc EXCEPT ![w] = "idle"]
  /\ wjob' = [wjob EXCEPT ![w] = None]

GiveUp(e) ==
  /\ job'     = [job EXCEPT ![e].state = "failed"]
  /\ givenUp' = givenUp \cup {e}

\* process() returns: the job completes, if the slot still holds its lock.
JobReturns(w) ==
  LET e == wjob[w] IN
  /\ IF holder[e] = w
     THEN /\ job'    = [job EXCEPT ![e].state = "completed"]
          /\ holder' = [holder EXCEPT ![e] = None]
     ELSE UNCHANGED <<job, holder>>
  /\ Leave(w)
  /\ UNCHANGED givenUp

\* process() throws: another attempt after the backoff, or the end of them.
JobThrows(w) ==
  LET e == wjob[w] IN
  /\ IF holder[e] = w
     THEN /\ holder' = [holder EXCEPT ![e] = None]
          /\ IF job[e].tries + 1 < MaxTries
             THEN /\ job' = [job EXCEPT ![e].state = "delayed", ![e].tries = @ + 1]
                  /\ UNCHANGED givenUp
             ELSE GiveUp(e)
     ELSE UNCHANGED <<job, holder, givenUp>>
  /\ Leave(w)

\* Slip: SENT is not looked at.
ReadStatusBlind(w) ==
  /\ wpc[w] = "read"
  /\ wpc' = [wpc EXCEPT ![w] = "deliver"]
  /\ UNCHANGED <<topic, consumerVars, notif, job, holder, wjob, deliveries,
                 givenUp, faults, lockLosses>>

\* process(): findById; a row that is SENT already ends the job.
ReadStatus(w) ==
  /\ wpc[w] = "read"
  /\ IF notif[wjob[w]] = "SENT"
     THEN JobReturns(w)
     ELSE /\ wpc' = [wpc EXCEPT ![w] = "deliver"]
          /\ UNCHANGED <<job, holder, wjob, givenUp>>
  /\ UNCHANGED <<topic, consumerVars, notif, deliveries, faults, lockLosses>>

\* findById throws.
ReadFails(w) ==
  /\ wpc[w] = "read"
  /\ Fault
  /\ JobThrows(w)
  /\ UNCHANGED <<topic, consumerVars, notif, deliveries, lockLosses>>

\* provider.deliver(); the IN_APP provider does not throw.
Deliver(w) ==
  /\ wpc[w] = "deliver"
  /\ deliveries' = [deliveries EXCEPT ![wjob[w]] =
                      IF @ < MaxDeliveries THEN @ + 1 ELSE @]
  /\ wpc' = [wpc EXCEPT ![w] = "markSent"]
  /\ UNCHANGED <<topic, consumerVars, notif, job, holder, wjob, givenUp,
                 faults, lockLosses>>

\* markSent(): UPDATE by id.
MarkSent(w) ==
  /\ wpc[w] = "markSent"
  /\ notif' = [notif EXCEPT ![wjob[w]] = "SENT"]
  /\ JobReturns(w)
  /\ UNCHANGED <<topic, consumerVars, deliveries, faults, lockLosses>>

\* markSent() throws after the provider was called: the catch block runs.
MarkSentFails(w) ==
  /\ wpc[w] = "markSent"
  /\ Fault
  /\ wpc' = [wpc EXCEPT ![w] = "markFailed"]
  /\ UNCHANGED <<topic, consumerVars, notif, job, holder, wjob, deliveries,
                 givenUp, lockLosses>>

\* markFailed(): UPDATE by id, then the error goes on to BullMQ.
MarkFailed(w) ==
  /\ wpc[w] = "markFailed"
  /\ notif' = [notif EXCEPT ![wjob[w]] = "FAILED"]
  /\ JobThrows(w)
  /\ UNCHANGED <<topic, consumerVars, deliveries, faults, lockLosses>>

\* markFailed() throws as well: the job fails, the row stays as it was.
MarkFailedFails(w) ==
  /\ wpc[w] = "markFailed"
  /\ Fault
  /\ JobThrows(w)
  /\ UNCHANGED <<topic, consumerVars, notif, deliveries, lockLosses>>

\* The worker process dies and restarts; the job stays active.
WorkerCrash(w) ==
  /\ wpc[w] # "idle"
  /\ Fault
  /\ Leave(w)
  /\ UNCHANGED <<topic, consumerVars, notif, job, holder, deliveries, givenUp,
                 lockLosses>>

Working(e) == \E w \in Workers : wjob[w] = e /\ holder[e] = w

\* BullMQ's stalled check: an active job nobody renews the lock of waits again,
\* or fails when that has happened MaxStalls times.
Restart(e) ==
  /\ job[e].state = "active"
  /\ holder' = [holder EXCEPT ![e] = None]
  /\ IF job[e].stalls < MaxStalls
     THEN /\ job' = [job EXCEPT ![e].state = "waiting", ![e].stalls = @ + 1]
          /\ UNCHANGED givenUp
     ELSE GiveUp(e)
  /\ UNCHANGED <<topic, consumerVars, notif, wpc, wjob, deliveries, faults>>

\* The slot that had the job is gone.
StalledCheck(e) == ~Working(e) /\ Restart(e) /\ UNCHANGED lockLosses

\* The slot is alive but its event loop was blocked for longer than the lock.
LockLost(e) ==
  /\ Working(e)
  /\ lockLosses < MaxLockLosses /\ lockLosses' = lockLosses + 1
  /\ Restart(e)

\* The backoff delay of a failed attempt ends.
Promote(e) ==
  /\ job[e].state = "delayed"
  /\ job' = [job EXCEPT ![e].state = "waiting"]
  /\ UNCHANGED <<topic, consumerVars, notif, workerVars, faults>>

\* removeOnComplete / removeOnFail: newer records push an old one out.
Evict(e) ==
  /\ job[e].state \in {"completed", "failed"}
  /\ job' = [job EXCEPT ![e] = NoJob]
  /\ UNCHANGED <<topic, consumerVars, notif, workerVars, faults>>
-----------------------------------------------------------------------------
ConsumerAdvance(c) ==
  Receive(c) \/ CheckProcessed(c) \/ CreatePending(c) \/ Enqueue(c)
  \/ RecordProcessed(c)

WorkerAdvance(w) ==
  (\E e \in Events : TakeJob(w, e)) \/ ReadStatus(w) \/ Deliver(w)
  \/ MarkSent(w) \/ MarkFailed(w)

Internal ==
  \/ CommitOffset
  \/ \E c \in Consumers : Rebalance(c) \/ ConsumerAdvance(c) \/ HandlerFails(c)
  \/ \E w \in Workers : WorkerAdvance(w) \/ ReadFails(w) \/ MarkSentFails(w)
                          \/ MarkFailedFails(w) \/ WorkerCrash(w)
  \/ \E e \in Events : StalledCheck(e) \/ LockLost(e) \/ Promote(e) \/ Evict(e)

Next == (\E e \in Events : Produce(e)) \/ Internal

Spec == Init /\ [][Next]_vars
-----------------------------------------------------------------------------
\* An offset is resolved only for an event that is recorded as processed, also
\* when two instances handle the partition across a rebalance: a commit never
\* passes over an unprocessed event.
ResolvedIsProcessed == \A i \in 1..pos : topic[i] \in processed

\* The row says SENT or BullMQ gave the job up.  Once a worker has lost its
\* job's lock the row may say FAILED for good, but the provider was called.
Settled(e) ==
  \/ notif[e] = "SENT" \/ e \in givenUp
  \/ lockLosses > 0 /\ deliveries[e] > 0

\* A processed event was handed over: its row exists, and it is settled or a
\* job record is there to bring it on.
ProcessedIsHandedOver ==
  \A e \in processed :
    notif[e] # "NONE" /\ (Settled(e) \/ job[e].state # "none")

\* SENT is the end: redelivered messages, evicted job records, retries and
\* crashed workers neither change the row nor call the provider again, as long
\* as no worker that is still running has lost its job's lock.
SentIsFinal ==
  [][\A e \in Events : notif[e] = "SENT" /\ lockLosses = 0 =>
       notif'[e] = "SENT" /\ deliveries'[e] = deliveries[e]]_vars
=============================================================================
