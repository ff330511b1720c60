---------------------- MODULE NotificationDelivery_proofs ----------------------
(***************************************************************************)
(* The safety properties of NotificationDelivery for every number of       *)
(* events, instances and worker slots and whatever the bounds on faults.   *)
(* The consumer group keeps one half of the invariant, BullMQ and the      *)
(* workers the other; the steps of one never undo what the other relies    *)
(* on, because what is handed over stays handed over.                      *)
(***************************************************************************)
EXTENDS NotificationDelivery, SequenceTheorems, TLAPS

ConsumerTypes ==
  /\ topic \in Seq(Events) /\ pos \in 0..Len(topic)
  /\ owner \in Consumers
  /\ cpc \in [Consumers -> {"idle", "check", "create", "enqueue", "record"}]
  /\ cmsg \in [Consumers -> Events \cup {None}]
  /\ \A c \in Consumers : cpc[c] # "idle" => cmsg[c] \in Events
  /\ processed \subseteq Events

WorkerTypes ==
  /\ notif \in [Events -> {"NONE", "PENDING", "SENT", "FAILED"}]
  /\ job \in [Events -> Job]
  /\ holder \in [Events -> Workers \cup {None}]
  /\ wpc \in [Workers -> {"idle", "read", "deliver", "markSent", "markFailed"}]
  /\ wjob \in [Workers -> Events \cup {None}]
  /\ \A w \in Workers : wpc[w] # "idle" => wjob[w] \in Events
  /\ deliveries \in [Events -> Nat]
  /\ givenUp \subseteq Events
  /\ lockLosses \in Nat

\* While the owner handles a message it is the one after those it has handled.
OwnerIsAtNext ==
  cpc[owner] # "idle" => pos < Len(topic) /\ cmsg[owner] = topic[pos + 1]

ConsumerInv == ConsumerTypes /\ OwnerIsAtNext /\ ResolvedIsProcessed

\* A job record says how the job ended only if it ended so.
JobsEnd ==
  \A e \in Events :
    /\ job[e].state = "completed" => Settled(e)
    /\ job[e].state = "failed" => e \in givenUp

\* The status is written after the provider was called.
CalledFirst ==
  \A w \in Workers : wpc[w] \in {"markSent", "markFailed"} => deliveries[wjob[w]] > 0

\* Until a lock is lost a busy slot holds the lock of its job, and past its
\* first look the row is not SENT.
LockIsHeld ==
  lockLosses = 0 => \A w \in Workers : wpc[w] # "idle" =>
    /\ holder[wjob[w]] = w /\ job[wjob[w]].state = "active"
    /\ wpc[w] # "read" => notif[wjob[w]] # "SENT"

WorkerInv == WorkerTypes /\ JobsEnd /\ CalledFirst /\ LockIsHeld

HandedOver(e) == notif[e] # "NONE" /\ (Settled(e) \/ job[e].state # "none")

\* The handler records an event after its row was made and its job enqueued.
InOrder ==
  \A c \in Consumers :
    /\ cpc[c] = "enqueue" => notif[cmsg[c]] # "NONE"
    /\ cpc[c] = "record" => HandedOver(cmsg[c])

IInv == ConsumerInv /\ WorkerInv /\ InOrder /\ ProcessedIsHandedOver

\* What the steps of one half mean to the other.
Grows ==
  \A e \in Events : /\ notif[e] # "NONE" => notif'[e] # "NONE"
                    /\ HandedOver(e) => HandedOver(e)'

SentStays ==
  \A e \in Events : notif[e] = "SENT" /\ lockLosses = 0 =>
    notif'[e] = "SENT" /\ deliveries'[e] = deliveries[e]
-----------------------------------------------------------------------------
(* The consumer group.                                                     *)

\* Appending a message leaves those before it where they are.
LEMMA ProduceKeeps ==
  ASSUME ConsumerInv, NEW e \in Events, Produce(e)
  PROVE  ConsumerInv'
<1> USE DEF ConsumerInv, ConsumerTypes, Produce, consumerVars
<1>1. topic' \in Seq(Events) /\ Len(topic') = Len(topic) + 1
  OBVIOUS
<1>2. \A i \in 1..Len(topic) : topic'[i] = topic[i]
  OBVIOUS
<1>3. ConsumerTypes'
  BY <1>1
<1>4. OwnerIsAtNext'
  BY <1>1, <1>2 DEF OwnerIsAtNext
<1>5. ResolvedIsProcessed'
  BY <1>2 DEF ResolvedIsProcessed
<1> QED BY <1>3, <1>4, <1>5

\* After a commit the owner is at the start of what is left.
LEMMA CommitKeeps ==
  ASSUME ConsumerInv, CommitOffset
  PROVE  ConsumerInv'
<1> USE DEF ConsumerInv, ConsumerTypes, CommitOffset
<1>1. /\ topic' \in Seq(Events) /\ Len(topic') = Len(topic) - pos
      /\ \A i \in 1..Len(topic) - pos : topic'[i] = topic[pos + i]
  <2>1. /\ pos + 1 \in 1..Len(topic) + 1 /\ Len(topic) \in pos..Len(topic)
        /\ topic' = SubSeq(topic, pos + 1, Len(topic))
    OBVIOUS
  <2> QED BY <2>1, SubSeqProperties
<1>2. ConsumerTypes'
  BY <1>1
<1>3. OwnerIsAtNext'
  BY <1>1 DEF OwnerIsAtNext
<1>4. ResolvedIsProcessed'
  BY DEF ResolvedIsProcessed
<1> QED BY <1>2, <1>3, <1>4

\* Only the owner moves on, and only past what it has processed.
LEMMA HandlerKeeps ==
  ASSUME ConsumerInv, NEW c \in Consumers,
         Rebalance(c) \/ ConsumerAdvance(c) \/ HandlerFails(c)
  PROVE  ConsumerInv'
<1> USE DEF ConsumerInv, ConsumerTypes
<1>1. CASE Rebalance(c) \/ HandlerFails(c)
  BY <1>1 DEF Rebalance, HandlerFails, OwnerIsAtNext, ResolvedIsProcessed
<1>2. CASE Receive(c)
  <2>1. topic[pos + 1] \in Events
    BY <1>2 DEF Receive
  <2> QED BY <1>2, <2>1 DEF Receive, OwnerIsAtNext, ResolvedIsProcessed
<1>3. CASE CreatePending(c) \/ Enqueue(c)
  BY <1>3 DEF CreatePending, Enqueue, OwnerIsAtNext, ResolvedIsProcessed
<1>4. CASE CheckProcessed(c) \/ RecordProcessed(c)
  <2>1. cpc[c] # "idle" /\ processed \subseteq processed'
    BY <1>4 DEF CheckProcessed, RecordProcessed
  <2>2. CASE HandlerReturns(c)
    <3>1. cmsg[c] \in processed'
      BY <1>4, <2>1, <2>2 DEF CheckProcessed, RecordProcessed, HandlerReturns
    <3>2. ConsumerTypes'
      BY <1>4, <2>1, <2>2 DEF CheckProcessed, RecordProcessed, HandlerReturns, OwnerIsAtNext
    <3>3. OwnerIsAtNext'
      BY <2>2 DEF HandlerReturns, OwnerIsAtNext
    <3>4. ResolvedIsProcessed'
      BY <2>1, <2>2, <3>1 DEF HandlerReturns, OwnerIsAtNext, ResolvedIsProcessed
    <3> QED BY <3>2, <3>3, <3>4
  <2>3. CASE ~HandlerReturns(c)
    BY <1>4, <2>3 DEF CheckProcessed, RecordProcessed, OwnerIsAtNext, ResolvedIsProcessed
  <2> QED BY <2>2, <2>3
<1> QED BY <1>1, <1>2, <1>3, <1>4 DEF ConsumerAdvance
-----------------------------------------------------------------------------
(* BullMQ and the workers.                                                 *)

WorkerSteps(w) ==
  WorkerAdvance(w) \/ ReadFails(w) \/ MarkSentFails(w) \/ MarkFailedFails(w) \/ WorkerCrash(w)

JobSteps(e) == StalledCheck(e) \/ LockLost(e) \/ Promote(e) \/ Evict(e)

\* A job record stays one, with its tries and stalls within their bounds.
LEMMA JobTypes ==
  ASSUME NotificationAssumption, job \in [Events -> Job], NEW e \in Events,
         \/ \E s \in JobState : job' = [job EXCEPT ![e].state = s]
         \/ /\ job[e].tries < MaxTries
            /\ job' = [job EXCEPT ![e].state = "delayed", ![e].tries = @ + 1]
         \/ /\ job[e].stalls < MaxStalls
            /\ job' = [job EXCEPT ![e].state = "waiting", ![e].stalls = @ + 1]
  PROVE  job' \in [Events -> Job]
<1>1. job[e] \in Job /\ job[e].tries \in 0..MaxTries /\ job[e].stalls \in 0..MaxStalls
  BY DEF Job
<1>2. CASE \E s \in JobState : job' = [job EXCEPT ![e].state = s]
  BY <1>1, <1>2 DEF Job
<1>3. CASE /\ job[e].tries < MaxTries
           /\ job' = [job EXCEPT ![e].state = "delayed", ![e].tries = @ + 1]
  <2>1. job[e].tries + 1 \in 0..MaxTries
    BY <1>1, <1>3, NotificationAssumption DEF NotificationAssumption
  <2>2. job' = [job EXCEPT ![e] = [job[e] EXCEPT !.state = "delayed", !.tries = @ + 1]]
    BY <1>3
  <2>3. [job[e] EXCEPT !.state = "delayed", !.tries = @ + 1] \in Job
    BY <1>1, <2>1 DEF Job, JobState
  <2> QED BY <2>2, <2>3
<1>4. CASE /\ job[e].stalls < MaxStalls
           /\ job' = [job EXCEPT ![e].state = "waiting", ![e].stalls = @ + 1]
  <2>1. job[e].stalls + 1 \in 0..MaxStalls
    BY <1>1, <1>4, NotificationAssumption DEF NotificationAssumption
  <2>2. job' = [job EXCEPT ![e] = [job[e] EXCEPT !.state = "waiting", !.stalls = @ + 1]]
    BY <1>4
  <2>3. [job[e] EXCEPT !.state = "waiting", !.stalls = @ + 1] \in Job
    BY <1>1, <2>1 DEF Job, JobState
  <2> QED BY <2>2, <2>3
<1> QED BY <1>2, <1>3, <1>4

\* A slot that takes a job holds its lock; nobody else had it.
LEMMA TakeKeeps ==
  ASSUME NotificationAssumption, WorkerInv, NEW w \in Workers, NEW e \in Events, TakeJob(w, e)
  PROVE  WorkerInv' /\ Grows /\ SentStays
<1> USE NotificationAssumption DEF NotificationAssumption, WorkerInv, WorkerTypes, TakeJob
<1>1. WorkerTypes'
  BY DEF Job, JobState
<1>2. JobsEnd'
  BY DEF JobsEnd, Settled, Job
<1>3. CalledFirst'
  BY DEF CalledFirst
<1>4. LockIsHeld'
  BY DEF LockIsHeld, Job
<1>5. Grows /\ SentStays
  BY DEF Grows, SentStays, HandedOver, Settled, Job
<1> QED BY <1>1, <1>2, <1>3, <1>4, <1>5

\* process() returns when the row is SENT, with that or before.
LEMMA ReturnKeeps ==
  ASSUME NotificationAssumption, WorkerInv, NEW w \in Workers,
         \/ ReadStatus(w) /\ notif[wjob[w]] = "SENT"
         \/ MarkSent(w)
  PROVE  WorkerInv' /\ Grows /\ SentStays
<1> USE NotificationAssumption
    DEF NotificationAssumption, WorkerInv, WorkerTypes, ReadStatus, MarkSent, JobReturns, Leave
<1>1. /\ wpc[w] # "idle" /\ wjob[w] \in Events
      /\ notif' = [notif EXCEPT ![wjob[w]] = "SENT"]
      /\ UNCHANGED <<deliveries, givenUp, lockLosses>>
  OBVIOUS
<1>2. /\ wpc' = [wpc EXCEPT ![w] = "idle"] /\ wjob' = [wjob EXCEPT ![w] = None]
      /\ \/ UNCHANGED <<job, holder>>
         \/ /\ holder[wjob[w]] = w
            /\ job' = [job EXCEPT ![wjob[w]].state = "completed"]
            /\ holder' = [holder EXCEPT ![wjob[w]] = None]
  OBVIOUS
<1> HIDE DEF ReadStatus, MarkSent, JobReturns, Leave
<1>3. WorkerTypes'
  <2>1. job' \in [Events -> Job]
    BY <1>1, <1>2, JobTypes DEF JobState
  <2> QED BY <1>1, <1>2, <2>1
<1>4. JobsEnd'
  BY <1>1, <1>2 DEF JobsEnd, Settled, Job
<1>5. CalledFirst'
  BY <1>1, <1>2 DEF CalledFirst
<1>6. LockIsHeld'
  BY <1>1, <1>2 DEF LockIsHeld, Job
<1>7. Grows /\ SentStays
  BY <1>1, <1>2 DEF Grows, SentStays, HandedOver, Settled, Job
<1> QED BY <1>3, <1>4, <1>5, <1>6, <1>7

\* process() throws: the row is FAILED, after the provider was called, or as it was.
LEMMA ThrowKeeps ==
  ASSUME NotificationAssumption, WorkerInv, NEW w \in Workers,
         ReadFails(w) \/ MarkFailed(w) \/ MarkFailedFails(w)
  PROVE  WorkerInv' /\ Grows /\ SentStays
<1> USE NotificationAssumption DEF NotificationAssumption, WorkerInv, WorkerTypes
<1>1. /\ wpc[w] # "idle" /\ wjob[w] \in Events
      /\ UNCHANGED <<deliveries, lockLosses>>
      /\ \/ UNCHANGED notif
         \/ wpc[w] = "markFailed" /\ notif' = [notif EXCEPT ![wjob[w]] = "FAILED"]
  BY DEF ReadFails, MarkFailed, MarkFailedFails
<1>2. /\ wpc' = [wpc EXCEPT ![w] = "idle"] /\ wjob' = [wjob EXCEPT ![w] = None]
      /\ \/ UNCHANGED <<job, holder, givenUp>>
         \/ /\ holder[wjob[w]] = w
            /\ holder' = [holder EXCEPT ![wjob[w]] = None]
            /\ \/ /\ job[wjob[w]].tries + 1 < MaxTries
                  /\ job' = [job EXCEPT ![wjob[w]].state = "delayed",
                                        ![wjob[w]].tries = @ + 1]
                  /\ UNCHANGED givenUp
               \/ /\ job' = [job EXCEPT ![wjob[w]].state = "failed"]
                  /\ givenUp' = givenUp \cup {wjob[w]}
  BY DEF ReadFails, MarkFailed, MarkFailedFails, JobThrows, Leave, GiveUp
<1>3. WorkerTypes'
  <2>1. wjob[w] \in Events /\ job[wjob[w]].tries \in Nat
    BY <1>1 DEF Job
  <2>2. job[wjob[w]].tries + 1 < MaxTries => job[wjob[w]].tries < MaxTries
    BY <2>1
  <2>3. "failed" \in JobState
    BY DEF JobState
  <2>4. job' \in [Events -> Job]
    BY <1>2, <2>1, <2>2, <2>3, JobTypes
  <2> QED BY <1>1, <1>2, <2>4
<1>4. \A e \in Events : Settled(e) => Settled(e)'
  BY <1>1, <1>2 DEF Settled, CalledFirst, LockIsHeld
<1>5. JobsEnd'
  BY <1>1, <1>2, <1>4 DEF JobsEnd, Job
<1>6. CalledFirst'
  BY <1>1, <1>2 DEF CalledFirst
<1>7. LockIsHeld'
  BY <1>1, <1>2 DEF LockIsHeld, Job
<1>8. Grows
  BY <1>1, <1>2, <1>4 DEF Grows, HandedOver, Job
<1>9. SentStays
  BY <1>1 DEF SentStays, LockIsHeld
<1> QED BY <1>3, <1>5, <1>6, <1>7, <1>8, <1>9

\* The other steps of a slot only move it on, or lose it.
LEMMA SlotKeeps ==
  ASSUME NotificationAssumption, WorkerInv, NEW w \in Workers,
         \/ ReadStatus(w) /\ notif[wjob[w]] # "SENT"
         \/ Deliver(w) \/ MarkSentFails(w) \/ WorkerCrash(w)
  PROVE  WorkerInv' /\ Grows /\ SentStays
<1> USE NotificationAssumption DEF NotificationAssumption, WorkerInv, WorkerTypes
<1>1. /\ wpc[w] # "idle" /\ wjob[w] \in Events
      /\ UNCHANGED <<notif, job, holder, givenUp, lockLosses>>
      /\ \A v \in Workers \ {w} : wpc'[v] = wpc[v] /\ wjob'[v] = wjob[v]
  BY DEF ReadStatus, Deliver, MarkSentFails, WorkerCrash, Leave
<1>2. \A e \in Events : deliveries[e] > 0 => deliveries'[e] > 0
  BY DEF ReadStatus, Deliver, MarkSentFails, WorkerCrash
<1>3. WorkerTypes'
  BY <1>1 DEF ReadStatus, Deliver, MarkSentFails, WorkerCrash, Leave
<1>4. JobsEnd'
  BY <1>1, <1>2 DEF JobsEnd, Settled
<1>5. CalledFirst'
  BY <1>1, <1>2 DEF CalledFirst, ReadStatus, Deliver, MarkSentFails, WorkerCrash, Leave
<1>6. LockIsHeld'
  BY <1>1 DEF LockIsHeld, ReadStatus, Deliver, MarkSentFails, WorkerCrash, Leave
<1>7. Grows /\ SentStays
  BY <1>1, <1>2 DEF Grows, SentStays, HandedOver, Settled, LockIsHeld,
     ReadStatus, Deliver, MarkSentFails, WorkerCrash
<1> QED BY <1>3, <1>4, <1>5, <1>6, <1>7

\* BullMQ's own steps: a restart, an end of a backoff, an eviction.
LEMMA JobKeeps ==
  ASSUME NotificationAssumption, WorkerInv, NEW e \in Events, JobSteps(e)
  PROVE  WorkerInv' /\ Grows /\ SentStays
<1> USE NotificationAssumption DEF NotificationAssumption, WorkerInv, WorkerTypes
<1>1. CASE StalledCheck(e) \/ LockLost(e)
  <2>1. /\ UNCHANGED <<notif, wpc, wjob, deliveries>>
        /\ job[e].state = "active" /\ holder' = [holder EXCEPT ![e] = None]
        /\ \/ ~Working(e) /\ UNCHANGED lockLosses
           \/ lockLosses' = lockLosses + 1
        /\ \/ /\ job[e].stalls < MaxStalls
              /\ job' = [job EXCEPT ![e].state = "waiting", ![e].stalls = @ + 1]
              /\ UNCHANGED givenUp
           \/ /\ job' = [job EXCEPT ![e].state = "failed"]
              /\ givenUp' = givenUp \cup {e}
    BY <1>1 DEF StalledCheck, LockLost, Restart, GiveUp
  <2>2. WorkerTypes'
    <3>1. job' \in [Events -> Job]
      BY <2>1, JobTypes DEF JobState
    <3> QED BY <2>1, <3>1
  <2>3. \A f \in Events : Settled(f) => Settled(f)'
    BY <2>1 DEF Settled
  <2>4. JobsEnd'
    BY <2>1, <2>3 DEF JobsEnd, Job
  <2>5. CalledFirst'
    BY <2>1 DEF CalledFirst
  <2>6. LockIsHeld'
    BY <2>1 DEF LockIsHeld, Working, Job
  <2>7. Grows /\ SentStays
    BY <2>1, <2>3 DEF Grows, SentStays, HandedOver, Job
  <2> QED BY <2>2, <2>4, <2>5, <2>6, <2>7
<1>2. CASE Promote(e) \/ Evict(e)
  <2>1. /\ UNCHANGED <<notif, holder, wpc, wjob, deliveries, givenUp, lockLosses>>
        /\ \/ /\ job[e].state = "delayed"
              /\ job' = [job EXCEPT ![e].state = "waiting"]
           \/ /\ job[e].state \in {"completed", "failed"}
              /\ job' = [job EXCEPT ![e] = NoJob]
    BY <1>2 DEF Promote, Evict, workerVars
  <2>2. WorkerTypes'
    BY <2>1 DEF Job, JobState, NoJob
  <2>3. JobsEnd'
    BY <2>1 DEF JobsEnd, Settled, Job, NoJob
  <2>4. CalledFirst'
    BY <2>1 DEF CalledFirst
  <2>5. LockIsHeld'
    BY <2>1 DEF LockIsHeld
  <2>6. Grows /\ SentStays
    BY <2>1 DEF Grows, SentStays, HandedOver, JobsEnd, Settled, Job
  <2> QED BY <2>2, <2>3, <2>4, <2>5, <2>6
<1> QED BY <1>1, <1>2 DEF JobSteps
-----------------------------------------------------------------------------
(* The two halves together.                                                *)

\* What is handed over stays so, and an event is recorded after it was.
LEMMA OrderKeeps ==
  ASSUME ConsumerInv, InOrder, ProcessedIsHandedOver, Grows,
         UNCHANGED <<cpc, cmsg, processed>>
  PROVE  InOrder' /\ ProcessedIsHandedOver'
<1> USE DEF ConsumerInv, ConsumerTypes, Grows
<1>1. InOrder'
  BY DEF InOrder
<1>2. ProcessedIsHandedOver'
  BY DEF ProcessedIsHandedOver, HandedOver
<1> QED BY <1>1, <1>2

\* The handler's own steps go in that order.
LEMMA HandlerInOrder ==
  ASSUME NotificationAssumption, IInv, NEW c \in Consumers,
         Rebalance(c) \/ ConsumerAdvance(c) \/ HandlerFails(c)
  PROVE  WorkerInv' /\ InOrder' /\ ProcessedIsHandedOver' /\ SentStays
<1> USE NotificationAssumption
    DEF NotificationAssumption, IInv, ConsumerInv, ConsumerTypes, WorkerInv, WorkerTypes
<1>1. CASE CreatePending(c)
  <2>1. /\ cmsg[c] \in Events /\ cpc[c] = "create" /\ cpc' = [cpc EXCEPT ![c] = "enqueue"]
        /\ notif' = [notif EXCEPT ![cmsg[c]] = IF @ = "NONE" THEN "PENDING" ELSE @]
        /\ UNCHANGED <<cmsg, processed, job, workerVars>>
    BY <1>1 DEF CreatePending
  <2>2. \A e \in Events : /\ notif'[e] = "SENT" <=> notif[e] = "SENT"
                          /\ notif[e] # "NONE" => notif'[e] # "NONE"
    BY <2>1
  <2>3. WorkerInv'
    BY <2>1, <2>2 DEF workerVars, JobsEnd, CalledFirst, LockIsHeld, Settled
  <2>4. Grows /\ SentStays
    BY <2>1, <2>2 DEF Grows, SentStays, HandedOver, Settled, workerVars
  <2>5. InOrder'
    BY <2>1, <2>4 DEF InOrder, Grows
  <2>6. ProcessedIsHandedOver'
    BY <2>1, <2>4 DEF ProcessedIsHandedOver, Grows, HandedOver
  <2> QED BY <2>3, <2>4, <2>5, <2>6
<1>2. CASE Enqueue(c)
  <2>1. /\ cmsg[c] \in Events /\ cpc[c] = "enqueue" /\ cpc' = [cpc EXCEPT ![c] = "record"]
        /\ job' = [job EXCEPT ![cmsg[c]] = IF @.state = "none" THEN NewJob ELSE @]
        /\ UNCHANGED <<cmsg, processed, notif, workerVars>>
    BY <1>2 DEF Enqueue
  <2>2. NewJob.state = "waiting" /\ NewJob \in Job
    <3>1. NewJob = [state |-> "waiting", tries |-> 0, stalls |-> 0]
      BY DEF NewJob, NoJob
    <3>2. 0 \in 0..MaxTries /\ 0 \in 0..MaxStalls
      OBVIOUS
    <3> QED BY <3>1, <3>2 DEF Job, JobState
  <2>3. /\ job' \in [Events -> Job] /\ job'[cmsg[c]].state # "none"
        /\ \A e \in Events : job'[e] = job[e] \/ (job[e].state = "none" /\ job'[e] = NewJob)
    <3>1. \A e \in Events \ {cmsg[c]} : job'[e] = job[e]
      BY <2>1
    <3>2. job'[cmsg[c]] = IF job[cmsg[c]].state = "none" THEN NewJob ELSE job[cmsg[c]]
      BY <2>1
    <3> QED BY <2>1, <2>2, <3>1, <3>2
  <2>4. WorkerInv'
    BY <2>1, <2>2, <2>3 DEF workerVars, JobsEnd, CalledFirst, LockIsHeld, Settled
  <2>5. Grows /\ SentStays
    BY <2>1, <2>2, <2>3 DEF Grows, SentStays, HandedOver, Settled, workerVars
  <2>6. InOrder'
    BY <2>1, <2>3, <2>5 DEF InOrder, Grows, HandedOver
  <2>7. ProcessedIsHandedOver'
    BY <2>1, <2>5 DEF ProcessedIsHandedOver, Grows, HandedOver
  <2> QED BY <2>4, <2>5, <2>6, <2>7
<1>3. CASE ~CreatePending(c) /\ ~Enqueue(c)
  <2>1. UNCHANGED <<notif, job, workerVars>>
    BY <1>3 DEF Rebalance, ConsumerAdvance, HandlerFails, Receive, CheckProcessed,
       RecordProcessed
  <2>2. WorkerInv' /\ SentStays /\ Grows
    BY <2>1 DEF workerVars, JobsEnd, CalledFirst, LockIsHeld, Settled, SentStays, Grows,
       HandedOver
  <2>3. \A d \in Consumers \ {c} : cpc'[d] = cpc[d] /\ cmsg'[d] = cmsg[d]
    BY <1>3 DEF Rebalance, ConsumerAdvance, HandlerFails, Receive, CheckProcessed,
       RecordProcessed, HandlerReturns
  <2>4. \/ cpc'[c] \in {"idle", "check", "create"}
        \/ cpc'[c] = cpc[c] /\ cmsg'[c] = cmsg[c]
    BY <1>3 DEF Rebalance, ConsumerAdvance, HandlerFails, Receive, CheckProcessed,
       RecordProcessed, HandlerReturns
  <2>5. \/ processed' = processed
        \/ processed' = processed \cup {cmsg[c]} /\ cpc[c] = "record"
    <3>1. CASE RecordProcessed(c)
      BY <3>1 DEF RecordProcessed
    <3>2. CASE ~RecordProcessed(c)
      BY <1>3, <3>2 DEF Rebalance, ConsumerAdvance, HandlerFails, Receive, CheckProcessed
    <3> QED BY <3>1, <3>2
  <2>6. InOrder'
    BY <2>2, <2>3, <2>4 DEF InOrder, Grows
  <2>7. ProcessedIsHandedOver'
    BY <2>2, <2>5 DEF ProcessedIsHandedOver, Grows, HandedOver, InOrder
  <2> QED BY <2>2, <2>6, <2>7
<1> QED BY <1>1, <1>2, <1>3

\* At the start nothing is handled, recorded or enqueued.
LEMMA InitInv == Init => IInv
  BY NotificationAssumption DEF NotificationAssumption, Init, IInv, ConsumerInv, ConsumerTypes,
     OwnerIsAtNext, ResolvedIsProcessed, WorkerInv, WorkerTypes, JobsEnd, CalledFirst,
     LockIsHeld, InOrder, ProcessedIsHandedOver, NoJob, Job, JobState

\* The invariant is inductive, and a step leaves what is SENT alone.
LEMMA NextInv == IInv /\ [Next]_vars => IInv' /\ SentStays
<1> SUFFICES ASSUME IInv, [Next]_vars PROVE IInv' /\ SentStays
  OBVIOUS
<1> USE NotificationAssumption
<1>1. CASE UNCHANGED vars
  BY <1>1 DEF vars, consumerVars, workerVars, IInv, ConsumerInv, ConsumerTypes, OwnerIsAtNext,
     ResolvedIsProcessed, WorkerInv, WorkerTypes, JobsEnd, CalledFirst, LockIsHeld, InOrder,
     ProcessedIsHandedOver, HandedOver, Settled, SentStays
<1>2. CASE (\E e \in Events : Produce(e)) \/ CommitOffset
  <2>1. ConsumerInv'
    BY <1>2, ProduceKeeps, CommitKeeps DEF IInv
  <2>2. UNCHANGED <<cpc, cmsg, processed, notif, job, workerVars>>
    BY <1>2 DEF Produce, CommitOffset, consumerVars
  <2>3. WorkerInv' /\ Grows /\ SentStays
    BY <2>2 DEF IInv, workerVars, WorkerInv, WorkerTypes, JobsEnd, CalledFirst, LockIsHeld,
       Settled, Grows, HandedOver, SentStays
  <2> QED BY <2>1, <2>2, <2>3, OrderKeeps DEF IInv
<1>3. CASE \E c \in Consumers : Rebalance(c) \/ ConsumerAdvance(c) \/ HandlerFails(c)
  BY <1>3, HandlerKeeps, HandlerInOrder DEF IInv
<1>4. CASE \/ \E w \in Workers : WorkerSteps(w)
           \/ \E e \in Events : JobSteps(e)
  <2>1. UNCHANGED <<topic, consumerVars>>
    BY <1>4 DEF WorkerSteps, WorkerAdvance, JobSteps, TakeJob, ReadStatus, Deliver, MarkSent,
       MarkFailed, ReadFails, MarkSentFails, MarkFailedFails, WorkerCrash, StalledCheck,
       LockLost, Restart, Promote, Evict
  <2>2. ConsumerInv'
    BY <2>1 DEF IInv, ConsumerInv, ConsumerTypes, OwnerIsAtNext, ResolvedIsProcessed,
       consumerVars
  <2>3. WorkerInv' /\ Grows /\ SentStays
    BY <1>4, TakeKeeps, ReturnKeeps, ThrowKeeps, SlotKeeps, JobKeeps
       DEF IInv, WorkerSteps, WorkerAdvance
  <2> QED BY <2>1, <2>2, <2>3, OrderKeeps DEF IInv, consumerVars
<1> QED BY <1>1, <1>2, <1>3, <1>4 DEF Next, Internal, WorkerSteps, JobSteps
-----------------------------------------------------------------------------
\* Whatever is redelivered, rebalanced or crashes, the group's position never
\* passes an event that is not recorded (kafkajs resolves after eachMessage).
THEOREM NotificationResolved == Spec => []ResolvedIsProcessed
<1>1. IInv => ResolvedIsProcessed
  BY DEF IInv, ConsumerInv
<1> QED BY <1>1, InitInv, NextInv, PTL DEF Spec

\* An event that is recorded has a row, and a job or an outcome: none is lost
\* between the four unprotected steps of processIdempotently().
THEOREM NotificationHandedOver == Spec => []ProcessedIsHandedOver
<1>1. IInv => ProcessedIsHandedOver
  BY DEF IInv
<1> QED BY <1>1, InitInv, NextInv, PTL DEF Spec

\* Until a worker loses a job's lock, a row that is SENT stays so and the
\* provider is not called for it again.
THEOREM NotificationSentIsFinal == Spec => SentIsFinal
<1>1. IInv /\ [Next]_vars =>
        [\A e \in Events : notif[e] = "SENT" /\ lockLosses = 0 =>
           notif'[e] = "SENT" /\ deliveries'[e] = deliveries[e]]_vars
  BY NextInv DEF SentStays
<1> QED BY <1>1, InitInv, NextInv, PTL DEF Spec, SentIsFinal
=============================================================================
