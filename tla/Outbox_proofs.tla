--------------------------- MODULE Outbox_proofs ---------------------------
(***************************************************************************)
(* Proofs about Outbox, for any events, publishers and bounds: the types,  *)
(* that a row says PUBLISHED only when its message is on the topic, that   *)
(* every step is one of EventDelivery, and what events without overlapping *)
(* copies can rely on.                                                     *)
(***************************************************************************)
EXTENDS OutboxOverlap, SequenceTheorems, TLAPS

\* The message a publisher has seen appended is on the topic.
SentIsOnTopic ==
  \A p \in Publishers :
    pc[p] \in {"appended", "mark"} => copies[Current(p)] > 0

\* The inductive invariant.
OutboxInv == TypeOK /\ PublishedIsOnTopic /\ SentIsOnTopic
-----------------------------------------------------------------------------
(* Claimed batches.                                                        *)

\* A publisher inside tick() has a first copy, of a committed event.
LEMMA CurrentCopy ==
  ASSUME TypeOK, NEW p \in Publishers, pc[p] # "idle"
  PROVE  /\ batch[p] \in Seq(Claim) /\ batch[p] # <<>>
         /\ Head(batch[p]) = batch[p][1] /\ 1 \in DOMAIN batch[p]
         /\ Head(batch[p]) \in Claim
         /\ Current(p) \in Events /\ Current(p) \in ClaimedBy(p)
         /\ Current(p) \in Committed
<1>1. batch[p] \in Seq(Claim) /\ batch[p] # <<>> /\ ClaimedBy(p) \subseteq Committed
  BY DEF TypeOK
<1>2. Head(batch[p]) = batch[p][1] /\ 1 \in DOMAIN batch[p] /\ Head(batch[p]) \in Claim
  BY <1>1, HeadTailProperties
<1> QED BY <1>1, <1>2 DEF Current, ClaimedBy, Claim, Committed

\* What is left of a batch is a batch of the same copies.
LEMMA RestOfBatch ==
  ASSUME TypeOK, NEW p \in Publishers, pc[p] # "idle"
  PROVE  /\ Tail(batch[p]) \in Seq(Claim)
         /\ Len(batch[p]) = 1 <=> Tail(batch[p]) = <<>>
         /\ \A i \in DOMAIN Tail(batch[p]) :
              i + 1 \in DOMAIN batch[p] /\ Tail(batch[p])[i] = batch[p][i + 1]
<1>1. batch[p] \in Seq(Claim) /\ batch[p] # <<>>
  BY CurrentCopy
<1>2. /\ Tail(batch[p]) \in Seq(Claim)
      /\ Len(Tail(batch[p])) = Len(batch[p]) - 1
      /\ \A i \in 1 .. Len(Tail(batch[p])) : Tail(batch[p])[i] = batch[p][i + 1]
  BY <1>1, HeadTailProperties
<1>3. /\ DOMAIN batch[p] = 1..Len(batch[p]) /\ Len(batch[p]) \in Nat
      /\ DOMAIN Tail(batch[p]) = 1..Len(Tail(batch[p])) /\ Len(Tail(batch[p])) \in Nat
  BY <1>1, <1>2, LenProperties
<1>4. Tail(batch[p]) = <<>> <=> Len(Tail(batch[p])) = 0
  BY <1>2, EmptySeq
<1> QED BY <1>2, <1>3, <1>4

\* The copies of the rows a claim has selected.
LEMMA NewBatch ==
  ASSUME TypeOK, NEW n \in 1..BatchSize, NEW b \in [1..n -> Claimable],
         NEW c, c = [i \in 1..n |-> [event |-> b[i], attempts |-> row[b[i]].attempts]]
  PROVE  /\ c \in Seq(Claim) /\ c # <<>> /\ DOMAIN c = 1..n
         /\ \A i \in 1..n : c[i].event = b[i] /\ c[i].attempts = row[b[i]].attempts
         /\ \A i \in 1..n : b[i] \in Claimable /\ b[i] \in Committed
<1>1. n \in Nat /\ 1 \in 1..n
  BY OutboxAssumption
<1>2. Claimable \subseteq Committed /\ Claimable \subseteq Events
  BY DEF Claimable, TypeOK, Committed
<1>3. \A i \in 1..n : [event |-> b[i], attempts |-> row[b[i]].attempts] \in Claim
  BY <1>2 DEF Claim, TypeOK, Row
<1>4. c \in [1..n -> Claim]
  BY <1>3
<1>5. c \in Seq(Claim)
  BY <1>1, <1>4, SeqDef
<1>6. 1 \in DOMAIN c /\ DOMAIN <<>> = {}
  BY <1>1, <1>4
<1>7. c # <<>>
  BY <1>6
<1> QED BY <1>1, <1>2, <1>4, <1>5, <1>7
-----------------------------------------------------------------------------
(* The invariant.                                                          *)

LEMMA InitOutbox == Init => OutboxInv
<1> SUFFICES ASSUME Init PROVE OutboxInv
  OBVIOUS
<1> USE OutboxAssumption DEF Init
<1>1. TypeOK
  BY EmptySeq DEF TypeOK, Row, Status, Committed, PC, ClaimedBy
<1>2. PublishedIsOnTopic /\ SentIsOnTopic
  BY DEF PublishedIsOnTopic, SentIsOnTopic
<1> QED BY <1>1, <1>2 DEF OutboxInv

\* What a step that leaves a publisher's batch, or drops copies from it, must
\* show of that publisher for TypeOK.
LEMMA TypeStep ==
  ASSUME TypeOK,
         row' \in [Events -> Row], due' \subseteq Committed', older' \subseteq due' \X due',
         Committed \subseteq Committed',
         copies' \in [Events -> 0..MaxCopies], faults' \in 0..MaxFaults,
         NEW p \in Publishers, NEW s \in PC, NEW c \in Seq(Claim),
         pc' = [pc EXCEPT ![p] = s], batch' = [batch EXCEPT ![p] = c],
         s = "idle" <=> c = <<>>,
         \A i \in DOMAIN c : c[i].event \in Committed'
  PROVE  TypeOK'
<1>1. pc' \in [Publishers -> PC] /\ batch' \in [Publishers -> Seq(Claim)]
  BY DEF TypeOK
<1>2. \A q \in Publishers : pc'[q] = "idle" <=> batch'[q] = <<>>
  BY DEF TypeOK
<1>3. ASSUME NEW q \in Publishers PROVE ClaimedBy(q)' \subseteq Committed'
  <2>1. CASE q = p
    BY <2>1 DEF ClaimedBy, TypeOK
  <2>2. CASE q # p
    BY <2>2 DEF ClaimedBy, TypeOK
  <2> QED BY <2>1, <2>2
<1> QED BY <1>1, <1>2, <1>3 DEF TypeOK

\* What publishOne() leaves of the batch and where it goes next.
LEMMA AfterCopy ==
  ASSUME TypeOK, NEW p \in Publishers, pc[p] # "idle", NextCopy(p),
         Committed \subseteq Committed'
  PROVE  \E s \in PC : \E c \in Seq(Claim) :
           /\ pc' = [pc EXCEPT ![p] = s] /\ batch' = [batch EXCEPT ![p] = c]
           /\ s = "idle" <=> c = <<>>
           /\ \A i \in DOMAIN c : c[i].event \in Committed'
<1> DEFINE s == IF Len(batch[p]) = 1 THEN "idle" ELSE "send"
           c == Tail(batch[p])
<1>1. /\ pc' = [pc EXCEPT ![p] = s] /\ batch' = [batch EXCEPT ![p] = c]
      /\ s \in PC
  BY DEF NextCopy, PC
<1>2. c \in Seq(Claim) /\ (s = "idle" <=> c = <<>>)
  BY RestOfBatch
<1>3. \A i \in DOMAIN c : c[i].event \in Committed'
  BY RestOfBatch DEF TypeOK, ClaimedBy
<1> QED BY <1>1, <1>2, <1>3

LEMMA FaultType == TypeOK /\ Fault => faults' \in 0..MaxFaults
BY OutboxAssumption DEF TypeOK, Fault

LEMMA StepType == TypeOK /\ [Next]_vars => TypeOK'
<1> SUFFICES ASSUME TypeOK, [Next]_vars PROVE TypeOK'
  OBVIOUS
<1>0. \A p \in Publishers :
        /\ batch[p] \in Seq(Claim) /\ (pc[p] = "idle" <=> batch[p] = <<>>)
        /\ \A i \in DOMAIN batch[p] : batch[p][i].event \in Committed
  BY DEF TypeOK, ClaimedBy
<1>1. ASSUME NEW e \in Events, Commit(e) PROVE TypeOK'
  <2> USE <1>1 DEF Commit
  <2>1. row' \in [Events -> Row]
    BY OutboxAssumption DEF TypeOK, Row, Status
  <2>2. Committed' = Committed \cup {e}
    BY DEF Committed, TypeOK
  <2>3. due' \subseteq Committed' /\ older' \subseteq due' \X due'
    BY <2>2 DEF TypeOK
  <2> QED BY <2>1, <2>2, <2>3 DEF TypeOK, ClaimedBy
<1>2. ASSUME NEW e \in Events, Elapse(e) PROVE TypeOK'
  BY <1>2 DEF Elapse, TypeOK, ClaimedBy, Committed
<1>3. ASSUME NEW p \in Publishers, NEW e \in Events, Append1(p, e) PROVE TypeOK'
  <2> USE <1>3 DEF Append1
  <2>1. copies' \in [Events -> 0..MaxCopies]
    BY OutboxAssumption DEF TypeOK, SaturatingSucc
  <2>2. Committed' = Committed
    BY DEF Committed
  <2> QED BY <2>1, <2>2 DEF TypeOK, ClaimedBy, PC
<1>4. ASSUME NEW p \in Publishers, ClaimSelect(p) PROVE TypeOK'
  <2>1. PICK n \in 1..BatchSize : \E b \in [1..n -> Claimable] :
          batch' = [batch EXCEPT ![p] =
            [i \in 1..n |-> [event |-> b[i], attempts |-> row[b[i]].attempts]]]
    BY <1>4 DEF ClaimSelect
  <2>2. PICK b \in [1..n -> Claimable] :
          batch' = [batch EXCEPT ![p] =
            [i \in 1..n |-> [event |-> b[i], attempts |-> row[b[i]].attempts]]]
    BY <2>1
  <2> DEFINE c == [i \in 1..n |-> [event |-> b[i], attempts |-> row[b[i]].attempts]]
  <2>3. /\ c \in Seq(Claim) /\ c # <<>>
        /\ \A i \in DOMAIN c : c[i].event \in Committed
    BY NewBatch
  <2> HIDE DEF c
  <2>4. batch' = [batch EXCEPT ![p] = c]
    BY <2>2 DEF c
  <2>5. /\ pc' = [pc EXCEPT ![p] = "claim"] /\ "claim" \in PC
        /\ UNCHANGED <<row, due, older, copies, faults>>
    BY <1>4 DEF ClaimSelect, PC
  <2>6. Committed' = Committed
    BY <2>5 DEF Committed
  <2> QED BY <2>3, <2>4, <2>5, <2>6, TypeStep DEF TypeOK
<1>5. ASSUME NEW p \in Publishers,
             \/ ClaimCommit(p) \/ (\E e \in Events : SendAcked(p, e)) \/ SendFails(p)
             \/ MarkPublishedFails(p)
      PROVE  TypeOK'
  <2>1. pc[p] # "idle" /\ UNCHANGED <<row, due, older, copies, batch>>
    BY <1>5 DEF ClaimCommit, SendAcked, SendFails, MarkPublishedFails
  <2>2. faults' \in 0..MaxFaults
    BY <1>5, FaultType DEF ClaimCommit, SendAcked, SendFails, MarkPublishedFails,
                           TypeOK
  <2>3. \E s \in PC \ {"idle"} : pc' = [pc EXCEPT ![p] = s]
    BY <1>5 DEF ClaimCommit, SendAcked, SendFails, MarkPublishedFails, PC
  <2>4. Committed' = Committed
    BY <2>1 DEF Committed
  <2> QED BY <2>1, <2>2, <2>3, <2>4 DEF TypeOK, ClaimedBy
<1>6. ASSUME NEW p \in Publishers, MarkPublished(p) PROVE TypeOK'
  <2>1. Current(p) \in Events /\ Current(p) \in Committed
    BY <1>6, CurrentCopy DEF MarkPublished
  <2>2. row' \in [Events -> Row] /\ Committed' = Committed
    BY <1>6, <2>1 DEF MarkPublished, TypeOK, Row, Status, Committed
  <2> QED BY <1>6, <2>2, AfterCopy, TypeStep DEF MarkPublished, TypeOK
<1>7. ASSUME NEW p \in Publishers, MarkFailed(p) PROVE TypeOK'
  <2> DEFINE e == Current(p)
  <2>1. e \in Events /\ e \in Committed /\ Head(batch[p]) \in Claim
    BY <1>7, CurrentCopy DEF MarkFailed
  <2>2. SaturatingSucc(Head(batch[p]).attempts, MaxAttempts) \in 0..MaxAttempts
    BY <2>1, OutboxAssumption DEF SaturatingSucc, Claim
  <2>3. row' \in [Events -> Row] /\ Committed' = Committed
    BY <1>7, <2>1, <2>2 DEF MarkFailed, TypeOK, Row, Status, Committed
  <2>4. due' \subseteq Committed' /\ older' \subseteq due' \X due'
    BY <1>7, <2>3 DEF MarkFailed, TypeOK
  <2>5. NextCopy(p) /\ pc[p] # "idle" /\ UNCHANGED <<copies, faults>>
    BY <1>7 DEF MarkFailed
  <2> QED BY <2>3, <2>4, <2>5, AfterCopy, TypeStep DEF TypeOK
<1>8. ASSUME NEW p \in Publishers, MarkFailedFails(p) \/ Crash(p) PROVE TypeOK'
  <2>1. /\ UNCHANGED <<row, due, older, copies>> /\ faults' \in 0..MaxFaults
        /\ pc' = [pc EXCEPT ![p] = "idle"] /\ batch' = [batch EXCEPT ![p] = <<>>]
    BY <1>8, FaultType DEF MarkFailedFails, Crash
  <2>2. Committed' = Committed /\ "idle" \in PC /\ <<>> \in Seq(Claim)
    BY <2>1, EmptySeq DEF Committed, PC
  <2>3. /\ row' \in [Events -> Row] /\ due' \subseteq Committed'
        /\ older' \subseteq due' \X due' /\ copies' \in [Events -> 0..MaxCopies]
    BY <2>1, <2>2 DEF TypeOK
  <2>4. \A q \in Publishers : (pc'[q] = "idle" <=> batch'[q] = <<>>)
                              /\ ClaimedBy(q)' \subseteq Committed'
    BY <2>1, <2>2 DEF TypeOK, ClaimedBy
  <2>5. pc' \in [Publishers -> PC] /\ batch' \in [Publishers -> Seq(Claim)]
    BY <2>1, <2>2 DEF TypeOK
  <2> QED BY <2>1, <2>3, <2>4, <2>5 DEF TypeOK
<1>9. CASE UNCHANGED vars
  BY <1>9 DEF vars, TypeOK, Committed, ClaimedBy
<1> QED BY <1>1, <1>2, <1>3, <1>4, <1>5, <1>6, <1>7, <1>8, <1>9, CurrentCopy
        DEF Next, Local

\* The copies of a message on the topic only become more.
LEMMA CopiesGrow ==
  TypeOK /\ [Next]_vars => \A e \in Events : copies[e] > 0 => copies'[e] > 0
<1> SUFFICES ASSUME TypeOK, [Next]_vars, NEW e \in Events, copies[e] > 0
             PROVE  copies'[e] > 0
  OBVIOUS
<1>1. ASSUME NEW p \in Publishers, NEW f \in Events, Append1(p, f) PROVE copies'[e] > 0
  BY <1>1, OutboxAssumption DEF Append1, TypeOK, SaturatingSucc
<1>2. CASE copies' = copies
  BY <1>2
<1> QED BY <1>1, <1>2 DEF Next, vars, Commit, Elapse, Local, ClaimSelect, ClaimCommit,
           SendAcked, SendFails, MarkPublished, MarkPublishedFails, MarkFailed,
           MarkFailedFails, Crash

LEMMA StepSent == TypeOK /\ SentIsOnTopic /\ [Next]_vars => SentIsOnTopic'
<1> SUFFICES ASSUME TypeOK, SentIsOnTopic, [Next]_vars,
                    NEW q \in Publishers, pc'[q] \in {"appended", "mark"}
             PROVE  copies'[Current(q)'] > 0
  BY DEF SentIsOnTopic
<1>1. CASE pc'[q] = pc[q] /\ batch'[q] = batch[q]
  <2>1. Current(q)' = Current(q) /\ Current(q) \in Events
    BY <1>1, CurrentCopy DEF Current
  <2> QED BY <1>1, <2>1, CopiesGrow DEF SentIsOnTopic
<1>2. ASSUME NEW p \in Publishers, NEW e \in Events, Append1(p, e), p = q
      PROVE  copies'[Current(q)'] > 0
  <2>1. Current(q)' = Current(q) /\ Current(q) = e
    BY <1>2 DEF Append1, Current
  <2> QED BY <1>2, <2>1, OutboxAssumption DEF Append1, TypeOK, SaturatingSucc
<1>3. ASSUME NEW p \in Publishers, NEW e \in Events, SendAcked(p, e), p = q
      PROVE  copies'[Current(q)'] > 0
  BY <1>3 DEF SendAcked, Current, SentIsOnTopic
<1>4. ASSUME NEW p \in Publishers, p = q,
             \/ ClaimSelect(p) \/ ClaimCommit(p) \/ SendFails(p) \/ MarkPublished(p)
             \/ MarkPublishedFails(p) \/ MarkFailed(p) \/ MarkFailedFails(p) \/ Crash(p)
      PROVE  FALSE
  BY <1>4 DEF ClaimSelect, ClaimCommit, SendFails, MarkPublished, MarkPublishedFails,
              MarkFailed, MarkFailedFails, Crash, NextCopy, TypeOK
<1>5. ASSUME NEW p \in Publishers, p # q, Local(p) \/ \E e \in Events : Append1(p, e)
      PROVE  pc'[q] = pc[q] /\ batch'[q] = batch[q]
  BY <1>5 DEF Local, Append1, ClaimSelect, ClaimCommit, SendAcked, SendFails,
              MarkPublished, MarkPublishedFails, MarkFailed, MarkFailedFails, Crash,
              NextCopy, TypeOK
<1>6. ASSUME (\E e \in Events : Commit(e) \/ Elapse(e)) \/ UNCHANGED vars
      PROVE  pc'[q] = pc[q] /\ batch'[q] = batch[q]
  BY <1>6 DEF Commit, Elapse, vars
<1> QED BY <1>1, <1>2, <1>3, <1>4, <1>5, <1>6 DEF Next, Local

LEMMA StepPublished == OutboxInv /\ [Next]_vars => PublishedIsOnTopic'
<1> SUFFICES ASSUME OutboxInv, [Next]_vars, NEW e \in Events,
                    row'[e].status = "PUBLISHED"
             PROVE  copies'[e] > 0
  BY DEF PublishedIsOnTopic
<1> USE DEF OutboxInv
<1>1. CASE row[e].status = "PUBLISHED"
  BY <1>1, CopiesGrow DEF PublishedIsOnTopic
<1>2. ASSUME NEW p \in Publishers, MarkPublished(p) PROVE copies'[e] > 0
  <2>1. CASE e = Current(p)
    BY <1>2, <2>1 DEF MarkPublished, SentIsOnTopic
  <2>2. CASE e # Current(p)
    <3>1. row'[e] = row[e]
      BY <1>2, <2>2 DEF MarkPublished, TypeOK
    <3> QED BY <1>1, <3>1
  <2> QED BY <2>1, <2>2
<1>3. ASSUME NEW p \in Publishers, MarkFailed(p) PROVE row[e].status = "PUBLISHED"
  BY <1>3, CurrentCopy DEF MarkFailed, TypeOK
<1>4. ASSUME NEW f \in Events, Commit(f) PROVE row[e].status = "PUBLISHED"
  BY <1>4 DEF Commit, TypeOK
<1>5. CASE row' = row
  BY <1>1, <1>5
<1> QED BY <1>1, <1>2, <1>3, <1>4, <1>5
        DEF Next, vars, Elapse, Local, Append1, ClaimSelect, ClaimCommit, SendAcked,
            SendFails, MarkPublishedFails, MarkFailedFails, Crash

LEMMA AlwaysOutbox == SafeSpec => []OutboxInv
<1>1. OutboxInv /\ [Next]_vars => OutboxInv'
  BY StepType, StepSent, StepPublished DEF OutboxInv
<1> QED BY InitOutbox, <1>1, PTL DEF SafeSpec

\* The types hold in every reachable state.
THEOREM OutboxTypes == SafeSpec => []TypeOK
BY AlwaysOutbox, PTL DEF OutboxInv

\* No event is lost: whatever the publishers, crashes and failed updates, a row
\* says PUBLISHED only when its message is on the topic.
THEOREM OutboxPublished == SafeSpec => []PublishedIsOnTopic
BY AlwaysOutbox, PTL DEF OutboxInv
-----------------------------------------------------------------------------
(* The refinement.                                                         *)

\* Every step of the outbox emits an event, delivers an emitted one for the
\* first time, or changes neither: the safety part of AtLeastOnce.
THEOREM OutboxRefines == SafeSpec => Delivery!SafeSpec
<1> DEFINE E == Committed
           D == {e \in Events : copies[e] > 0}
<1>1. Init => Delivery!Init
  BY DEF Init, Delivery!Init, Committed
<1>2. TypeOK /\ [Next]_vars => [Delivery!Next]_(Delivery!vars)
  <2> SUFFICES ASSUME TypeOK, [Next]_vars PROVE [Delivery!Next]_(Delivery!vars)
    OBVIOUS
  <2> USE DEF Delivery!Next, Delivery!vars, Delivery!Emit, Delivery!Deliver
  <2>1. ASSUME NEW e \in Events, Commit(e) PROVE Delivery!Emit(e)
    <3>1. E' = E \cup {e} /\ e \notin E
      BY <2>1 DEF Commit, Committed, TypeOK
    <3>2. D' = D
      BY <2>1 DEF Commit
    <3> QED BY <3>1, <3>2
  <2>2. ASSUME NEW p \in Publishers, NEW e \in Events, Append1(p, e)
        PROVE  Delivery!Deliver(e) \/ UNCHANGED <<E, D>>
    <3>1. E' = E /\ e \in E
      BY <2>2, CurrentCopy DEF Append1, Committed
    <3>2. D' = D \cup {e}
      BY <2>2, OutboxAssumption DEF Append1, SaturatingSucc, TypeOK
    <3> QED BY <3>1, <3>2
  <2>3. ASSUME NEW p \in Publishers, MarkPublished(p) \/ MarkFailed(p)
        PROVE  UNCHANGED <<E, D>>
    <3>1. Current(p) \in Committed /\ Current(p) \in Events
      BY <2>3, CurrentCopy DEF MarkPublished, MarkFailed
    <3>2. copies' = copies
      BY <2>3 DEF MarkPublished, MarkFailed
    <3>3. \A e \in Events : row'[e].status = "NONE" <=> row[e].status = "NONE"
      <4>1. CASE MarkPublished(p)
        BY <4>1, <3>1 DEF MarkPublished, TypeOK, Row, Committed
      <4>2. CASE MarkFailed(p)
        BY <4>2, <3>1 DEF MarkFailed, TypeOK, Row, Committed
      <4> QED BY <2>3, <4>1, <4>2
    <3> QED BY <3>2, <3>3 DEF Committed
  <2>4. CASE UNCHANGED <<row, copies>>
    <3>1. UNCHANGED <<E, D>>
      BY <2>4 DEF Committed
    <3> QED BY <3>1
  <2> QED BY <2>1, <2>2, <2>3, <2>4
          DEF Next, vars, Elapse, Local, ClaimSelect, ClaimCommit, SendAcked, SendFails,
              MarkPublishedFails, MarkFailedFails, Crash
<1> QED BY <1>1, <1>2, OutboxTypes, PTL DEF SafeSpec, Delivery!SafeSpec
-----------------------------------------------------------------------------
(* Events without overlapping copies.                                      *)

\* The copies in a batch are of different rows.  An event that is not shared
\* has its copy with one publisher, and that copy is of a row that is due, not
\* published, and has the copy's attempt count.  Nothing became due before
\* itself, which is why a claim does not return a row twice.
CopiesAreCurrent ==
  /\ \A e \in Events : <<e, e>> \notin older
  /\ \A e \in Events : row[e].status = "NONE" => row[e].attempts = 0
  /\ \A e \in Events \ shared, p, q \in Publishers :
       e \in ClaimedBy(p) /\ e \in ClaimedBy(q) => p = q
  /\ \A p \in Publishers : \A i \in DOMAIN batch[p] :
       /\ \A j \in DOMAIN batch[p] : i # j => batch[p][i].event # batch[p][j].event
       /\ batch[p][i].event \notin shared =>
            /\ row[batch[p][i].event].status \in {"PENDING", "FAILED"}
            /\ row[batch[p][i].event].attempts = batch[p][i].attempts
            /\ batch[p][i].event \in due

LEMMA OverlapIsOutbox == OverlapSafeSpec => SafeSpec
<1>1. [OverlapNext]_overlapVars => [Next]_vars
  BY DEF OverlapNext, Next, overlapVars
<1> QED BY <1>1, PTL DEF OverlapSafeSpec, OverlapInit, SafeSpec

\* An event that is not shared after a step, and of which somebody has a copy,
\* was not shared before.
LEMMA StillUnshared ==
  ASSUME Track, NEW p \in Publishers, NEW e \in Events, e \in ClaimedBy(p)', e \notin shared'
  PROVE  e \notin shared /\ \A q \in Publishers : e \in ClaimedBy(q)' => q = p
BY DEF Track

\* The copies a publisher has from before stay current in a step that changes
\* neither their rows nor whether they are due.
LEMMA KeptCopies ==
  ASSUME TypeOK, CopiesAreCurrent, Track,
         NEW q \in Publishers, NEW i \in DOMAIN batch'[q], NEW j \in DOMAIN batch[q],
         batch'[q][i] = batch[q][j],
         LET e == batch[q][j].event IN e \notin shared => row'[e] = row[e] /\ (e \in due => e \in due')
  PROVE  batch'[q][i].event \notin shared' =>
           /\ row'[batch'[q][i].event].status \in {"PENDING", "FAILED"}
           /\ row'[batch'[q][i].event].attempts = batch'[q][i].attempts
           /\ batch'[q][i].event \in due'
<1> DEFINE e == batch[q][j].event
<1>1. e \in Events /\ e \in ClaimedBy(q)'
  BY DEF TypeOK, ClaimedBy, Committed
<1> SUFFICES ASSUME e \notin shared'
             PROVE  /\ row'[e].status \in {"PENDING", "FAILED"}
                    /\ row'[e].attempts = batch[q][j].attempts /\ e \in due'
  OBVIOUS
<1>2. e \notin shared
  BY <1>1, StillUnshared
<1> QED BY <1>2 DEF CopiesAreCurrent

LEMMA StepCurrent ==
  TypeOK /\ CopiesAreCurrent /\ [OverlapNext]_overlapVars => CopiesAreCurrent'
<1> SUFFICES ASSUME TypeOK, CopiesAreCurrent, [OverlapNext]_overlapVars
             PROVE  CopiesAreCurrent'
  OBVIOUS
<1> DEFINE Distinct(q) == \A i, j \in DOMAIN batch'[q] :
             i # j => batch'[q][i].event # batch'[q][j].event
           Fresh(q) == \A i \in DOMAIN batch'[q] : batch'[q][i].event \notin shared' =>
             /\ row'[batch'[q][i].event].status \in {"PENDING", "FAILED"}
             /\ row'[batch'[q][i].event].attempts = batch'[q][i].attempts
             /\ batch'[q][i].event \in due'
           Rows == /\ \A e \in Events : <<e, e>> \notin older'
                   /\ \A e \in Events : row'[e].status = "NONE" => row'[e].attempts = 0
<1>0. /\ \A q \in Publishers : \A i \in DOMAIN batch[q] : batch[q][i].event \in Committed
      /\ \A q \in Publishers : \A i, j \in DOMAIN batch[q] :
           i # j => batch[q][i].event # batch[q][j].event
  BY DEF TypeOK, ClaimedBy, CopiesAreCurrent
<1>a. ASSUME Track, Rows, \A q \in Publishers : Distinct(q) /\ Fresh(q) PROVE CopiesAreCurrent'
  <2>1. \A e \in Events \ shared', p, q \in Publishers :
          e \in ClaimedBy(p)' /\ e \in ClaimedBy(q)' => p = q
    BY <1>a, StillUnshared
  <2> QED BY <1>a, <2>1 DEF CopiesAreCurrent
<1>b. ASSUME Track, NEW q \in Publishers, batch'[q] = batch[q],
             \A e \in Events \ shared : e \in ClaimedBy(q) =>
               row'[e] = row[e] /\ (e \in due => e \in due')
      PROVE  Distinct(q) /\ Fresh(q)
  <2>1. Distinct(q)
    BY <1>0, <1>b
  <2>2. ASSUME NEW i \in DOMAIN batch'[q], batch'[q][i].event \notin shared'
        PROVE  /\ row'[batch'[q][i].event].status \in {"PENDING", "FAILED"}
               /\ row'[batch'[q][i].event].attempts = batch'[q][i].attempts
               /\ batch'[q][i].event \in due'
    <3>1. /\ i \in DOMAIN batch[q] /\ batch[q][i].event \in Events
          /\ batch[q][i].event \in ClaimedBy(q)
      BY <1>0, <1>b, <2>2 DEF Committed, ClaimedBy
    <3> QED BY <1>b, <2>2, <3>1, KeptCopies
  <2> QED BY <2>1, <2>2
<1>1. ASSUME NEW e \in Events, Commit(e), Track PROVE CopiesAreCurrent'
  <2>1. Rows
    <3>1. e \notin due
      BY <1>1 DEF Commit, TypeOK, Committed
    <3> QED BY <1>1, <3>1 DEF Commit, CopiesAreCurrent, TypeOK
  <2>2. ASSUME NEW q \in Publishers PROVE Distinct(q) /\ Fresh(q)
    <3>1. e \notin ClaimedBy(q)
      BY <1>0, <1>1 DEF Commit, ClaimedBy, Committed
    <3>2. /\ batch'[q] = batch[q]
          /\ \A f \in Events : f # e => row'[f] = row[f] /\ (f \in due => f \in due')
      BY <1>1 DEF Commit, TypeOK
    <3> QED BY <1>1, <1>b, <3>1, <3>2
  <2> QED BY <1>1, <1>a, <2>1, <2>2
<1>2. ASSUME NEW e \in Events, Elapse(e), Track PROVE CopiesAreCurrent'
  <2>1. Rows
    BY <1>2 DEF Elapse, CopiesAreCurrent, TypeOK
  <2>2. ASSUME NEW q \in Publishers PROVE Distinct(q) /\ Fresh(q)
    BY <1>2, <1>b DEF Elapse
  <2> QED BY <1>2, <1>a, <2>1, <2>2
<1>3. ASSUME NEW p \in Publishers, ClaimSelect(p), Track PROVE CopiesAreCurrent'
  <2>1. PICK n \in 1..BatchSize : \E b \in [1..n -> Claimable] :
          /\ IsOldestFirst(b)
          /\ batch' = [batch EXCEPT ![p] =
               [i \in 1..n |-> [event |-> b[i], attempts |-> row[b[i]].attempts]]]
    BY <1>3 DEF ClaimSelect
  <2>2. PICK b \in [1..n -> Claimable] :
          /\ IsOldestFirst(b)
          /\ batch' = [batch EXCEPT ![p] =
               [i \in 1..n |-> [event |-> b[i], attempts |-> row[b[i]].attempts]]]
    BY <2>1
  <2> DEFINE c == [i \in 1..n |-> [event |-> b[i], attempts |-> row[b[i]].attempts]]
  <2>3. /\ DOMAIN c = 1..n /\ n \in Nat
        /\ \A i \in 1..n : /\ c[i].event = b[i] /\ c[i].attempts = row[b[i]].attempts
                           /\ b[i] \in Claimable
    BY OutboxAssumption
  <2>4. \A i, j \in 1..n : i < j => b[i] # b[j]
    <3> SUFFICES ASSUME NEW i \in 1..n, NEW j \in 1..n, i < j PROVE b[i] # b[j]
      OBVIOUS
    <3>1. b[i] \in Claimable
      OBVIOUS
    <3>2. b[i] \in Events
      BY <3>1 DEF Claimable, TypeOK, Committed
    <3>3. <<b[i], b[j]>> \in older
      BY <2>2 DEF IsOldestFirst
    <3> QED BY <3>2, <3>3 DEF CopiesAreCurrent
  <2>5. batch' = [batch EXCEPT ![p] = c]
    BY <2>2
  <2> HIDE DEF c
  <2>6. batch'[p] = c /\ UNCHANGED <<row, older, due>>
    BY <1>3, <2>5 DEF ClaimSelect, TypeOK
  <2>7. Distinct(p)
    <3> SUFFICES ASSUME NEW i \in DOMAIN c, NEW j \in DOMAIN c, i # j
                 PROVE  c[i].event # c[j].event
      BY <2>6
    <3> QED BY <2>3, <2>4
  <2>8. Fresh(p)
    <3> SUFFICES ASSUME NEW i \in DOMAIN c
                 PROVE  /\ row[c[i].event].status \in {"PENDING", "FAILED"}
                        /\ row[c[i].event].attempts = c[i].attempts
                        /\ c[i].event \in due
      BY <2>6
    <3>1. c[i].event \in Claimable
      BY <2>3
    <3> QED BY <2>3, <3>1 DEF Claimable
  <2>9. \A q \in Publishers \ {p} : Distinct(q) /\ Fresh(q)
    <3>1. \A q \in Publishers \ {p} : batch'[q] = batch[q]
      BY <2>5 DEF TypeOK
    <3> QED BY <1>3, <1>b, <2>6, <3>1
  <2>10. Rows
    BY <2>6 DEF CopiesAreCurrent
  <2> QED BY <1>3, <1>a, <2>7, <2>8, <2>9, <2>10
<1>4. ASSUME NEW p \in Publishers, MarkPublished(p) \/ MarkFailed(p), Track
      PROVE  CopiesAreCurrent'
  <2> DEFINE e == Current(p)
             c == Tail(batch[p])
  <2>1. /\ pc[p] # "idle" /\ e \in Events /\ e = batch[p][1].event
        /\ 1 \in DOMAIN batch[p] /\ e \in ClaimedBy(p)
    BY <1>4, CurrentCopy DEF MarkPublished, MarkFailed, Current
  <2>2. \A f \in Events \ {e} : row'[f] = row[f] /\ (f \in due => f \in due')
    BY <1>4, <2>1 DEF MarkPublished, MarkFailed, TypeOK
  <2>3. row'[e].status # "NONE" /\ older' \subseteq older
    <3>1. CASE MarkPublished(p)
      BY <2>1, <3>1 DEF MarkPublished, TypeOK, Row
    <3>2. CASE MarkFailed(p)
      BY <2>1, <3>2 DEF MarkFailed, TypeOK, Row
    <3> QED BY <1>4, <3>1, <3>2
  <2>4. \A i \in DOMAIN c :
          i \in Nat \ {0} /\ i + 1 \in DOMAIN batch[p] /\ c[i] = batch[p][i + 1]
    <3>1. c \in Seq(Claim)
      BY <2>1, RestOfBatch
    <3>2. DOMAIN c = 1..Len(c) /\ Len(c) \in Nat
      BY <3>1, LenProperties
    <3> QED BY <2>1, <3>2, RestOfBatch
  <2>5. batch'[p] = c /\ \A q \in Publishers \ {p} : batch'[q] = batch[q]
    BY <1>4 DEF MarkPublished, MarkFailed, NextCopy, TypeOK
  <2> HIDE DEF c, e
  <2>6. Rows
    BY <2>2, <2>3 DEF CopiesAreCurrent
  <2>7. Distinct(p)
    <3> SUFFICES ASSUME NEW i \in DOMAIN c, NEW j \in DOMAIN c, i # j
                 PROVE  c[i].event # c[j].event
      BY <2>5
    <3>1. i + 1 # j + 1
      BY <2>4
    <3> QED BY <1>0, <2>4, <3>1
  <2>8. Fresh(p)
    <3> SUFFICES ASSUME NEW i \in DOMAIN batch'[p], batch'[p][i].event \notin shared'
                 PROVE  /\ row'[batch'[p][i].event].status \in {"PENDING", "FAILED"}
                        /\ row'[batch'[p][i].event].attempts = batch'[p][i].attempts
                        /\ batch'[p][i].event \in due'
      OBVIOUS
    <3>1. i + 1 \in DOMAIN batch[p] /\ i + 1 # 1 /\ batch'[p][i] = batch[p][i + 1]
      BY <2>4, <2>5
    <3>2. batch[p][i + 1].event # e /\ batch[p][i + 1].event \in Events
      BY <1>0, <2>1, <3>1 DEF Committed
    <3> QED BY <1>4, <2>2, <3>1, <3>2, KeptCopies
  <2>9. ASSUME NEW q \in Publishers \ {p} PROVE Distinct(q) /\ Fresh(q)
    <3>1. \A f \in Events \ shared : f \in ClaimedBy(q) => f # e
      BY <2>1 DEF CopiesAreCurrent
    <3> QED BY <1>4, <1>b, <2>2, <2>5, <3>1
  <2> QED BY <1>4, <1>a, <2>6, <2>7, <2>8, <2>9
<1>5. ASSUME UNCHANGED <<row, older, due, batch>>, Track PROVE CopiesAreCurrent'
  <2>1. Rows
    BY <1>5 DEF CopiesAreCurrent
  <2> QED BY <1>5, <1>a, <1>b, <2>1
<1>6. ASSUME NEW p \in Publishers, MarkFailedFails(p) \/ Crash(p), Track
      PROVE  CopiesAreCurrent'
  <2>1. /\ batch'[p] = <<>> /\ UNCHANGED <<row, older, due>>
        /\ \A q \in Publishers \ {p} : batch'[q] = batch[q]
    BY <1>6 DEF MarkFailedFails, Crash, TypeOK
  <2>2. Rows
    BY <2>1 DEF CopiesAreCurrent
  <2>3. Distinct(p) /\ Fresh(p)
    BY <2>1
  <2>4. \A q \in Publishers \ {p} : Distinct(q) /\ Fresh(q)
    BY <1>6, <1>b, <2>1
  <2> QED BY <1>6, <1>a, <2>2, <2>3, <2>4
<1>7. CASE UNCHANGED overlapVars
  BY <1>7 DEF overlapVars, vars, CopiesAreCurrent, ClaimedBy
<1> HIDE DEF Distinct, Fresh, Rows
<1> QED BY <1>1, <1>2, <1>3, <1>4, <1>5, <1>6, <1>7
        DEF OverlapNext, Local, Append1, ClaimCommit, SendAcked, SendFails,
            MarkPublishedFails

LEMMA AlwaysCurrent == OverlapSafeSpec => [](TypeOK /\ CopiesAreCurrent)
<1>1. OverlapInit => CopiesAreCurrent
  BY DEF OverlapInit, Init, CopiesAreCurrent, ClaimedBy
<1>2. TypeOK /\ CopiesAreCurrent /\ [OverlapNext]_overlapVars => CopiesAreCurrent'
  BY StepCurrent
<1> QED BY <1>1, <1>2, OverlapIsOutbox, OutboxTypes, PTL DEF OverlapSafeSpec

\* With any number of publishers, events, failures and crashes the lifecycle of a
\* row ends at PUBLISHED, but for the rows with overlapping copies.
THEOREM OutboxPublishesOnce == OverlapSafeSpec => PublishedIsFinal
<1>1. ASSUME TypeOK, CopiesAreCurrent, OverlapNext, NEW e \in Events \ shared,
             row[e].status = "PUBLISHED"
      PROVE  row'[e].status = "PUBLISHED" /\ copies'[e] = copies[e]
  <2>1. \A p \in Publishers : pc[p] # "idle" => Current(p) # e
    BY <1>1, CurrentCopy DEF CopiesAreCurrent, Current
  <2>2. ASSUME NEW p \in Publishers, NEW f \in Events, Append1(p, f)
        PROVE  row' = row /\ copies'[e] = copies[e]
    BY <1>1, <2>1, <2>2 DEF Append1, TypeOK
  <2>3. ASSUME NEW p \in Publishers, MarkPublished(p) \/ MarkFailed(p)
        PROVE  row'[e] = row[e] /\ copies' = copies
    BY <1>1, <2>1, <2>3 DEF MarkPublished, MarkFailed, TypeOK
  <2>4. ASSUME NEW f \in Events, Commit(f) PROVE row'[e] = row[e] /\ copies' = copies
    BY <1>1, <2>4 DEF Commit, TypeOK
  <2> QED BY <1>1, <2>1, <2>2, <2>3, <2>4
          DEF OverlapNext, Elapse, Local, ClaimSelect, ClaimCommit, SendAcked, SendFails,
              MarkPublishedFails, MarkFailedFails, Crash
<1>2. TypeOK /\ CopiesAreCurrent /\ [OverlapNext]_overlapVars =>
        [\A e \in Events \ shared : row[e].status = "PUBLISHED" =>
           row'[e].status = "PUBLISHED" /\ copies'[e] = copies[e]]_overlapVars
  BY <1>1
<1> QED BY <1>2, AlwaysCurrent, PTL DEF OverlapSafeSpec, PublishedIsFinal

\* With any number of publishers every failed attempt counts and none is ever
\* forgotten, but for the rows with overlapping copies.
THEOREM OutboxCountsAttempts == OverlapSafeSpec => AttemptsNeverLost
<1>1. ASSUME TypeOK, CopiesAreCurrent, OverlapNext, NEW e \in Events \ shared
      PROVE  /\ row'[e].attempts >= row[e].attempts
             /\ e \in due \ due' =>
                  row'[e].attempts = SaturatingSucc(row[e].attempts, MaxAttempts)
  <2>0. row[e].attempts \in 0..MaxAttempts /\ MaxAttempts \in Nat
    BY <1>1, OutboxAssumption DEF TypeOK, Row
  <2>1. ASSUME NEW p \in Publishers, MarkFailed(p), e = Current(p)
        PROVE  row'[e].attempts = SaturatingSucc(row[e].attempts, MaxAttempts)
    <3>1. Head(batch[p]).attempts = row[e].attempts
      BY <1>1, <2>1, CurrentCopy DEF MarkFailed, CopiesAreCurrent, Current
    <3> QED BY <1>1, <2>1, <3>1 DEF MarkFailed, TypeOK
  <2>2. ASSUME NEW p \in Publishers, MarkFailed(p), e # Current(p)
        PROVE  row'[e] = row[e] /\ (e \in due => e \in due')
    BY <1>1, <2>2 DEF MarkFailed, TypeOK
  <2>3. ASSUME NEW p \in Publishers, MarkPublished(p)
        PROVE  row'[e].attempts = row[e].attempts /\ due' = due
    BY <1>1, <2>3 DEF MarkPublished, TypeOK, Row
  <2>4. ASSUME NEW f \in Events, Commit(f)
        PROVE  row'[e].attempts = row[e].attempts /\ due \subseteq due'
    BY <1>1, <2>4 DEF Commit, TypeOK, CopiesAreCurrent
  <2>5. ASSUME UNCHANGED row, due \subseteq due'
        PROVE  row'[e].attempts = row[e].attempts /\ due \subseteq due'
    BY <2>5
  <2>6. CASE row'[e].attempts = row[e].attempts /\ (e \in due => e \in due')
    BY <2>0, <2>6
  <2>7. CASE row'[e].attempts = SaturatingSucc(row[e].attempts, MaxAttempts)
    BY <2>0, <2>7 DEF SaturatingSucc
  <2> QED BY <1>1, <2>1, <2>2, <2>3, <2>4, <2>5, <2>6, <2>7
          DEF OverlapNext, Elapse, Append1, Local, ClaimSelect, ClaimCommit, SendAcked,
              SendFails, MarkPublishedFails, MarkFailedFails, Crash
<1>2. TypeOK /\ CopiesAreCurrent /\ [OverlapNext]_overlapVars =>
        [\A e \in Events \ shared :
           /\ row'[e].attempts >= row[e].attempts
           /\ e \in due \ due' =>
                row'[e].attempts = SaturatingSucc(row[e].attempts, MaxAttempts)]_overlapVars
  BY <1>1
<1> QED BY <1>2, AlwaysCurrent, PTL DEF OverlapSafeSpec, AttemptsNeverLost
=============================================================================
