--------------------------- MODULE Documents_proofs ---------------------------
(***************************************************************************)
(* FinalUnlessRaced, OneAward and UsesCounted for every set of documents   *)
(* and requests.  The first two: until a document changes under a request  *)
(* that has read it, it is as that request found it when it checked its    *)
(* status.  The third: whoever holds the lock of a promotion's row finds   *)
(* it as it was when the count was compared with the limit.                *)
(***************************************************************************)
EXTENDS Documents, FiniteSetTheorems, TLAPS

Types ==
  /\ row \in [Docs -> Row]
  /\ pc \in [Requests -> {"idle", "save", "update", "insert", "apply", "using", "done"}]
  /\ entity \in [Requests -> Row]
  /\ raced \subseteq Docs

\* The request is in a state its handler has.
Handlers ==
  \A r \in Requests :
    /\ pc[r] \in {"save", "update"} => Op[r] \in Unlocked
    /\ pc[r] = "insert" => Op[r] = "quote"
    /\ pc[r] = "apply" => Op[r] = "settle"
    /\ pc[r] = "using" => Op[r] = "use"

\* What was checked still holds of a document that did not change.
CheckedUnlessRaced ==
  \A r \in Requests : Doc[r] \notin raced =>
    /\ pc[r] \in {"save", "update"} => Allowed(r, row[Doc[r]])
    /\ pc[r] = "apply" => row[Doc[r]].status = "SUBMITTED"

IInv == Types /\ Handlers /\ CheckedUnlessRaced
-----------------------------------------------------------------------------
\* Handlers without a lock start from no final status.
LEMMA AllowedIsOpen ==
  ASSUME DocumentsAssumption, NEW r \in Requests, Op[r] \in Unlocked, NEW old \in Row,
         Allowed(r, old)
  PROVE  old.status \notin Final(Doc[r])
<1> USE DocumentsAssumption DEF DocumentsAssumption, Allowed, Final
<1>1. CASE Op[r] = "cancelJournal"
  BY <1>1
<1>2. CASE Op[r] = "updateLeave"
  BY <1>2
<1>3. CASE Op[r] = "updatePromotion"
  BY <1>3
<1>4. CASE Op[r] = "updateStatus"
  <2>1. Kind[Doc[r]] \in {"order", "request", "rfq"}
    BY <1>4
  <2>2. CASE Kind[Doc[r]] = "order"
    BY <1>4, <2>2 DEF Allows, OrderTransitions
  <2>3. CASE Kind[Doc[r]] = "request"
    BY <1>4, <2>3 DEF Allows, RequestTransitions
  <2>4. CASE Kind[Doc[r]] = "rfq"
    BY <1>4, <2>4 DEF Allows, RfqTransitions
  <2> QED BY <2>1, <2>2, <2>3, <2>4
<1> QED BY <1>1, <1>2, <1>3, <1>4 DEF Unlocked

\* What a step that writes rows has in common with the others.
Writes(r) ==
  /\ row' \in [Docs -> Row]
  /\ raced' = raced \cup
       {d \in Docs : row'[d] # row[d] /\ \E q \in Requests \ {r} : d \in HasRead(q)}
  /\ pc' = [pc EXCEPT ![r] = "done"]
  /\ entity' = [entity EXCEPT ![r] = Initial[Doc[r]]]

\* A request that has read a document which another one changes finds it among
\* the raced ones.
LEMMA WriteKeeps ==
  ASSUME DocumentsAssumption, IInv, NEW r \in Requests, Writes(r)
  PROVE  IInv'
<1> USE DocumentsAssumption DEF IInv, Writes
<1>1. Types'
  BY DEF Types, DocumentsAssumption
<1>2. Handlers'
  BY DEF Handlers, Types
<1>3. CheckedUnlessRaced'
  <2> SUFFICES ASSUME NEW q \in Requests, Doc[q] \notin raced',
                      pc'[q] \in {"save", "update", "apply"}
               PROVE  row'[Doc[q]] = row[Doc[q]] /\ pc'[q] = pc[q] /\ Doc[q] \notin raced
    BY DEF CheckedUnlessRaced, Types
  <2>1. q # r /\ pc'[q] = pc[q]
    BY DEF Types
  <2>2. Doc[q] \in HasRead(q) /\ Doc[q] \in Docs
    BY <2>1 DEF HasRead, Open, Handlers, Unlocked, DocumentsAssumption
  <2> QED BY <2>1, <2>2
<1> QED BY <1>1, <1>2, <1>3

\* A handler that writes writes rows, and no final one unless it is raced: the
\* locked ones have just checked, the others have checked what did not change.
LEMMA StepWrites ==
  ASSUME DocumentsAssumption, IInv, NEW r \in Requests,
         Post(r) \/ Decide(r) \/ CommitUse(r) \/ SaveUpdates(r) \/ InsertQuotation(r) \/ Settle(r)
  PROVE  /\ Writes(r)
         /\ \A d \in Docs : row[d].status \in Final(d) /\ row'[d] # row[d] => d \in raced
<1> USE DocumentsAssumption DEF IInv, Types, Writes, Write, Done, Goto
<1> DEFINE Result ==
      /\ Writes(r)
      /\ \A d \in Docs : row[d].status \in Final(d) /\ row'[d] # row[d] => d \in raced
<1>0. Doc[r] \in Docs /\ Goal[r] \in Status /\ row[Doc[r]] \in Row
  BY DEF DocumentsAssumption
<1>1. CASE Post(r)
  <2>1. Kind[Doc[r]] = "journal"
    BY <1>1 DEF Post, DocumentsAssumption
  <2>2. row' \in [Docs -> Row]
    <3> DEFINE e == [row[Doc[r]] EXCEPT !.status = "POSTED", !.content = r]
    <3>1. e \in Row
      BY <1>0 DEF Row, Status
    <3>2. row' = [row EXCEPT ![Doc[r]] = e]
      BY <1>0, <1>1 DEF Post
    <3> HIDE DEF e
    <3> QED BY <3>1, <3>2
  <2>3. \A d \in Docs : row'[d] # row[d] => d = Doc[r]
    BY <1>1 DEF Post
  <2> QED BY <1>1, <2>1, <2>2, <2>3 DEF Post, Final
<1>2. CASE Decide(r)
  <2>1. Kind[Doc[r]] = "leave"
    BY <1>2 DEF Decide, DocumentsAssumption
  <2>2. row' \in [Docs -> Row]
    BY <1>0, <1>2 DEF Decide, Row
  <2>3. \A d \in Docs : row'[d] # row[d] => d = Doc[r]
    BY <1>2 DEF Decide
  <2> QED BY <1>2, <2>1, <2>2, <2>3 DEF Decide, Final
<1>3. CASE CommitUse(r)
  <2>1. Kind[Doc[r]] = "promotion"
    BY <1>3 DEF CommitUse, Handlers, DocumentsAssumption
  <2>2. row' \in [Docs -> Row]
    <3>1. row[Doc[r]].uses \in Nat
      BY <1>0 DEF Row
    <3>2. row[Doc[r]].uses + 1 \in Nat
      BY <3>1
    <3>3. [row[Doc[r]] EXCEPT !.uses = @ + 1] \in Row
      BY <1>0, <3>2 DEF Row
    <3>4. row' = [row EXCEPT ![Doc[r]] = [row[Doc[r]] EXCEPT !.uses = @ + 1]]
      BY <1>3 DEF CommitUse
    <3> QED BY <3>3, <3>4
  <2>3. \A d \in Docs : row'[d] # row[d] => d = Doc[r]
    BY <1>3 DEF CommitUse
  <2> QED BY <1>3, <2>1, <2>2, <2>3 DEF CommitUse, Final
<1>4. CASE SaveUpdates(r)
  <2>1. Op[r] \in Unlocked /\ pc[r] = "update"
    BY <1>4 DEF SaveUpdates, Handlers
  <2>2. row' \in [Docs -> Row]
    <3> DEFINE now == row[Doc[r]]
               saved == [c \in DOMAIN now |->
                          IF entity[r][c] # seen[r][c] THEN entity[r][c] ELSE now[c]]
    <3>1. row' = [row EXCEPT ![Doc[r]] = saved]
      BY <1>4 DEF SaveUpdates
    <3>2. entity[r] \in Row /\ now \in Row
      BY <1>0
    <3>3. DOMAIN now = {"status", "content", "uses", "limit"}
      BY <3>2 DEF Row
    <3>4. saved \in Row
      BY <3>2, <3>3 DEF Row
    <3> QED BY <1>0, <3>1, <3>4
  <2>3. \A d \in Docs : row'[d] # row[d] => d = Doc[r]
    BY <1>4 DEF SaveUpdates
  <2>4. Doc[r] \notin raced => row[Doc[r]].status \notin Final(Doc[r])
    BY <2>1, <1>0, AllowedIsOpen DEF CheckedUnlessRaced
  <2> QED BY <1>4, <2>2, <2>3, <2>4 DEF SaveUpdates
<1>5. CASE InsertQuotation(r)
  <2>1. Kind[Doc[r]] = "quotation"
    BY <1>5 DEF InsertQuotation, Handlers, DocumentsAssumption
  <2>2. row' \in [Docs -> Row]
    BY <1>0, <1>5 DEF InsertQuotation, Row, Status
  <2>3. \A d \in Docs : row'[d] # row[d] => d = Doc[r]
    BY <1>5 DEF InsertQuotation
  <2> QED BY <1>5, <2>1, <2>2, <2>3 DEF InsertQuotation, Final
<1>6. CASE Settle(r)
  <2>1. Kind[Doc[r]] = "quotation" /\ RfqOf[Doc[r]] \in Docs
        /\ Kind[RfqOf[Doc[r]]] = "rfq"
    BY <1>6 DEF Settle, Handlers, DocumentsAssumption, OfKind
  <2>2. row' \in [Docs -> Row]
    <3>1. \A d \in Docs, s \in Status : [row[d] EXCEPT !.status = s] \in Row
      BY DEF Row
    <3>2. \A d \in Docs : Awarded(r, d) \in Row
      BY <3>1 DEF Awarded, Status
    <3>3. CASE Goal[r] = "AWARDED"
      BY <1>6, <3>2, <3>3 DEF Settle
    <3>4. CASE Goal[r] # "AWARDED"
      BY <1>0, <1>6, <3>1, <3>4 DEF Settle, Status
    <3> QED BY <3>3, <3>4
  <2>3. SUFFICES ASSUME NEW d \in Docs, row[d].status \in Final(d), row'[d] # row[d]
                 PROVE  d \in raced
    BY <1>6, <2>2 DEF Settle
  <2>4. CASE d = Doc[r]
    BY <1>6, <2>1, <2>3, <2>4 DEF Settle, Final, CheckedUnlessRaced
  <2>5. CASE d = RfqOf[Doc[r]] /\ d # Doc[r]
    <3>1. row[d].status = "CLOSED" /\ row[d] \in Row
      BY <2>1, <2>3, <2>5 DEF Final
    <3>2. row'[d] = row[d] \/ row'[d] = [row[d] EXCEPT !.status = "CLOSED"]
      BY <1>6, <2>5 DEF Settle, Awarded
    <3>3. [row[d] EXCEPT !.status = "CLOSED"] = row[d]
      BY <3>1 DEF Row
    <3> QED BY <2>3, <3>2, <3>3
  <2>6. CASE d # Doc[r] /\ d # RfqOf[Doc[r]]
    BY <1>6, <2>3, <2>6 DEF Settle, Final, Awarded
  <2> QED BY <2>4, <2>5, <2>6
<1> QED BY <1>1, <1>2, <1>3, <1>4, <1>5, <1>6

\* The other steps write no row; a handler notes what it has checked.
LEMMA StepReads ==
  ASSUME DocumentsAssumption, IInv, NEW r \in Requests,
         \/ Read(r) \/ SaveReads(r) \/ ReadRfq(r) \/ RefuseQuotation(r) \/ ReadQuotation(r)
         \/ LockPromotion(r) \/ RollbackUse(r)
  PROVE  IInv' /\ UNCHANGED <<row, raced>>
<1> USE DocumentsAssumption DEF IInv, Goto
<1>1. UNCHANGED <<row, raced>>
      /\ pc' \in [Requests -> {"idle", "save", "update", "insert", "apply", "using", "done"}]
  BY DEF Read, SaveReads, ReadRfq, RefuseQuotation, ReadQuotation, LockPromotion, RollbackUse, Done, Types
<1>2. \A q \in Requests : q # r => pc'[q] = pc[q]
  BY DEF Read, SaveReads, ReadRfq, RefuseQuotation, ReadQuotation, LockPromotion, RollbackUse, Done, Types
<1>3. Types'
  <2>1. CASE Read(r)
    <3>1. Doc[r] \in Docs /\ row[Doc[r]] \in Row /\ Goal[r] \in Status /\ Limit[r] \in Nat
      BY DEF Types, DocumentsAssumption
    <3>2. Assigned(r, row[Doc[r]]) \in Row
      BY <2>1, <3>1 DEF Read, Assigned, Row, Status, Unlocked
    <3> QED BY <1>1, <2>1, <3>2 DEF Read, Types
  <2>2. CASE ~Read(r)
    BY <1>1, <2>2 DEF Types, SaveReads, ReadRfq, RefuseQuotation, ReadQuotation, LockPromotion, RollbackUse, Done,
       DocumentsAssumption
  <2> QED BY <2>1, <2>2
<1>4. Handlers'
  BY <1>2 DEF Handlers, Types, Read, SaveReads, ReadRfq, RefuseQuotation, ReadQuotation, LockPromotion, RollbackUse, Done
<1>5. Doc[r] \notin raced =>
        /\ pc'[r] \in {"save", "update"} => Allowed(r, row[Doc[r]])
        /\ pc'[r] = "apply" => row[Doc[r]].status = "SUBMITTED"
  BY DEF CheckedUnlessRaced, Types, Read, SaveReads, ReadRfq, RefuseQuotation,
     ReadQuotation, LockPromotion, RollbackUse, Done
<1>6. \A q \in Requests : Allowed(q, row[Doc[q]])' <=> Allowed(q, row[Doc[q]])
  BY <1>1 DEF Allowed
<1>7. CheckedUnlessRaced'
  BY <1>1, <1>2, <1>5, <1>6 DEF CheckedUnlessRaced
<1> QED BY <1>1, <1>3, <1>4, <1>7

\* No request has read anything at the start.
LEMMA InitInv == Init => IInv
  BY DocumentsAssumption DEF Init, IInv, Types, Handlers, CheckedUnlessRaced,
     DocumentsAssumption

\* The invariant is inductive, and a step keeps what is final and not raced.
LEMMA NextInv ==
  IInv /\ [Next]_vars =>
    /\ IInv'
    /\ \A d \in Docs : row[d].status \in Final(d) /\ row'[d] # row[d] => d \in raced'
<1> SUFFICES ASSUME IInv, [Next]_vars
             PROVE  /\ IInv'
                    /\ \A d \in Docs : row[d].status \in Final(d) /\ row'[d] # row[d]
                         => d \in raced'
  OBVIOUS
<1>1. CASE UNCHANGED vars
  BY <1>1 DEF vars, IInv, Types, Handlers, CheckedUnlessRaced, Allowed
<1>2. CASE Next
  <2> PICK r \in Requests :
        \/ Post(r) \/ Decide(r) \/ LockPromotion(r) \/ CommitUse(r) \/ RollbackUse(r)
        \/ Read(r) \/ SaveReads(r) \/ SaveUpdates(r)
        \/ ReadRfq(r) \/ InsertQuotation(r) \/ RefuseQuotation(r)
        \/ ReadQuotation(r) \/ Settle(r)
    BY <1>2 DEF Next
  <2>1. CASE \/ Read(r) \/ SaveReads(r) \/ ReadRfq(r) \/ RefuseQuotation(r)
             \/ ReadQuotation(r) \/ LockPromotion(r) \/ RollbackUse(r)
    BY <2>1, StepReads, DocumentsAssumption
  <2>2. CASE \/ Post(r) \/ Decide(r) \/ CommitUse(r) \/ SaveUpdates(r) \/ InsertQuotation(r)
             \/ Settle(r)
    <3>1. Writes(r)
          /\ \A d \in Docs : row[d].status \in Final(d) /\ row'[d] # row[d] => d \in raced
      BY <2>2, StepWrites, DocumentsAssumption
    <3> QED BY <3>1, WriteKeeps, DocumentsAssumption DEF Writes
  <2> QED BY <2>1, <2>2
<1> QED BY <1>1, <1>2
-----------------------------------------------------------------------------
\* However requests overlap, a document in a final status is written again only
\* if it once changed between the read and the write of an unlocked handler.
THEOREM DocumentsFinal == Spec => FinalUnlessRaced
<1>1. IInv /\ [Next]_vars =>
        [\A d \in Docs : row[d].status \in Final(d) /\ row'[d] # row[d] => d \in raced']_row
  BY NextInv
<1> QED BY <1>1, InitInv, NextInv, PTL DEF Spec, FinalUnlessRaced
-----------------------------------------------------------------------------
Rfqs          == OfKind({"rfq"})
Quotations(f) == {q \in OfKind({"quotation"}) : RfqOf[q] = f}
Untouched(f)  == ({f} \cup Quotations(f)) \cap raced = {}

\* An award leaves nothing of its RFQ to award, and nobody about to add to it.
AwardsClose(f) ==
  /\ \A q \in Quotations(f) : row[q].status = "AWARDED" =>
       /\ row[f].status = "CLOSED"
       /\ \A p \in Quotations(f) :
            row[p].status # "SUBMITTED" /\ (row[p].status = "AWARDED" => p = q)
  /\ \A r \in Requests : pc[r] = "insert" /\ Doc[r] \in Quotations(f) =>
       row[f].status # "CLOSED"

AwardInv == \A f \in Rfqs : Untouched(f) => AwardsClose(f)

\* What a step does to the quotations of an RFQ that nobody has raced for.
LEMMA QuotationSteps ==
  ASSUME DocumentsAssumption, IInv, NEW r \in Requests,
         Post(r) \/ Decide(r) \/ CommitUse(r) \/ SaveUpdates(r) \/ InsertQuotation(r) \/ Settle(r)
  PROVE  \/ \A q \in OfKind({"quotation"}) : row'[q] = row[q]
         \/ /\ InsertQuotation(r) /\ pc[r] = "insert" /\ Doc[r] \in OfKind({"quotation"})
            /\ row' = [row EXCEPT ![Doc[r]].status = "SUBMITTED"]
         \/ /\ Settle(r) /\ Goal[r] = "AWARDED" /\ Doc[r] \in OfKind({"quotation"})
            /\ row' = [d \in Docs |-> Awarded(r, d)]
         \/ /\ Settle(r) /\ Doc[r] \in OfKind({"quotation"})
            /\ row' = [row EXCEPT ![Doc[r]].status = "REJECTED"]
<1> USE DocumentsAssumption DEF DocumentsAssumption, IInv, Types, Handlers, OfKind, Write
<1>1. CASE Post(r) \/ Decide(r) \/ CommitUse(r)
  BY <1>1 DEF Post, Decide, CommitUse
<1>2. CASE SaveUpdates(r)
  <2>1. Kind[Doc[r]] # "quotation"
    BY <1>2 DEF SaveUpdates, Unlocked
  <2> QED BY <1>2, <2>1 DEF SaveUpdates
<1>3. CASE InsertQuotation(r)
  BY <1>3 DEF InsertQuotation
<1>4. CASE Settle(r)
  BY <1>4 DEF Settle
<1> QED BY <1>1, <1>2, <1>3, <1>4

\* Writing a final row again needs a race; so does closing an RFQ that somebody
\* is about to send a quotation for.
LEMMA WriteKeepsAwards ==
  ASSUME DocumentsAssumption, IInv, AwardInv, NEW r \in Requests,
         Post(r) \/ Decide(r) \/ CommitUse(r) \/ SaveUpdates(r) \/ InsertQuotation(r) \/ Settle(r)
  PROVE  AwardInv'
<1>1. /\ Writes(r)
      /\ \A d \in Docs : row[d].status \in Final(d) /\ row'[d] # row[d] => d \in raced
  BY StepWrites
<1> SUFFICES ASSUME NEW f \in Rfqs, Untouched(f)'
             PROVE  AwardsClose(f)'
  BY DEF AwardInv, Rfqs, OfKind
<1>2. f \in Docs /\ Kind[f] = "rfq" /\ f \notin raced /\ f \notin raced' /\ Untouched(f)
      /\ \A q \in Quotations(f) : /\ q \in Docs /\ Kind[q] = "quotation" /\ RfqOf[q] = f
                                  /\ q \notin raced /\ q # f
  BY <1>1 DEF Untouched, Rfqs, OfKind, Quotations, Writes
<1>3. AwardsClose(f) /\ row \in [Docs -> Row] /\ row' \in [Docs -> Row]
  BY <1>1, <1>2 DEF AwardInv, IInv, Types, Writes
<1>4. row[f].status = "CLOSED" => row'[f].status = "CLOSED"
  BY <1>1, <1>2 DEF Final
<1>5. \A q \in Requests : pc'[q] = "insert" /\ Doc[q] \in Quotations(f) =>
        row'[f].status # "CLOSED"
  <2> SUFFICES ASSUME NEW q \in Requests, pc'[q] = "insert", Doc[q] \in Quotations(f)
               PROVE  row'[f].status # "CLOSED"
    OBVIOUS
  <2>1. q # r /\ pc[q] = "insert"
    BY <1>1 DEF Writes, IInv, Types
  <2>2. f \in HasRead(q)
    BY <2>1, <1>2 DEF HasRead, Open, IInv, Handlers
  <2>3. row'[f] = row[f]
    BY <1>1, <1>2, <2>1, <2>2 DEF Writes
  <2> QED BY <1>3, <2>1, <2>3 DEF AwardsClose
<1>6. \A q \in Quotations(f) : row'[q].status = "AWARDED" =>
        /\ row'[f].status = "CLOSED"
        /\ \A p \in Quotations(f) :
             row'[p].status # "SUBMITTED" /\ (row'[p].status = "AWARDED" => p = q)
  <2>1. CASE \A q \in OfKind({"quotation"}) : row'[q] = row[q]
    BY <2>1, <1>3, <1>4 DEF AwardsClose, Quotations
  <2>2. CASE /\ pc[r] = "insert" /\ Doc[r] \in OfKind({"quotation"})
             /\ row' = [row EXCEPT ![Doc[r]].status = "SUBMITTED"]
    <3>1. CASE Doc[r] \in Quotations(f)
      <4>1. \A q \in Quotations(f) : row[q].status # "AWARDED"
        BY <1>3, <2>2, <3>1 DEF AwardsClose
      <4> QED BY <1>2, <1>3, <2>2, <4>1
    <3>2. CASE Doc[r] \notin Quotations(f)
      BY <1>2, <1>3, <1>4, <2>2, <3>2 DEF AwardsClose
    <3> QED BY <3>1, <3>2
  <2>3. CASE /\ Settle(r) /\ Doc[r] \in OfKind({"quotation"})
             /\ row' = [d \in Docs |-> Awarded(r, d)]
    <3>1. CASE Doc[r] \in Quotations(f)
      <4>1. row[Doc[r]].status = "SUBMITTED"
        BY <1>2, <2>3, <3>1 DEF Settle, IInv, CheckedUnlessRaced
      <4>2. \A q \in Quotations(f) : row[q].status # "AWARDED"
        BY <1>3, <3>1, <4>1 DEF AwardsClose
      <4>3. row'[f].status = "CLOSED"
        BY <1>2, <1>3, <2>3, <3>1 DEF Awarded, Row
      <4>4. \A p \in Quotations(f) : p # Doc[r] =>
              row'[p].status # "SUBMITTED" /\ row'[p].status # "AWARDED"
        BY <1>2, <1>3, <2>3, <3>1, <4>2 DEF Awarded, Row
      <4>5. row'[Doc[r]].status = "AWARDED"
        BY <1>2, <1>3, <2>3, <3>1 DEF Awarded, Row
      <4> QED BY <4>3, <4>4, <4>5
    <3>2. CASE Doc[r] \notin Quotations(f)
      <4>1. RfqOf[Doc[r]] # f
        BY <2>3, <3>2 DEF Quotations
      <4>2. RfqOf[Doc[r]] \in Docs /\ Kind[RfqOf[Doc[r]]] = "rfq"
        BY <2>3, DocumentsAssumption DEF DocumentsAssumption, OfKind
      <4>3. \A q \in Quotations(f) : row'[q] = row[q]
        BY <1>2, <2>3, <3>2, <4>1, <4>2 DEF Awarded
      <4> QED BY <1>3, <1>4, <4>3 DEF AwardsClose
    <3> QED BY <3>1, <3>2
  <2>4. CASE /\ Doc[r] \in OfKind({"quotation"})
             /\ row' = [row EXCEPT ![Doc[r]].status = "REJECTED"]
    <3>1. \A q \in Quotations(f) : row'[q] = row[q] \/ row'[q].status = "REJECTED"
      BY <1>2, <1>3, <2>4 DEF Row
    <3> QED BY <1>3, <1>4, <3>1 DEF AwardsClose
  <2> QED BY <2>1, <2>2, <2>3, <2>4, QuotationSteps
<1>7. Quotations(f)' = Quotations(f)
  BY DEF Quotations, OfKind
<1> QED BY <1>5, <1>6, <1>7 DEF AwardsClose

\* A quotation is begun only for an RFQ that is open.
LEMMA ReadKeepsAwards ==
  ASSUME DocumentsAssumption, IInv, AwardInv, NEW r \in Requests,
         \/ Read(r) \/ SaveReads(r) \/ ReadRfq(r) \/ RefuseQuotation(r) \/ ReadQuotation(r)
         \/ LockPromotion(r) \/ RollbackUse(r)
  PROVE  AwardInv'
<1>1. UNCHANGED <<row, raced>>
  BY StepReads
<1> SUFFICES ASSUME NEW f \in Rfqs, Untouched(f)'
             PROVE  AwardsClose(f)'
  BY DEF AwardInv, Rfqs, OfKind
<1>2. AwardsClose(f)
  BY <1>1 DEF AwardInv, Untouched, Quotations, OfKind
<1>3. \A q \in Requests : pc'[q] = "insert" /\ Doc[q] \in Quotations(f) =>
        pc[q] = "insert" \/ row[f].status # "CLOSED"
  BY DEF IInv, Types, Goto, Read, SaveReads, ReadRfq, RefuseQuotation, ReadQuotation, LockPromotion, RollbackUse, Done,
     Quotations
<1> QED BY <1>1, <1>2, <1>3 DEF AwardsClose, Quotations, OfKind

\* Together with what the handlers have checked, that is inductive.
LEMMA AwardInductive ==
  /\ Init => IInv /\ AwardInv
  /\ IInv /\ AwardInv /\ [Next]_vars => (IInv /\ AwardInv)'
<1>1. Init => AwardInv
  BY DocumentsAssumption
     DEF Init, AwardInv, AwardsClose, Rfqs, Quotations, DocumentsAssumption
<1>2. ASSUME IInv, AwardInv, [Next]_vars
      PROVE  AwardInv'
  <2>1. CASE UNCHANGED vars
    BY <1>2, <2>1 DEF vars, AwardInv, AwardsClose, Untouched, Rfqs, Quotations, OfKind
  <2>2. CASE Next
    BY <1>2, <2>2, WriteKeepsAwards, ReadKeepsAwards, DocumentsAssumption DEF Next
  <2> QED BY <1>2, <2>1, <2>2
<1> QED BY <1>1, <1>2, InitInv, NextInv

\* However many awards, quotations and cancellations of one RFQ overlap, two are
\* awarded only if it or one of its quotations changed under a handler that had
\* read it (SupplierQuotationsService.create, updateStatus).
THEOREM DocumentsOneAward == Spec => []OneAward
<1>1. AwardInv => OneAward
  <2> SUFFICES ASSUME AwardInv, NEW f \in Rfqs, Untouched(f),
                      NEW q \in Quotations(f), row[q].status = "AWARDED"
               PROVE  /\ Cardinality({p \in Quotations(f) : row[p].status = "AWARDED"}) = 1
                      /\ row[f].status = "CLOSED"
    BY DEF OneAward, Rfqs, Untouched, Quotations
  <2>1. {p \in Quotations(f) : row[p].status = "AWARDED"} = {q} /\ row[f].status = "CLOSED"
    BY DEF AwardInv, AwardsClose
  <2> QED BY <2>1, FS_Singleton
<1> QED BY <1>1, AwardInductive, PTL DEF Spec
-----------------------------------------------------------------------------
Promotions == OfKind({"promotion"})
Users(d)   == {r \in sales : Doc[r] = d}
Asked(d)   == {r \in Doing({"updatePromotion"}) : Doc[r] = d /\ pc[r] # "idle"}
Limits(d)  == {Initial[d].limit} \cup {Limit[r] : r \in Asked(d)}

\* The sales are requests that are done, and they are finitely many.
SalesAreDone ==
  sales \subseteq {r \in Doing({"use"}) : pc[r] = "done"} /\ IsFiniteSet(sales)

\* A sale that has the promotion's row is the only one, and finds it as it was checked.
UsersHold ==
  \A r \in Requests : pc[r] = "using" =>
    /\ Usable(Doc[r])
    /\ \A q \in Requests : pc[q] = "using" /\ Doc[q] = Doc[r] => q = r

\* An update() that no use overtook saves the usageCount that its save() finds.
SavesNoCount ==
  /\ seen \in [Requests -> Row]
  /\ \A r \in Doing({"updatePromotion"}) :
       /\ pc[r] \in {"save", "update"} => entity[r].limit = Limit[r]
       /\ Doc[r] \notin overtaken =>
            /\ pc[r] = "save" => entity[r].uses = row[Doc[r]].uses
            /\ pc[r] = "update" => entity[r].uses = seen[r].uses

\* So that every use is counted, and finds one of the limits.
CountAndLimit ==
  \A d \in Promotions :
    /\ row[d].limit \in Limits(d)
    /\ d \notin overtaken =>
         /\ row[d].uses = Cardinality(Users(d))
         /\ \E n \in Limits(d) : n = 0 \/ row[d].uses <= n

UsesInv == SalesAreDone /\ UsersHold /\ SavesNoCount /\ CountAndLimit

\* What a step that writes does to a promotion.
LEMMA PromotionSteps ==
  ASSUME DocumentsAssumption, IInv, SavesNoCount, NEW r \in Requests,
         Post(r) \/ Decide(r) \/ CommitUse(r) \/ SaveUpdates(r) \/ InsertQuotation(r)
           \/ Settle(r),
         NEW d \in Promotions
  PROVE  \/ row'[d] = row[d] /\ ~(CommitUse(r) /\ Doc[r] = d)
         \/ /\ CommitUse(r) /\ Doc[r] = d
            /\ row'[d].uses = row[d].uses + 1 /\ row'[d].limit = row[d].limit
         \/ /\ SaveUpdates(r) /\ Doc[r] = d /\ r \in Doing({"updatePromotion"})
            /\ pc[r] = "update" /\ Free(d)
            /\ row'[d].limit \in {row[d].limit, Limit[r]}
            /\ d \notin overtaken => row'[d].uses = row[d].uses
<1> USE DocumentsAssumption DEF Promotions, OfKind
<1>0. d \in Docs /\ Kind[d] = "promotion" /\ row[d] \in Row /\ row \in [Docs -> Row]
      /\ Doc[r] \in Docs
  BY DEF IInv, Types, DocumentsAssumption
<1>1. CASE Post(r) \/ Decide(r) \/ InsertQuotation(r)
  <2>1. Doc[r] # d /\ ~CommitUse(r)
    BY <1>0, <1>1 DEF Post, Decide, InsertQuotation, CommitUse, IInv, Handlers,
                      DocumentsAssumption
  <2>2. row'[d] = row[d]
    BY <1>0, <1>1, <2>1 DEF Post, Decide, InsertQuotation, Write
  <2> QED BY <2>1, <2>2
<1>2. CASE CommitUse(r)
  <2>1. row' = [row EXCEPT ![Doc[r]].uses = @ + 1]
    BY <1>2 DEF CommitUse, Write
  <2>2. CASE Doc[r] = d
    <3>1. row'[d] = [row[d] EXCEPT !.uses = @ + 1]
      BY <1>0, <2>1, <2>2
    <3> QED BY <1>0, <1>2, <2>2, <3>1 DEF Row
  <2>3. CASE Doc[r] # d
    BY <1>0, <2>1, <2>3
  <2> QED BY <2>2, <2>3
<1>3. CASE SaveUpdates(r)
  <2> DEFINE saved == [c \in DOMAIN row[Doc[r]] |->
                        IF entity[r][c] # seen[r][c] THEN entity[r][c] ELSE row[Doc[r]][c]]
  <2>1. row' = [row EXCEPT ![Doc[r]] = saved] /\ pc[r] = "update" /\ Free(Doc[r])
    BY <1>3 DEF SaveUpdates, Write
  <2>2. CASE Doc[r] = d
    <3>1. r \in Doing({"updatePromotion"})
      BY <1>0, <2>1, <2>2 DEF IInv, Handlers, Unlocked, DocumentsAssumption, Doing
    <3>2. /\ entity[r].limit = Limit[r]
          /\ d \notin overtaken => entity[r].uses = seen[r].uses
      BY <2>1, <2>2, <3>1 DEF SavesNoCount
    <3>3. row'[d] = saved /\ DOMAIN row[Doc[r]] = {"status", "content", "uses", "limit"}
      BY <1>0, <2>1, <2>2 DEF Row
    <3>4. /\ saved.limit \in {row[d].limit, Limit[r]}
          /\ d \notin overtaken => saved.uses = row[d].uses
      BY <2>2, <3>2, <3>3
    <3> QED BY <1>3, <2>1, <2>2, <3>1, <3>3, <3>4
  <2>3. CASE Doc[r] # d
    <3>1. row'[d] = row[d]
      BY <1>0, <2>1, <2>3
    <3> QED BY <2>3, <3>1
  <2> QED BY <2>2, <2>3
<1>4. CASE Settle(r)
  <2>1. Doc[r] # d /\ Kind[Doc[r]] = "quotation"
        /\ RfqOf[Doc[r]] # d /\ RfqOf[Doc[r]] \in Docs
    BY <1>0, <1>4 DEF Settle, IInv, Handlers, DocumentsAssumption
  <2>2. row'[d] = row[d]
    BY <1>0, <1>4, <2>1 DEF Settle, Write, Awarded
  <2> QED BY <2>1, <2>2
<1> QED BY <1>1, <1>2, <1>3, <1>4

\* A step that writes counts a sale where it adds one, and leaves alone what a sale
\* has locked.
LEMMA WriteKeepsUses ==
  ASSUME DocumentsAssumption, IInv, UsesInv, NEW r \in Requests,
         Post(r) \/ Decide(r) \/ CommitUse(r) \/ SaveUpdates(r) \/ InsertQuotation(r)
           \/ Settle(r)
  PROVE  UsesInv'
<1>1. Writes(r) /\ seen' = [seen EXCEPT ![r] = Initial[Doc[r]]]
  <2>1. Writes(r)
    BY StepWrites
  <2>2. Done(r)
    BY DEF Post, Decide, CommitUse, SaveUpdates, InsertQuotation, Settle
  <2> QED BY <2>1, <2>2 DEF Done
<1>2. /\ pc \in [Requests -> {"idle", "save", "update", "insert", "apply", "using", "done"}]
      /\ Doc[r] \in Docs /\ pc'[r] = "done"
      /\ \A q \in Requests : q # r => pc'[q] = pc[q]
  BY <1>1 DEF IInv, Types, Writes, DocumentsAssumption
<1>3. sales' = IF CommitUse(r) THEN sales \cup {r} ELSE sales
  BY DEF Post, Decide, CommitUse, SaveUpdates, InsertQuotation, Settle, IInv, Handlers
<1>4. CommitUse(r) => r \notin sales /\ Op[r] = "use" /\ pc[r] = "using"
  BY DEF CommitUse, UsesInv, SalesAreDone, Doing, IInv, Handlers
<1>5. SalesAreDone'
  <2>1. IsFiniteSet(sales')
    BY <1>3, FS_AddElement DEF UsesInv, SalesAreDone
  <2> QED BY <1>2, <1>3, <1>4, <2>1 DEF UsesInv, SalesAreDone, Doing
<1>6. /\ overtaken \subseteq overtaken'
      /\ \A q \in Requests : CommitUse(r) /\ pc[q] = "save" /\ Doc[q] = Doc[r]
           => Doc[q] \in overtaken'
  BY DEF Post, Decide, CommitUse, SaveUpdates, InsertQuotation, Settle
<1>7. UsersHold'
  <2> SUFFICES ASSUME NEW q \in Requests, pc'[q] = "using"
               PROVE  row'[Doc[q]] = row[Doc[q]]
    BY <1>2 DEF UsesInv, UsersHold, Usable
  <2>1. q # r /\ pc[q] = "using" /\ Doc[q] \in Promotions
    BY <1>2, DocumentsAssumption
    DEF IInv, Handlers, Promotions, OfKind, DocumentsAssumption
  <2>2. ~(CommitUse(r) /\ Doc[r] = Doc[q])
    BY <1>4, <2>1 DEF UsesInv, UsersHold
  <2>3. ~Free(Doc[q])
    BY <2>1 DEF Free
  <2> QED BY <2>1, <2>2, <2>3, PromotionSteps DEF UsesInv
<1>8. \A d \in Promotions :
        ~(CommitUse(r) /\ Doc[r] = d) /\ d \notin overtaken => row'[d].uses = row[d].uses
  <2> SUFFICES ASSUME NEW d \in Promotions, ~(CommitUse(r) /\ Doc[r] = d), d \notin overtaken
               PROVE  row'[d].uses = row[d].uses
    OBVIOUS
  <2> QED BY PromotionSteps DEF UsesInv
<1>9. SavesNoCount'
  <2>0. seen' \in [Requests -> Row]
    BY <1>1, <1>2, DocumentsAssumption DEF UsesInv, SavesNoCount, DocumentsAssumption
  <2> SUFFICES ASSUME NEW q \in Doing({"updatePromotion"}), pc'[q] \in {"save", "update"}
               PROVE  /\ entity'[q].limit = Limit[q]
                      /\ Doc[q] \notin overtaken' =>
                           /\ pc'[q] = "save" => entity'[q].uses = row'[Doc[q]].uses
                           /\ pc'[q] = "update" => entity'[q].uses = seen'[q].uses
    BY <2>0 DEF SavesNoCount, Doing
  <2>1. /\ q \in Requests /\ q # r /\ pc'[q] = pc[q] /\ Op[q] = "updatePromotion"
        /\ Doc[q] \in Promotions
    BY <1>2, DocumentsAssumption DEF Doing, Promotions, OfKind, DocumentsAssumption
  <2>2. entity'[q] = entity[q] /\ seen'[q] = seen[q]
    BY <1>1, <2>1 DEF Writes, IInv, Types, UsesInv, SavesNoCount
  <2>3. /\ entity[q].limit = Limit[q]
        /\ Doc[q] \notin overtaken =>
             /\ pc[q] = "save" => entity[q].uses = row[Doc[q]].uses
             /\ pc[q] = "update" => entity[q].uses = seen[q].uses
    BY <2>1 DEF UsesInv, SavesNoCount
  <2>4. pc[q] = "save" /\ Doc[q] \notin overtaken' => row'[Doc[q]].uses = row[Doc[q]].uses
    BY <1>6, <1>8, <2>1
  <2> QED BY <1>6, <2>1, <2>2, <2>3, <2>4
<1>10. CountAndLimit'
  <2> SUFFICES ASSUME NEW d \in Promotions
               PROVE  /\ row'[d].limit \in Limits(d)'
                      /\ d \notin overtaken' =>
                           /\ row'[d].uses = Cardinality(Users(d)')
                           /\ \E n \in Limits(d)' : n = 0 \/ row'[d].uses <= n
    BY DEF CountAndLimit, Promotions, OfKind
  <2>1. d \in Docs /\ row[d] \in Row
    BY DEF Promotions, OfKind, IInv, Types
  <2>2. /\ row[d].limit \in Limits(d) /\ IsFiniteSet(Users(d))
        /\ d \notin overtaken => /\ row[d].uses = Cardinality(Users(d))
                                 /\ \E n \in Limits(d) : n = 0 \/ row[d].uses <= n
    <3>1. IsFiniteSet(Users(d))
      BY FS_Subset DEF UsesInv, SalesAreDone, Users
    <3> QED BY <3>1 DEF UsesInv, CountAndLimit
  <2>3. /\ Limits(d) \subseteq Limits(d)'
        /\ r \in Doing({"updatePromotion"}) /\ Doc[r] = d => Limit[r] \in Limits(d)'
    <3>1. Asked(d) \subseteq Asked(d)'
      BY <1>2 DEF Asked, Doing
    <3>2. r \in Doing({"updatePromotion"}) /\ Doc[r] = d => r \in Asked(d)'
      BY <1>2 DEF Asked, Doing
    <3> QED BY <3>1, <3>2 DEF Limits
  <2>4. CASE row'[d] = row[d] /\ ~(CommitUse(r) /\ Doc[r] = d)
    <3>1. Users(d)' = Users(d)
      BY <1>3, <2>4 DEF Users
    <3> QED BY <1>6, <2>2, <2>3, <2>4, <3>1
  <2>5. CASE /\ CommitUse(r) /\ Doc[r] = d
             /\ row'[d].uses = row[d].uses + 1 /\ row'[d].limit = row[d].limit
    <3>1. Users(d)' = Users(d) \cup {r} /\ r \notin Users(d)
      BY <1>3, <1>4, <2>5 DEF Users
    <3>2. Cardinality(Users(d)') = Cardinality(Users(d)) + 1
      <4>1. Cardinality(Users(d) \cup {r}) = Cardinality(Users(d)) + 1
        BY <2>2, <3>1, FS_AddElement
      <4> QED BY <3>1, <4>1
    <3>3. row[d].limit = 0 \/ row'[d].uses <= row[d].limit
      BY <1>4, <2>1, <2>5 DEF UsesInv, UsersHold, Usable, Row
    <3> QED BY <1>6, <2>2, <2>3, <2>5, <3>2, <3>3
  <2>6. CASE /\ SaveUpdates(r) /\ Doc[r] = d /\ r \in Doing({"updatePromotion"})
             /\ pc[r] = "update" /\ Free(d)
             /\ row'[d].limit \in {row[d].limit, Limit[r]}
             /\ d \notin overtaken => row'[d].uses = row[d].uses
    <3>1. Users(d)' = Users(d)
      BY <1>3, <1>4, <2>6 DEF Users
    <3> QED BY <1>6, <2>2, <2>3, <2>6, <3>1
  <2> QED BY <2>4, <2>5, <2>6, PromotionSteps DEF UsesInv
<1> QED BY <1>5, <1>7, <1>9, <1>10 DEF UsesInv

\* A handler reads the row as it is, and save() reads it again.
LEMMA ReadKeepsUses ==
  ASSUME DocumentsAssumption, IInv, UsesInv, NEW r \in Requests,
         \/ Read(r) \/ SaveReads(r) \/ ReadRfq(r) \/ RefuseQuotation(r) \/ ReadQuotation(r)
         \/ LockPromotion(r) \/ RollbackUse(r)
  PROVE  UsesInv'
<1>1. UNCHANGED <<row, sales, overtaken>>
  BY DEF Read, SaveReads, ReadRfq, RefuseQuotation, ReadQuotation, LockPromotion, RollbackUse
<1>0. /\ pc \in [Requests -> {"idle", "save", "update", "insert", "apply", "using", "done"}]
      /\ entity \in [Requests -> Row] /\ seen \in [Requests -> Row]
      /\ row[Doc[r]] \in Row /\ Initial[Doc[r]] \in Row
  BY DocumentsAssumption DEF IInv, Types, UsesInv, SavesNoCount, DocumentsAssumption
<1>2. /\ pc[r] # "done" /\ pc'[r] # "idle" /\ seen' \in [Requests -> Row]
      /\ \A q \in Requests : q # r => /\ pc'[q] = pc[q] /\ entity'[q] = entity[q]
                                      /\ seen'[q] = seen[q]
  BY <1>0 DEF Read, SaveReads, ReadRfq, RefuseQuotation, ReadQuotation, LockPromotion,
              RollbackUse, Done, Goto
<1>3. SalesAreDone'
  BY <1>1, <1>2 DEF UsesInv, SalesAreDone, Doing
<1>4. UsersHold'
  <2>1. pc'[r] = "using" => LockPromotion(r)
    BY <1>0 DEF Read, SaveReads, ReadRfq, RefuseQuotation, ReadQuotation, RollbackUse, Done,
                Goto
  <2>2. LockPromotion(r) => /\ Usable(Doc[r])
                            /\ \A q \in Requests : ~(pc[q] = "using" /\ Doc[q] = Doc[r])
    BY DEF LockPromotion, Free
  <2>3. \A d : Usable(d)' <=> Usable(d)
    BY <1>1 DEF Usable
  <2>4. ASSUME NEW q \in Requests, pc'[q] = "using" PROVE Usable(Doc[q])
    BY <1>2, <2>1, <2>2, <2>4 DEF UsesInv, UsersHold
  <2>5. ASSUME NEW p \in Requests, NEW q \in Requests, pc'[p] = "using", pc'[q] = "using",
               Doc[p] = Doc[q]
        PROVE  p = q
    BY <1>2, <2>1, <2>2, <2>5 DEF UsesInv, UsersHold
  <2> QED BY <1>1, <2>4, <2>5 DEF UsersHold, Usable
<1>5. Op[r] = "updatePromotion" =>
        /\ pc'[r] \in {"save", "update"} => entity'[r].limit = Limit[r]
        /\ Doc[r] \notin overtaken =>
             /\ pc'[r] = "save" => entity'[r].uses = row[Doc[r]].uses
             /\ pc'[r] = "update" => entity'[r].uses = seen'[r].uses
  <2>1. CASE Read(r) /\ Op[r] = "updatePromotion"
    <3>1. pc'[r] = "save" /\ entity'[r] = Assigned(r, row[Doc[r]])
      BY <1>0, <2>1 DEF Read, Goto
    <3>2. Assigned(r, row[Doc[r]]).limit = Limit[r]
          /\ Assigned(r, row[Doc[r]]).uses = row[Doc[r]].uses
      <4>1. Assigned(r, row[Doc[r]]) = [row[Doc[r]] EXCEPT !.content = r, !.status = Goal[r],
                                                           !.limit = Limit[r]]
        BY <2>1 DEF Assigned
      <4> QED BY <1>0, <4>1 DEF Row
    <3> QED BY <3>1, <3>2
  <2>2. CASE SaveReads(r)
    BY <1>0, <2>2 DEF SaveReads, Goto, UsesInv, SavesNoCount, Doing
  <2>3. CASE ReadRfq(r) \/ RefuseQuotation(r) \/ ReadQuotation(r) \/ LockPromotion(r)
             \/ RollbackUse(r)
    BY <1>0, <2>3 DEF ReadRfq, RefuseQuotation, ReadQuotation, LockPromotion, RollbackUse,
                      Done, Goto
  <2> QED BY <2>1, <2>2, <2>3
<1>6. SavesNoCount'
  <2> SUFFICES ASSUME NEW q \in Doing({"updatePromotion"})
               PROVE  /\ pc'[q] \in {"save", "update"} => entity'[q].limit = Limit[q]
                      /\ Doc[q] \notin overtaken =>
                           /\ pc'[q] = "save" => entity'[q].uses = row[Doc[q]].uses
                           /\ pc'[q] = "update" => entity'[q].uses = seen'[q].uses
    BY <1>1, <1>2 DEF SavesNoCount, Doing
  <2> QED BY <1>2, <1>5 DEF UsesInv, SavesNoCount, Doing
<1>7. CountAndLimit'
  <2>1. \A d \in Promotions : Limits(d) \subseteq Limits(d)' /\ Users(d)' = Users(d)
    BY <1>1, <1>2 DEF Limits, Asked, Users, Doing
  <2> QED BY <1>1, <2>1 DEF UsesInv, CountAndLimit, Promotions, OfKind
<1> QED BY <1>3, <1>4, <1>6, <1>7 DEF UsesInv

\* At the start nothing was used.
LEMMA UsesInductive ==
  /\ Init => IInv /\ UsesInv
  /\ IInv /\ UsesInv /\ [Next]_vars => (IInv /\ UsesInv)'
<1>1. ASSUME Init
      PROVE  UsesInv
  <2>1. sales = {} /\ row = Initial /\ pc = [r \in Requests |-> "idle"]
    BY <1>1 DEF Init
  <2>2. SalesAreDone /\ UsersHold /\ SavesNoCount
    BY <1>1, <2>1, FS_EmptySet, DocumentsAssumption
       DEF Init, SalesAreDone, UsersHold, SavesNoCount, Doing, DocumentsAssumption
  <2>3. ASSUME NEW d \in Promotions
        PROVE  /\ row[d].limit \in Limits(d)
               /\ row[d].uses = Cardinality(Users(d))
               /\ \E n \in Limits(d) : n = 0 \/ row[d].uses <= n
    <3>1. Users(d) = {} /\ row[d].limit \in Limits(d) /\ row[d].limit \in Nat
          /\ row[d].uses = 0
      BY <2>1, <2>3, DocumentsAssumption, PromotionsAssumption
         DEF Users, Limits, Promotions, OfKind, DocumentsAssumption, PromotionsAssumption, Row
    <3> QED BY <3>1, FS_EmptySet
  <2> QED BY <2>2, <2>3 DEF UsesInv, CountAndLimit
<1>2. ASSUME IInv, UsesInv, [Next]_vars
      PROVE  UsesInv'
  <2>1. CASE UNCHANGED vars
    BY <1>2, <2>1 DEF vars, UsesInv, SalesAreDone, UsersHold, SavesNoCount, CountAndLimit,
       Users, Asked, Limits, Usable, Promotions, OfKind, Doing
  <2>2. CASE Next
    BY <1>2, <2>2, WriteKeepsUses, ReadKeepsUses, DocumentsAssumption DEF Next
  <2> QED BY <1>2, <2>1, <2>2
<1> QED BY <1>1, <1>2, InitInv, NextInv

\* However sales and update() overlap, usageCount is the number of sales that used the
\* promotion and stays within a limit that it had or was to have: sales check and count
\* under the lock of its row, and update() writes the count only if a use committed
\* between its first read and its save()'s.
THEOREM DocumentsUsesCounted == Spec => []UsesCounted
<1>1. UsesInv => UsesCounted
  BY DEF UsesInv, CountAndLimit, UsesCounted, Users, Asked, Limits, Promotions
<1> QED BY <1>1, UsesInductive, PTL DEF Spec
=============================================================================
