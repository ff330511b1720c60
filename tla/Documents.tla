------------------------------ MODULE Documents ------------------------------
(***************************************************************************)
(* Documents with a status, and the requests that change it: manual        *)
(* journal entries, leave requests, promotions and the sales that use      *)
(* them, online orders, purchase requests, RFQs and supplier quotations.   *)
(*                                                                         *)
(* Some handlers lock the row, check and write in one transaction: nobody  *)
(* can come between, so that each is one step.  The others read the row    *)
(* without a lock, check what they read and save() the entity later.       *)
(* TypeORM's save() reads the row again and updates the columns in which   *)
(* the entity differs from that second read.  A quotation's award checks   *)
(* an unlocked read too, and then updates rows by statements of its own.   *)
(***************************************************************************)
EXTENDS Naturals, FiniteSets

CONSTANTS
  Docs,      \* the documents
  Kind,      \* kind of each
  Initial,   \* row of each at the start
  RfqOf,     \* RFQ of each quotation
  Requests,  \* the HTTP requests
  Op,        \* the handler each calls
  Doc,       \* with which document
  Goal,      \* the status it asks for
  Limit,     \* the usageLimit it asks for
  MaxOpen,   \* requests that may be under way at one time
  MaxSent    \* requests that are sent at all

Kinds    == {"journal", "leave", "promotion", "order", "request", "rfq", "quotation"}
Locked   == {"post", "decide"}
Unlocked == {"cancelJournal", "updateLeave", "updatePromotion", "updateStatus"}
Ops      == Locked \cup Unlocked \cup {"use", "settle", "quote"}

Status == {"NONE", "DRAFT", "POSTED", "CANCELLED", "PENDING", "APPROVED", "REJECTED",
           "ACTIVE", "INACTIVE", "PENDING_REVIEW", "CONFIRMED", "PACKED", "ON_MY_WAY",
           "DELIVERED", "SUBMITTED", "CONVERTED", "SENT", "CLOSED", "AWARDED"}

\* content stands for the other columns a request may write: dates, totals, names.
\* uses and limit are a promotion's usageCount and usageLimit; the numbers asked for
\* are at least 1, so that a limit of 0 can stand for NULL.
Row == [status : Status, content : Requests \cup Docs, uses : Nat, limit : Nat]

Doing(ops)    == {r \in Requests : Op[r] \in ops}
OfKind(kinds) == {d \in Docs : Kind[d] \in kinds}

ASSUME DocumentsAssumption ==
  /\ Kind \in [Docs -> Kinds] /\ Initial \in [Docs -> Row]
  /\ RfqOf \in [OfKind({"quotation"}) -> OfKind({"rfq"})]
  /\ Op \in [Requests -> Ops] /\ Doc \in [Requests -> Docs]
  /\ Goal \in [Requests -> Status] /\ Limit \in [Requests -> Nat]
  /\ \A q \in OfKind({"quotation"}) : Initial[q].status \in {"NONE", "SUBMITTED"}
  /\ MaxOpen \in Nat /\ MaxSent \in Nat
  /\ \A r \in Requests :
       CASE Op[r] \in {"post", "cancelJournal"} -> Kind[Doc[r]] = "journal"
         [] Op[r] = "updateLeave" -> Kind[Doc[r]] = "leave"
         [] Op[r] = "decide" -> Kind[Doc[r]] = "leave"
                                /\ Goal[r] \in {"APPROVED", "REJECTED", "CANCELLED"}
         [] Op[r] = "use" -> Kind[Doc[r]] = "promotion"
         [] Op[r] = "updatePromotion" -> Kind[Doc[r]] = "promotion"
                                         /\ Goal[r] \in {"ACTIVE", "INACTIVE"}
         [] Op[r] = "updateStatus" -> Kind[Doc[r]] \in {"order", "request", "rfq"}
         [] Op[r] = "settle" -> Kind[Doc[r]] = "quotation"
                                /\ Goal[r] \in {"AWARDED", "REJECTED"}
         [] Op[r] = "quote" -> Kind[Doc[r]] = "quotation"

\* create() leaves usageCount at its default.
ASSUME PromotionsAssumption == \A d \in OfKind({"promotion"}) : Initial[d].uses = 0

VARIABLES
  row,       \* the rows; a quotation that is not submitted yet is NONE
  sales,     \* the committed sales, each with the promotion it used
  pc,        \* where each request is
  entity,    \* the row as an unlocked handler has changed it
  seen,      \* the row as its save() has read it
  raced,     \* history: rows that changed under a request that had read them
  overtaken  \* history: promotions used between an update()'s read and its save()'s

vars == <<row, sales, pc, entity, seen, raced, overtaken>>
-----------------------------------------------------------------------------
Init ==
  /\ row    = Initial
  /\ sales  = {}
  /\ pc     = [r \in Requests |-> "idle"]
  /\ entity = [r \in Requests |-> Initial[Doc[r]]]
  /\ seen   = [r \in Requests |-> Initial[Doc[r]]]
  /\ raced  = {} /\ overtaken = {}

Open(r)  == pc[r] \notin {"idle", "done"}
MayStart == /\ Cardinality({r \in Requests : Open(r)}) < MaxOpen
            /\ Cardinality({r \in Requests : pc[r] # "idle"}) < MaxSent

Goto(r, where) == pc' = [pc EXCEPT ![r] = where]

\* The rows a request has read without a lock.
HasRead(q) ==
  IF ~Open(q) \/ Op[q] = "use" THEN {} ELSE {IF Op[q] = "quote" THEN RfqOf[Doc[q]] ELSE Doc[q]}

\* Request r writes the rows; those that another request relies on are noted.
Write(r, new) ==
  /\ row' = new
  /\ raced' = raced \cup
       {d \in Docs : new[d] # row[d] /\ \E q \in Requests \ {r} : d \in HasRead(q)}

\* A refused request changes nothing, and is no step.
Done(r) ==
  /\ Goto(r, "done")
  /\ entity' = [entity EXCEPT ![r] = Initial[Doc[r]]]
  /\ seen'   = [seen EXCEPT ![r] = Initial[Doc[r]]]

\* The successors of each status, by kind.
OrderTransitions ==
  [PENDING_REVIEW |-> {"CONFIRMED", "CANCELLED"}, CONFIRMED |-> {"PACKED", "CANCELLED"},
   PACKED |-> {"ON_MY_WAY", "CANCELLED"}, ON_MY_WAY |-> {"DELIVERED"},
   DELIVERED |-> {}, CANCELLED |-> {}]

RequestTransitions ==
  [DRAFT |-> {"SUBMITTED"}, SUBMITTED |-> {"APPROVED", "REJECTED"},
   APPROVED |-> {"CONVERTED"}, REJECTED |-> {"SUBMITTED"}, CONVERTED |-> {}]

RfqTransitions ==
  [DRAFT |-> {"SENT", "CANCELLED"}, SENT |-> {"CLOSED", "CANCELLED"},
   CLOSED |-> {}, CANCELLED |-> {}]

Allows(table, from, to) == from \in DOMAIN table /\ to \in table[from]
-----------------------------------------------------------------------------
\* Slip: post() does not look at the status.
PostAny(r) ==
  /\ pc[r] = "idle" /\ Op[r] = "post" /\ MayStart
  /\ Write(r, [row EXCEPT ![Doc[r]].status = "POSTED", ![Doc[r]].content = r])
  /\ Done(r) /\ UNCHANGED <<sales, overtaken>>

\* post() of a journal entry that balances, with totals, poster and time.
Post(r) ==
  /\ pc[r] = "idle" /\ Op[r] = "post" /\ MayStart
  /\ row[Doc[r]].status = "DRAFT"
  /\ Write(r, [row EXCEPT ![Doc[r]].status = "POSTED", ![Doc[r]].content = r])
  /\ Done(r) /\ UNCHANGED <<sales, overtaken>>

\* approve(), reject() and cancel() of a leave request.
Decide(r) ==
  /\ pc[r] = "idle" /\ Op[r] = "decide" /\ MayStart
  /\ row[Doc[r]].status = "PENDING"
  /\ Write(r, [row EXCEPT ![Doc[r]].status = Goal[r]])
  /\ Done(r) /\ UNCHANGED <<sales, overtaken>>

\* resolveAndLockForUse()'s checks; no limit is no bound.
Usable(d) ==
  row[d].status = "ACTIVE" /\ (row[d].limit = 0 \/ row[d].uses < row[d].limit)

\* No transaction has the promotion's row.
Free(d) == \A q \in Requests : ~(pc[q] = "using" /\ Doc[q] = d)

\* Slip: the promotion is read without its lock.
LockPromotionNot(r) ==
  /\ pc[r] = "idle" /\ Op[r] = "use" /\ MayStart
  /\ Usable(Doc[r])
  /\ Goto(r, "using")
  /\ UNCHANGED <<row, sales, entity, seen, raced, overtaken>>

\* A sale's create() with the promotion's code locks its row and checks it.
LockPromotion(r) ==
  /\ pc[r] = "idle" /\ Op[r] = "use" /\ MayStart
  /\ Free(Doc[r]) /\ Usable(Doc[r])
  /\ Goto(r, "using")
  /\ UNCHANGED <<row, sales, entity, seen, raced, overtaken>>

\* incrementUsage(), which adds to what is stored, becomes visible with the sale.
CommitUse(r) ==
  LET d == Doc[r] IN
  /\ pc[r] = "using"
  /\ Write(r, [row EXCEPT ![d].uses = @ + 1])
  /\ sales' = sales \cup {r}
  /\ overtaken' = IF \E q \in Requests : pc[q] = "save" /\ Doc[q] = d
                  THEN overtaken \cup {d} ELSE overtaken
  /\ Done(r)

\* Another statement of create() or the process fails.
RollbackUse(r) ==
  /\ pc[r] = "using"
  /\ Done(r) /\ UNCHANGED <<row, sales, raced, overtaken>>
-----------------------------------------------------------------------------
\* What the unlocked handlers check of the row they have read.
Allowed(r, old) ==
  CASE Op[r] = "cancelJournal"   -> old.status = "DRAFT"
    [] Op[r] = "updateLeave"     -> old.status = "PENDING"
    [] Op[r] = "updatePromotion" -> TRUE
    [] Op[r] = "updateStatus" ->
         CASE Kind[Doc[r]] = "order"   -> Allows(OrderTransitions, old.status, Goal[r])
           [] Kind[Doc[r]] = "request" -> Allows(RequestTransitions, old.status, Goal[r])
           [] Kind[Doc[r]] = "rfq"     -> Allows(RfqTransitions, old.status, Goal[r])

\* And what they assign.
Assigned(r, old) ==
  CASE Op[r] = "cancelJournal"   -> [old EXCEPT !.status = "CANCELLED"]
    [] Op[r] = "updateLeave"     -> [old EXCEPT !.content = r]
    [] Op[r] = "updatePromotion" -> [old EXCEPT !.content = r, !.status = Goal[r],
                                                !.limit = Limit[r]]
    [] Op[r] = "updateStatus"    -> [old EXCEPT !.status = Goal[r]]

\* findByIdInCompany(), the checks and the assignments.
Read(r) ==
  /\ pc[r] = "idle" /\ Op[r] \in Unlocked /\ MayStart
  /\ Allowed(r, row[Doc[r]])
  /\ entity' = [entity EXCEPT ![r] = Assigned(r, row[Doc[r]])]
  /\ Goto(r, "save")
  /\ UNCHANGED <<row, sales, seen, raced, overtaken>>

\* save() reads the row again.
SaveReads(r) ==
  /\ pc[r] = "save"
  /\ seen' = [seen EXCEPT ![r] = row[Doc[r]]]
  /\ Goto(r, "update")
  /\ UNCHANGED <<row, sales, entity, raced, overtaken>>

\* Its UPDATE of the columns in which the entity differs from that waits for a
\* sale that has the promotion.
SaveUpdates(r) ==
  LET now == row[Doc[r]] IN
  /\ pc[r] = "update" /\ Free(Doc[r])
  /\ Write(r, [row EXCEPT ![Doc[r]] =
       [c \in DOMAIN now |-> IF entity[r][c] # seen[r][c] THEN entity[r][c] ELSE now[c]]])
  /\ Done(r) /\ UNCHANGED <<sales, overtaken>>
-----------------------------------------------------------------------------
\* create() of a supplier's quotation looks at the RFQ and for an earlier
\* quotation of the supplier, both without a lock.
ReadRfq(r) ==
  /\ pc[r] = "idle" /\ Op[r] = "quote" /\ MayStart
  /\ row[RfqOf[Doc[r]]].status \notin {"CLOSED", "CANCELLED"}
  /\ row[Doc[r]].status = "NONE"
  /\ Goto(r, "insert")
  /\ UNCHANGED <<row, sales, entity, seen, raced, overtaken>>

\* And inserts it, once by UNIQUE(company, RFQ, supplier).
InsertQuotation(r) ==
  /\ pc[r] = "insert"
  /\ row[Doc[r]].status = "NONE"
  /\ Write(r, [row EXCEPT ![Doc[r]].status = "SUBMITTED"])
  /\ Done(r) /\ UNCHANGED <<sales, overtaken>>

\* The other one is refused.
RefuseQuotation(r) ==
  /\ pc[r] = "insert"
  /\ row[Doc[r]].status # "NONE"
  /\ Done(r) /\ UNCHANGED <<row, sales, raced, overtaken>>

\* updateStatus() of a quotation checks its status without a lock.
ReadQuotation(r) ==
  /\ pc[r] = "idle" /\ Op[r] = "settle" /\ MayStart
  /\ row[Doc[r]].status = "SUBMITTED"
  /\ Goto(r, "apply")
  /\ UNCHANGED <<row, sales, entity, seen, raced, overtaken>>

\* Slip: the RFQ's other quotations stay as they are.
AwardedAlone(r, d) ==
  IF d = Doc[r] THEN [row[d] EXCEPT !.status = "AWARDED"]
  ELSE IF d = RfqOf[Doc[r]] THEN [row[d] EXCEPT !.status = "CLOSED"]
  ELSE row[d]

\* An award rejects the other SUBMITTED quotations of the RFQ and closes it.
Awarded(r, d) ==
  IF d = Doc[r] THEN [row[d] EXCEPT !.status = "AWARDED"]
  ELSE IF d = RfqOf[Doc[r]] THEN [row[d] EXCEPT !.status = "CLOSED"]
  ELSE IF /\ Kind[d] = "quotation" /\ RfqOf[d] = RfqOf[Doc[r]]
          /\ row[d].status = "SUBMITTED"
       THEN [row[d] EXCEPT !.status = "REJECTED"]
  ELSE row[d]

\* Its transaction, whose UPDATEs do not ask for the status that was read.  Two
\* awards that overlap here deadlock, and one of them is rolled back.
Settle(r) ==
  /\ pc[r] = "apply"
  /\ Write(r, IF Goal[r] = "AWARDED" THEN [d \in Docs |-> Awarded(r, d)]
              ELSE [row EXCEPT ![Doc[r]].status = "REJECTED"])
  /\ Done(r) /\ UNCHANGED <<sales, overtaken>>

Next ==
  \E r \in Requests :
    \/ Post(r) \/ Decide(r)
    \/ LockPromotion(r) \/ CommitUse(r) \/ RollbackUse(r)
    \/ Read(r) \/ SaveReads(r) \/ SaveUpdates(r)
    \/ ReadRfq(r) \/ InsertQuotation(r) \/ RefuseQuotation(r)
    \/ ReadQuotation(r) \/ Settle(r)

Spec == Init /\ [][Next]_vars
-----------------------------------------------------------------------------
\* The statuses no handler of the kind starts from.  An award closes its RFQ
\* also when that is CANCELLED, so that of an RFQ only CLOSED is one.
Final(d) ==
  CASE Kind[d] = "journal"   -> {"POSTED", "CANCELLED"}
    [] Kind[d] = "leave"     -> {"APPROVED", "REJECTED", "CANCELLED"}
    [] Kind[d] = "promotion" -> {}
    [] Kind[d] = "order"     -> {"DELIVERED", "CANCELLED"}
    [] Kind[d] = "request"   -> {"CONVERTED"}
    [] Kind[d] = "rfq"       -> {"CLOSED"}
    [] Kind[d] = "quotation" -> {"AWARDED", "REJECTED"}

\* A document in a final status is never written again, neither its status nor
\* the dates or totals that were decided on, unless it once changed between the
\* unlocked read of a request and its write.
FinalUnlessRaced ==
  [][\A d \in Docs :
       row[d].status \in Final(d) /\ row'[d] # row[d] => d \in raced']_row

\* An RFQ has one awarded quotation at most and is closed by it, unless it or one
\* of its quotations changed under a request that had read it: a late quotation
\* finds the RFQ open, a second award its quotation SUBMITTED.
OneAward ==
  \A f \in OfKind({"rfq"}) :
    LET quotations == {q \in OfKind({"quotation"}) : RfqOf[q] = f}
        awarded    == {q \in quotations : row[q].status = "AWARDED"}
    IN ({f} \cup quotations) \cap raced = {} /\ awarded # {} =>
         Cardinality(awarded) = 1 /\ row[f].status = "CLOSED"

\* usageCount is the number of sales that used the promotion, and within a
\* limit that it had or was to have, although update() saves it without a lock:
\* only a use that commits between update()'s first read and its save()'s can be
\* forgotten.
UsesCounted ==
  \A d \in OfKind({"promotion"}) \ overtaken :
    LET users  == {r \in sales : Doc[r] = d}
        asked  == {r \in Doing({"updatePromotion"}) : Doc[r] = d /\ pc[r] # "idle"}
        limits == {Initial[d].limit} \cup {Limit[r] : r \in asked}
    IN Cardinality(users) = row[d].uses /\ \E n \in limits : n = 0 \/ row[d].uses <= n
=============================================================================
