-------------------------- MODULE PaymentSettlement --------------------------
(***************************************************************************)
(* Supplier payments over purchase invoices (modules/payments and          *)
(* modules/purchase): create() with its idempotency key, reverse() and     *)
(* reallocate() of PaymentsService; post() and void() of the invoices; the *)
(* credit of a completed purchase return; close() of the order.            *)
(*                                                                         *)
(* Payments and credits work under SELECT ... FOR UPDATE of the invoice    *)
(* and of its order, which an invoice has alone, so that the two rows are  *)
(* one lock here.  post(), void() and close() read without a lock, check   *)
(* what they read and save() the entity: TypeORM reads the row again and   *)
(* updates the columns in which the entity differs from that second read.  *)
(* Every allocation is of one unit of money.                               *)
(***************************************************************************)
EXTENDS Integers, FiniteSets

CONSTANTS
  Invoices,    \* the purchase invoices, as their ranks in the sort order
  GrandTotal,  \* grandTotal of each
  Posted,      \* those that are POSTED at the start; the others are DRAFT
  Requests,    \* the HTTP requests
  None,        \* no key, no answer
  Op,          \* what each request does
  Targets,     \* the invoices it does it to
  Key,         \* idempotency key of a create()
  Year,        \* year of its paymentDate, which names its number counter
  PaymentOf,   \* the payment that reverse() or reallocate() names
  MaxOpen      \* requests that may be under way at one time

Ops == {"pay", "reverse", "reallocate", "credit", "post", "void", "close"}

Doing(ops) == {r \in Requests : Op[r] \in ops}
Payers     == Doing({"pay"})
Unlocked   == Doing({"post", "void", "close"})

ASSUME SettlementAssumption ==
  /\ Invoices \subseteq Nat /\ GrandTotal \in [Invoices -> Nat]
  /\ Posted \subseteq Invoices /\ None \notin Requests
  /\ Op \in [Requests -> Ops]
  /\ Targets \in [Requests -> (SUBSET Invoices) \ {{}}]
  /\ \A r \in Requests \ Doing({"pay", "reallocate"}) :
       \E i \in Invoices : Targets[r] = {i}
  /\ \A r \in Payers : Key[r] \notin Requests
  /\ PaymentOf \in [Doing({"reverse", "reallocate"}) -> Payers]
  /\ MaxOpen \in Nat

ASSUME InvoicesAssumption == IsFiniteSet(Invoices)

VARIABLES
  invoice,  \* the purchase_invoices rows
  order,    \* the purchase_orders row of each invoice
  payment,  \* status of the payment each create() inserts, NONE before
  alloc,    \* the invoices it is allocated to
  journal,  \* its journal entries: postings and reversals
  answer,   \* the payment that create() was answered with
  pc,       \* where each request is
  release,  \* invoices it has yet to take its unit back from
  apply,    \* invoices it has yet to apply its unit to
  held,     \* invoices its transaction has locked
  work,     \* those rows as the transaction has changed them
  entity,   \* the row as post(), void() or close() change it
  seen,     \* the row as their save() has read it
  raced     \* history: rows that changed under such a request

rows  == <<invoice, order, payment, alloc, journal, raced>>
local == <<release, apply, held, work, entity, seen>>
vars  == <<rows, local, answer, pc>>
-----------------------------------------------------------------------------
Row(st, i) == [status |-> st, paid |-> 0, credited |-> 0, balance |-> GrandTotal[i]]
Blank == [status |-> "DRAFT", paid |-> 0, credited |-> 0, balance |-> 0]

Init ==
  /\ invoice = [i \in Invoices |-> Row(IF i \in Posted THEN "POSTED" ELSE "DRAFT", i)]
  /\ order   = [i \in Invoices |->
                 [status |-> "RELEASED", paid |-> 0, balance |-> GrandTotal[i]]]
  /\ payment = [r \in Requests |-> "NONE"]
  /\ alloc   = [r \in Requests |-> {}]
  /\ journal = [r \in Requests |-> [posted |-> 0, reversed |-> 0]]
  /\ answer  = [r \in Payers |-> None]
  /\ pc      = [r \in Requests |-> "idle"]
  /\ release = [r \in Requests |-> {}]
  /\ apply   = [r \in Requests |-> {}]
  /\ held    = [r \in Requests |-> {}]
  /\ work    = [r \in Requests |-> [i \in Invoices |-> Blank]]
  /\ entity  = [r \in Requests |-> Blank]
  /\ seen    = [r \in Requests |-> Blank]
  /\ raced   = {}

InTransaction(r) == pc[r] \in {"lock", "insert", "commit"}
Open(r)  == pc[r] \notin {"idle", "done"}
MayStart == Cardinality({r \in Requests : Open(r)}) < MaxOpen

\* Payments of the same idempotency key; a create() without one has no other.
SameKey(r) == {p \in Payers : p = r \/ (Key[r] # None /\ Key[p] = Key[r])}

Existing(r) == {p \in SameKey(r) : payment[p] # "NONE"}

Goto(r, where) == pc' = [pc EXCEPT ![r] = where]

\* Commit or rollback: the locks are given up, the entities forgotten.  A refused
\* request changes nothing, and is no step.
End(r, where) ==
  /\ Goto(r, where)
  /\ release' = [release EXCEPT ![r] = {}]
  /\ apply'   = [apply EXCEPT ![r] = {}]
  /\ held'    = [held EXCEPT ![r] = {}]
  /\ work'    = [work EXCEPT ![r] = [i \in Invoices |-> Blank]]
  /\ entity'  = [entity EXCEPT ![r] = Blank]
  /\ seen'    = [seen EXCEPT ![r] = Blank]
-----------------------------------------------------------------------------
\* create(): the lookup of the key before the transaction.
Lookup(r) ==
  /\ pc[r] = "idle" /\ r \in Payers /\ MayStart
  /\ IF Existing(r) = {}
     THEN Goto(r, "begin") /\ UNCHANGED answer
     ELSE /\ \E p \in Existing(r) : answer' = [answer EXCEPT ![r] = p]
          /\ Goto(r, "done")
  /\ UNCHANGED <<rows, local>>

\* generatePaymentNumber(): the year's counter is locked until the end.
LockCounter(r) ==
  /\ pc[r] = "begin"
  /\ \A q \in Payers : InTransaction(q) => Year[q] # Year[r]
  /\ Goto(r, "lock")
  /\ apply' = [apply EXCEPT ![r] = Targets[r]]
  /\ UNCHANGED <<rows, release, held, work, entity, seen, answer>>

\* Slip: a payment that is CANCELLED already is reversed again.
LockPaymentAny(r) ==
  LET p == PaymentOf[r] IN
  /\ pc[r] = "idle" /\ Op[r] \in {"reverse", "reallocate"} /\ MayStart
  /\ payment[p] # "NONE"
  /\ Goto(r, "lock")
  /\ release' = [release EXCEPT ![r] = alloc[p]]
  /\ apply'   = [apply EXCEPT ![r] = IF Op[r] = "reverse" THEN {} ELSE Targets[r]]
  /\ UNCHANGED <<rows, held, work, entity, seen, answer>>

\* reverse(), reallocate(): the payment is locked, must be CONFIRMED and, for
\* reallocate(), be covered in full by the new allocations.
LockPayment(r) ==
  LET p == PaymentOf[r] IN
  /\ pc[r] = "idle" /\ Op[r] \in {"reverse", "reallocate"} /\ MayStart
  /\ \A q \in Doing({"reverse", "reallocate"}) \ {r} :
       InTransaction(q) => PaymentOf[q] # p
  /\ payment[p] = "CONFIRMED"
  /\ Op[r] = "reallocate" => Cardinality(Targets[r]) = Cardinality(Targets[p])
  /\ Goto(r, "lock")
  /\ release' = [release EXCEPT ![r] = alloc[p]]
  /\ apply'   = [apply EXCEPT ![r] = IF Op[r] = "reverse" THEN {} ELSE Targets[r]]
  /\ UNCHANGED <<rows, held, work, entity, seen, answer>>

\* complete() of a purchase return of the invoice, whose value is one unit.
StartCredit(r) ==
  /\ pc[r] = "idle" /\ Op[r] = "credit" /\ MayStart
  /\ Goto(r, "lock")
  /\ apply' = [apply EXCEPT ![r] = Targets[r]]
  /\ UNCHANGED <<rows, release, held, work, entity, seen, answer>>
-----------------------------------------------------------------------------
\* Slip: the targets of a payment are not sorted.
WantsUnsorted(r, i) ==
  LET left == IF release[r] # {} THEN release[r] ELSE apply[r] IN
  pc[r] = "lock" /\ i \in left

\* The invoice whose lock a transaction asks for next: what it takes its unit
\* back from comes first, each set in sorted order.
Wants(r, i) ==
  LET left == IF release[r] # {} THEN release[r] ELSE apply[r] IN
  pc[r] = "lock" /\ i \in left /\ \A j \in left : i <= j

\* Slip: what was credited is not taken off the total.
PermittedGross(r, i, row) ==
  \/ release[r] # {} /\ row.paid >= 1
  \/ /\ release[r] = {} /\ Op[r] # "credit"
     /\ row.status = "POSTED" /\ row.paid + 1 <= GrandTotal[i]
  \/ Op[r] = "credit"

\* unapplyPayment(), applyPayment(), and the credit within the open balance.
Permitted(r, i, row) ==
  \/ release[r] # {} /\ row.paid >= 1
  \/ /\ release[r] = {} /\ Op[r] # "credit"
     /\ row.status = "POSTED" /\ row.paid + 1 <= GrandTotal[i] - row.credited
  \/ Op[r] = "credit"

Owed(i, paid, credited) == GrandTotal[i] - credited - paid

Changed(r, i, row) ==
  LET paid     == IF Op[r] = "credit" THEN row.paid
                  ELSE IF release[r] # {} THEN row.paid - 1 ELSE row.paid + 1
      credited == IF Op[r] = "credit" /\ row.balance >= 1
                  THEN row.credited + 1 ELSE row.credited
      owed     == Owed(i, paid, credited)
  IN [row EXCEPT !.paid = paid, !.credited = credited,
                 !.balance = IF Op[r] = "credit" /\ owed < 0 THEN 0 ELSE owed]

\* The row as the transaction sees it under its lock.
Current(r, i) == IF i \in held[r] THEN work[r][i] ELSE invoice[i]

Last(r) == Cardinality(release[r]) + Cardinality(apply[r]) = 1

\* The next invoice, and its order, are locked, checked and updated.
LockInvoice(r, i) ==
  /\ Wants(r, i)
  /\ \A q \in Requests \ {r} : i \notin held[q]
  /\ Permitted(r, i, Current(r, i))
  /\ held' = [held EXCEPT ![r] = @ \cup {i}]
  /\ work' = [work EXCEPT ![r][i] = Changed(r, i, Current(r, i))]
  /\ IF release[r] # {}
     THEN release' = [release EXCEPT ![r] = @ \ {i}] /\ UNCHANGED apply
     ELSE apply' = [apply EXCEPT ![r] = @ \ {i}] /\ UNCHANGED release
  /\ Goto(r, IF ~Last(r) THEN "lock" ELSE IF Op[r] = "pay" THEN "insert" ELSE "commit")
  /\ UNCHANGED <<rows, entity, seen, answer>>

\* Slip: the key is not unique.
InsertAny(r) ==
  /\ pc[r] = "insert"
  /\ Goto(r, "commit")
  /\ UNCHANGED <<rows, local, answer>>

\* INSERT of the payment.  UNIQUE(company, key) makes it wait for another one
\* that is not committed, and fail when there is one that is.
Insert(r) ==
  /\ pc[r] = "insert"
  /\ \A q \in SameKey(r) \ {r} : pc[q] # "commit"
  /\ IF Existing(r) = {}
     THEN Goto(r, "commit") /\ UNCHANGED local
     ELSE End(r, "lost")
  /\ UNCHANGED <<rows, answer>>

\* ER_DUP_ENTRY of the key: the winner's payment is the answer.
Refetch(r) ==
  /\ pc[r] = "lost"
  /\ \E p \in Existing(r) : answer' = [answer EXCEPT ![r] = p]
  /\ Goto(r, "done")
  /\ UNCHANGED <<rows, local>>

\* The row that post(), void() or close() is about.
Target(r) == CHOOSE i \in Invoices : Targets[r] = {i}
Table(r)  == IF Op[r] = "close" THEN "order" ELSE "invoice"
RowOf(r)  == IF Op[r] = "close" THEN order[Target(r)] ELSE invoice[Target(r)]

\* Rows of the invoices in S that a request other than those in R has read
\* without a lock and not saved yet.
Races(R, S) ==
  {<<Table(q), Target(q)>> : q \in {q \in Unlocked \ R : Open(q) /\ Target(q) \in S}}

\* Slip: a reversal leaves the order to a later synchronisation.
OrderAfterPay(r, i) ==
  IF Op[r] # "pay" THEN [order[i] EXCEPT !.balance = work[r][i].balance]
  ELSE [order[i] EXCEPT !.paid = work[r][i].paid, !.balance = work[r][i].balance]

\* The order gets what its invoice gets; a credit leaves its paidAmount alone.
OrderAfter(r, i) ==
  IF Op[r] = "credit" THEN [order[i] EXCEPT !.balance = work[r][i].balance]
  ELSE [order[i] EXCEPT !.paid = work[r][i].paid, !.balance = work[r][i].balance]

\* postPayment() and reversePayment(), which go to the general ledger.
PostEntry(p)    == journal' = [journal EXCEPT ![p].posted = @ + 1]
ReverseEntry(p) == journal' = [journal EXCEPT ![p].reversed = @ + 1]

\* What the transaction wrote besides invoices and orders: the payment with its
\* allocations and its journal entry, and the answer;
Paid(r) ==
  /\ Op[r] = "pay"
  /\ payment' = [payment EXCEPT ![r] = "CONFIRMED"]
  /\ alloc'   = [alloc EXCEPT ![r] = Targets[r]]
  /\ PostEntry(r)
  /\ answer'  = [answer EXCEPT ![r] = r]

\* the end of a payment, and its reversing entry;
Reversed(r) ==
  /\ Op[r] = "reverse"
  /\ payment' = [payment EXCEPT ![PaymentOf[r]] = "CANCELLED"]
  /\ ReverseEntry(PaymentOf[r])
  /\ UNCHANGED <<alloc, answer>>

\* other allocations of a payment;
Reallocated(r) ==
  /\ Op[r] = "reallocate"
  /\ alloc' = [alloc EXCEPT ![PaymentOf[r]] = Targets[r]]
  /\ UNCHANGED <<payment, journal, answer>>

\* nothing for a credit, whose value is in the invoice.
Credited(r) == Op[r] = "credit" /\ UNCHANGED <<payment, alloc, journal, answer>>

\* Everything becomes visible together, the invoices and orders with what is
\* paid, credited and owed.
Commit(r) ==
  /\ pc[r] = "commit"
  /\ invoice' = [i \in Invoices |-> IF i \in held[r] THEN work[r][i] ELSE invoice[i]]
  /\ order' = [i \in Invoices |-> IF i \in held[r] THEN OrderAfter(r, i) ELSE order[i]]
  /\ Paid(r) \/ Reversed(r) \/ Reallocated(r) \/ Credited(r)
  /\ raced' = raced \cup Races({}, held[r])
  /\ End(r, "done")

\* An invoice is refused, a posting fails, the process dies, or the transaction
\* is a deadlock's victim.  The client may send the request again.
Rollback(r) ==
  /\ InTransaction(r)
  /\ End(r, "idle")
  /\ UNCHANGED <<rows, answer>>
-----------------------------------------------------------------------------
\* Their guards over the row they have read.
Allowed(r, row) ==
  \/ Op[r] = "post" /\ row.status = "DRAFT"
  \/ Op[r] = "void" /\ row.status # "VOIDED" /\ row.paid = 0 /\ row.credited = 0
  \/ Op[r] = "close" /\ row.status = "RELEASED" /\ row.balance <= 0

\* And what they assign.
Assigned(r, row) ==
  CASE Op[r] = "post"  -> [row EXCEPT !.status = "POSTED"]
    [] Op[r] = "void"  -> [row EXCEPT !.status = "VOIDED", !.balance = 0]
    [] Op[r] = "close" -> [row EXCEPT !.status = "CLOSED"]

\* The unlocked read and its checks.
Read(r) ==
  /\ pc[r] = "idle" /\ r \in Unlocked /\ MayStart
  /\ Allowed(r, RowOf(r))
  /\ entity' = [entity EXCEPT ![r] = Assigned(r, RowOf(r))]
  /\ Goto(r, "save")
  /\ UNCHANGED <<rows, release, apply, held, work, seen, answer>>

\* save() reads the row again.
SaveReads(r) ==
  /\ pc[r] = "save"
  /\ seen' = [seen EXCEPT ![r] = RowOf(r)]
  /\ Goto(r, "update")
  /\ UNCHANGED <<rows, release, apply, held, work, entity, answer>>

\* Columns in which the entity differs from what save() has read.
Differing(r) == {c \in DOMAIN seen[r] : entity[r][c] # seen[r][c]}

\* Its UPDATE, which waits for the row.
SaveUpdates(r) ==
  LET i == Target(r)
      row == [c \in DOMAIN RowOf(r) |->
               IF c \in Differing(r) THEN entity[r][c] ELSE RowOf(r)[c]]
  IN
  /\ pc[r] = "update" /\ \A q \in Requests : i \notin held[q]
  /\ IF Op[r] = "close"
     THEN order' = [order EXCEPT ![i] = row] /\ UNCHANGED invoice
     ELSE invoice' = [invoice EXCEPT ![i] = row] /\ UNCHANGED order
  /\ raced' = raced \cup (Races({r}, {i}) \cap {<<Table(r), i>>})
  /\ End(r, "done")
  /\ UNCHANGED <<payment, alloc, journal, answer>>

Next ==
  \E r \in Requests :
    \/ Lookup(r) \/ LockCounter(r) \/ LockPayment(r) \/ StartCredit(r)
    \/ \E i \in Invoices : LockInvoice(r, i)
    \/ Insert(r) \/ Refetch(r) \/ Commit(r) \/ Rollback(r)
    \/ Read(r) \/ SaveReads(r) \/ SaveUpdates(r)

Spec == Init /\ [][Next]_vars
-----------------------------------------------------------------------------
InvoiceRow == [status : {"DRAFT", "POSTED", "VOIDED"}, paid : Nat, credited : Nat,
               balance : Nat]
OrderRow   == [status : {"RELEASED", "CLOSED"}, paid : Nat, balance : Nat]

\* Columns and request states have values they can have; no amount is negative;
\* an invoice is locked by one transaction, and only while one runs.
TypeOK ==
  /\ invoice \in [Invoices -> InvoiceRow] /\ order \in [Invoices -> OrderRow]
  /\ payment \in [Requests -> {"NONE", "CONFIRMED", "CANCELLED"}]
  /\ alloc \in [Requests -> SUBSET Invoices]
  /\ journal \in [Requests -> [posted : Nat, reversed : Nat]]
  /\ answer \in [Payers -> Payers \cup {None}]
  /\ pc \in [Requests -> {"idle", "begin", "lock", "insert", "commit", "lost",
                          "save", "update", "done"}]
  /\ release \in [Requests -> SUBSET Invoices]
  /\ apply \in [Requests -> SUBSET Invoices]
  /\ held \in [Requests -> SUBSET Invoices]
  /\ work \in [Requests -> [Invoices -> InvoiceRow]]
  /\ entity \in [Requests -> InvoiceRow \cup OrderRow]
  /\ seen \in [Requests -> InvoiceRow \cup OrderRow]
  /\ raced \subseteq {"invoice", "order"} \X Invoices
  /\ \A r \in Requests : held[r] # {} => InTransaction(r)
  /\ \A q, r \in Requests : q # r => held[q] \cap held[r] = {}

\* The payments that pay invoice i.
PaidBy(i) == {p \in Payers : payment[p] = "CONFIRMED" /\ i \in alloc[p]}

\* An invoice's running balance is the total of the confirmed payments that are
\* allocated to it, they and the credits stay within its grand total, and it is
\* neither a draft nor voided, unless it changed under an unlocked post() or void().
AllocationsAddUp ==
  \A i \in Invoices : <<"invoice", i>> \notin raced =>
    /\ invoice[i].paid = Cardinality(PaidBy(i))
    /\ invoice[i].paid + invoice[i].credited <= GrandTotal[i]
    /\ PaidBy(i) # {} => invoice[i].status = "POSTED"
    /\ invoice[i].status = "POSTED" =>
         invoice[i].balance = Owed(i, invoice[i].paid, invoice[i].credited)

\* The order shows the same money as its invoice, voided ones aside, unless one
\* of them changed under an unlocked post(), void() or close().
OrderMirrorsInvoice ==
  \A i \in Invoices : raced \cap ({"invoice", "order"} \X {i}) = {} =>
    /\ order[i].paid = invoice[i].paid
    /\ invoice[i].status # "VOIDED" => order[i].balance = invoice[i].balance

\* A payment has one journal entry; it has one reversing entry exactly when it
\* is cancelled, however many reversals and reallocations name it.
ReversedOnce ==
  \A p \in Payers :
    /\ journal[p].posted = IF payment[p] = "NONE" THEN 0 ELSE 1
    /\ journal[p].reversed = IF payment[p] = "CANCELLED" THEN 1 ELSE 0

\* Transactions wait for each other in a circle only through a reallocation that
\* wants an invoice that sorts before one it has locked already.
WaitsFor(q, r) ==
  \/ \E i \in held[r] : Wants(q, i)
  \/ pc[q] = "begin" /\ r \in Payers /\ InTransaction(r) /\ Year[q] = Year[r]
  \/ pc[q] = "insert" /\ pc[r] = "commit" /\ r \in SameKey(q)

OnlyReallocationDeadlocks ==
  \A S \in (SUBSET {r \in Requests : pc[r] \in {"begin", "lock", "insert"}}) \ {{}} :
    (\A q \in S : \E r \in S \ {q} : WaitsFor(q, r)) =>
      \E r \in S : Op[r] = "reallocate"
                   /\ \E i, j \in Invoices : Wants(r, i) /\ j \in held[r] /\ i < j

\* create() implements PayOnce.
Once == INSTANCE PayOnce WITH
  made <- {p \in Payers : payment[p] # "NONE"},
  KeyOf <- [p \in Payers |-> IF Key[p] = None THEN p ELSE Key[p]]

\* Requests with one idempotency key make one payment, whichever of the lookup
\* and the unique index decides, also after it was reversed; every answer names
\* a payment that exists.
PaidOnce == Once!Spec
=============================================================================
