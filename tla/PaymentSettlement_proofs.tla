----------------------- MODULE PaymentSettlement_proofs -----------------------
(***************************************************************************)
(* For every set of requests: a payment is posted once and reversed once,  *)
(* and create() implements PayOnce.  Both rest on what a transaction may   *)
(* count on until it commits: the payment it has locked stays CONFIRMED,   *)
(* the key it has inserted under stays its own.                            *)
(* And the order shows the money of its invoice, unless one of them        *)
(* changed between the unlocked read of a handler and its save().          *)
(* LockInv: invoices are locked upwards but by a reallocation, so that a   *)
(* circle of waiting transactions has one.  MoneyInv: what an invoice and  *)
(* the working copies of it show is what the payments are allocated to it. *)
(***************************************************************************)
EXTENDS PaymentSettlement, FiniteSetTheorems, WellFoundedInduction, TLAPS

Types ==
  /\ payment \in [Requests -> {"NONE", "CONFIRMED", "CANCELLED"}]
  /\ journal \in [Requests -> [posted : Nat, reversed : Nat]]
  /\ answer \in [Payers -> Payers \cup {None}]
  /\ pc \in [Requests -> {"idle", "begin", "lock", "insert", "commit", "lost",
                          "save", "update", "done"}]

\* A create() that is not done has made no payment and given no answer.
Unanswered ==
  \A r \in Payers : pc[r] # "done" => payment[r] = "NONE" /\ answer[r] = None

\* Who waits for the counter, for the index or for the winner is a create().
Handlers ==
  \A r \in Requests :
    /\ pc[r] \in {"begin", "insert", "lost"} => r \in Payers
    /\ pc[r] \in {"lock", "commit"} => r \notin Unlocked

\* Who has locked a payment has it alone, and it is CONFIRMED.
LockedPayments ==
  \A r \in Doing({"reverse", "reallocate"}) : InTransaction(r) =>
    /\ payment[PaymentOf[r]] = "CONFIRMED"
    /\ \A q \in Doing({"reverse", "reallocate"}) :
         InTransaction(q) /\ PaymentOf[q] = PaymentOf[r] => q = r

\* Who has inserted under a key has it alone.
KeyIsOwn ==
  \A r \in Payers : pc[r] = "commit" =>
    Existing(r) = {} /\ \A q \in SameKey(r) : pc[q] = "commit" => q = r

IInv == Types /\ Unanswered /\ Handlers /\ LockedPayments /\ KeyIsOwn /\ ReversedOnce

Reversals == Doing({"reverse", "reallocate"})
-----------------------------------------------------------------------------
\* A key is shared both ways.
LEMMA SameKeySymmetric ==
  ASSUME NEW p \in Payers, NEW q \in SameKey(p)
  PROVE  q \in Payers /\ p \in SameKey(q)
  BY DEF SameKey

\* The request an operation names, and what its operation is not.
LEMMA Operations ==
  ASSUME SettlementAssumption
  PROVE  /\ Reversals \cap Payers = {} /\ Payers \subseteq Requests
         /\ \A r \in Reversals : PaymentOf[r] \in Payers
         /\ None \notin Payers
  BY DEF SettlementAssumption, Reversals, Doing, Payers

\* No request has begun at the start.
LEMMA InitInv == Init => IInv
  BY DEF Init, IInv, Types, Unanswered, Handlers, LockedPayments, KeyIsOwn, ReversedOnce,
     InTransaction, Payers, Doing

States == {"idle", "begin", "lock", "insert", "commit", "lost", "save", "update", "done"}

\* A step that moves one request and touches no payment, entry or answer keeps
\* the invariant, if a reversal that is in its transaction then has its payment,
\* and a create() that has then inserted has its key.
LEMMA QuietStep ==
  ASSUME SettlementAssumption, IInv, NEW r \in Requests, NEW w \in States,
         UNCHANGED <<payment, journal, answer>>, pc' = [pc EXCEPT ![r] = w],
         pc[r] # "done",
         w \in {"begin", "insert", "lost"} => r \in Payers,
         w \in {"lock", "commit"} => r \notin Unlocked,
         r \in Reversals /\ w \in {"lock", "insert", "commit"} =>
           /\ payment[PaymentOf[r]] = "CONFIRMED"
           /\ \A q \in Reversals : InTransaction(q) /\ PaymentOf[q] = PaymentOf[r] => q = r,
         r \in Payers /\ w = "commit" =>
           Existing(r) = {} /\ \A q \in SameKey(r) \ {r} : pc[q] # "commit"
  PROVE  IInv'
<1>1. pc'[r] = w /\ \A q \in Requests : q # r => pc'[q] = pc[q]
  BY DEF IInv, Types
<1>2. Types'
  BY DEF IInv, Types, States
<1>3. Unanswered' /\ Handlers'
  BY <1>1, Operations DEF IInv, Unanswered, Handlers
<1>4. LockedPayments'
  BY <1>1, Operations DEF IInv, LockedPayments, InTransaction, Reversals, Doing
<1>5. KeyIsOwn'
  <2> SUFFICES ASSUME NEW p \in Payers, pc'[p] = "commit"
               PROVE  Existing(p)' = {} /\ \A q \in SameKey(p) : pc'[q] = "commit" => q = p
    BY DEF KeyIsOwn, SameKey
  <2>1. \A q \in Payers : Existing(q)' = Existing(q)
    BY DEF Existing, SameKey
  <2>2. SameKey(p) \subseteq Requests
    BY Operations DEF SameKey
  <2>3. CASE p = r
    BY <2>1, <2>2, <2>3, <1>1
  <2>4. CASE p # r
    <3>1. pc[p] = "commit" /\ Existing(p) = {}
      BY <2>4, <1>1, Operations DEF IInv, KeyIsOwn
    <3>2. r \in SameKey(p) => w # "commit"
      BY <3>1, <2>4, SameKeySymmetric
    <3> QED BY <3>1, <3>2, <2>1, <2>2, <1>1 DEF IInv, KeyIsOwn
  <2> QED BY <2>3, <2>4
<1>6. ReversedOnce'
  BY DEF IInv, ReversedOnce
<1> QED BY <1>2, <1>3, <1>4, <1>5, <1>6 DEF IInv

\* A create() that is answered with a payment there is keeps it, too.
LEMMA AnswerStep ==
  ASSUME SettlementAssumption, IInv, NEW r \in Payers, NEW p \in Existing(r),
         UNCHANGED <<payment, journal>>, pc' = [pc EXCEPT ![r] = "done"],
         answer' = [answer EXCEPT ![r] = p]
  PROVE  IInv'
<1>1. pc'[r] = "done" /\ \A q \in Requests : q # r => pc'[q] = pc[q]
  BY Operations DEF IInv, Types
<1>2. p \in Payers /\ \A q \in Payers : q # r => answer'[q] = answer[q]
  BY DEF IInv, Types, Existing, SameKey
<1>3. Types'
  BY <1>2 DEF IInv, Types
<1>4. Unanswered' /\ Handlers'
  BY <1>1, <1>2, Operations DEF IInv, Unanswered, Handlers
<1>5. LockedPayments'
  BY <1>1, Operations DEF IInv, LockedPayments, InTransaction, Reversals, Doing
<1>6. KeyIsOwn' /\ ReversedOnce'
  BY <1>1, Operations DEF IInv, KeyIsOwn, ReversedOnce, Existing, SameKey
<1> QED BY <1>3, <1>4, <1>5, <1>6 DEF IInv
-----------------------------------------------------------------------------
\* The steps of a request up to its commit, and the unlocked ones.
LEMMA StepsBeforeCommit ==
  ASSUME SettlementAssumption, IInv, NEW r \in Requests,
         \/ LockCounter(r) \/ StartCredit(r) \/ Insert(r) \/ Rollback(r)
         \/ Read(r) \/ SaveReads(r) \/ SaveUpdates(r)
  PROVE  IInv'
<1> USE DEF Goto, End, rows, local, States
<1>1. CASE LockCounter(r)
  <2>1. r \in Payers /\ r \notin Reversals /\ r \notin Unlocked
    BY <1>1, Operations DEF LockCounter, IInv, Handlers, Payers, Unlocked, Reversals, Doing
  <2> QED BY <1>1, <2>1, QuietStep DEF LockCounter
<1>2. CASE StartCredit(r)
  <2>1. r \notin Payers /\ r \notin Reversals /\ r \notin Unlocked
    BY <1>2 DEF StartCredit, Payers, Unlocked, Reversals, Doing
  <2> QED BY <1>2, <2>1, QuietStep DEF StartCredit
<1>3. CASE Insert(r)
  <2>1. r \in Payers /\ r \notin Reversals /\ r \notin Unlocked
    BY <1>3, Operations DEF Insert, IInv, Handlers, Payers, Unlocked, Reversals, Doing
  <2> QED BY <1>3, <2>1, QuietStep DEF Insert
<1>4. CASE Rollback(r)
  BY <1>4, QuietStep DEF Rollback, InTransaction
<1>5. CASE Read(r)
  BY <1>5, QuietStep DEF Read
<1>6. CASE SaveReads(r)
  BY <1>6, QuietStep DEF SaveReads
<1>7. CASE SaveUpdates(r)
  BY <1>7, QuietStep DEF SaveUpdates
<1> QED BY <1>1, <1>2, <1>3, <1>4, <1>5, <1>6, <1>7

\* reverse() and reallocate() lock a payment that is CONFIRMED and nobody's.
LEMMA LockPaymentStep ==
  ASSUME SettlementAssumption, IInv, NEW r \in Requests, LockPayment(r)
  PROVE  IInv'
<1>1. r \in Reversals /\ r \notin Unlocked /\ pc[r] = "idle"
  BY DEF LockPayment, Reversals, Unlocked, Doing
<1>2. /\ payment[PaymentOf[r]] = "CONFIRMED"
      /\ \A q \in Reversals : InTransaction(q) /\ PaymentOf[q] = PaymentOf[r] => q = r
  BY DEF LockPayment, Reversals
<1> QED BY <1>1, <1>2, Operations, QuietStep DEF LockPayment, Goto, rows, States

\* The lock of an invoice keeps a reversal in its transaction, and only an
\* insert commits a payment.
LEMMA LockInvoiceStep ==
  ASSUME SettlementAssumption, IInv, NEW r \in Requests, NEW i \in Invoices,
         LockInvoice(r, i)
  PROVE  IInv'
<1> DEFINE w == IF ~Last(r) THEN "lock" ELSE IF Op[r] = "pay" THEN "insert" ELSE "commit"
<1>1. pc[r] = "lock" /\ pc' = [pc EXCEPT ![r] = w]
  BY DEF LockInvoice, Goto, Wants
<1>2. UNCHANGED <<payment, journal, answer>>
  BY DEF LockInvoice, rows
<1>3. /\ w \in States /\ r \notin Unlocked
      /\ w = "insert" => r \in Payers
      /\ r \in Payers => w # "commit"
      /\ w \notin {"begin", "lost"}
  BY <1>1 DEF States, IInv, Handlers, Payers, Doing
<1>4. r \in Reversals =>
        /\ payment[PaymentOf[r]] = "CONFIRMED"
        /\ \A q \in Reversals : InTransaction(q) /\ PaymentOf[q] = PaymentOf[r] => q = r
  BY <1>1 DEF IInv, LockedPayments, InTransaction, Reversals
<1> HIDE DEF w
<1> QED BY <1>1, <1>2, <1>3, <1>4, QuietStep

\* The lookup and the winner's payment.
LEMMA LookupSteps ==
  ASSUME SettlementAssumption, IInv, NEW r \in Requests, Lookup(r) \/ Refetch(r)
  PROVE  IInv'
<1>1. r \in Payers /\ UNCHANGED <<payment, journal>> /\ r \notin Reversals
  BY Operations DEF Lookup, Refetch, rows, IInv, Handlers
<1>2. CASE UNCHANGED answer /\ pc' = [pc EXCEPT ![r] = "begin"] /\ pc[r] = "idle"
  BY <1>1, <1>2, QuietStep DEF States
<1>3. CASE /\ \E p \in Existing(r) : answer' = [answer EXCEPT ![r] = p]
           /\ pc' = [pc EXCEPT ![r] = "done"]
  BY <1>1, <1>3, AnswerStep
<1> QED BY <1>2, <1>3 DEF Lookup, Refetch, Goto
\* create() commits: its payment, its entry and its answer are there.
LEMMA PayStep ==
  ASSUME SettlementAssumption, IInv, NEW r \in Payers, Commit(r)
  PROVE  IInv'
<1>1. /\ payment' = [payment EXCEPT ![r] = "CONFIRMED"]
      /\ journal' = [journal EXCEPT ![r].posted = @ + 1]
      /\ answer' = [answer EXCEPT ![r] = r]
      /\ pc[r] = "commit" /\ pc' = [pc EXCEPT ![r] = "done"]
      /\ r \in Requests /\ payment[r] = "NONE"
  BY Operations DEF Commit, Paid, Reversed, Reallocated, Credited, PostEntry,
         ReverseEntry, End, Goto, Payers, Doing, IInv, Unanswered
<1>2. /\ pc'[r] = "done" /\ payment'[r] = "CONFIRMED"
      /\ \A q \in Requests : q # r =>
           pc'[q] = pc[q] /\ payment'[q] = payment[q] /\ journal'[q] = journal[q]
      /\ \A q \in Payers : q # r => answer'[q] = answer[q]
  BY <1>1 DEF IInv, Types
<1>3. Types'
  BY <1>1 DEF IInv, Types
<1>4. Unanswered' /\ Handlers'
  BY <1>2, Operations DEF IInv, Unanswered, Handlers
<1>5. LockedPayments'
  BY <1>1, <1>2, Operations DEF IInv, LockedPayments, InTransaction, Reversals, Doing
<1>6. KeyIsOwn'
  <2> SUFFICES ASSUME NEW p \in Payers, pc'[p] = "commit"
               PROVE  Existing(p)' = {} /\ \A q \in SameKey(p) : pc'[q] = "commit" => q = p
    BY DEF KeyIsOwn, SameKey
  <2>1. p # r /\ pc[p] = "commit" /\ SameKey(p) \subseteq Requests
    BY <1>2, Operations DEF SameKey
  <2>2. r \notin SameKey(p)
    BY <2>1, <1>1, SameKeySymmetric DEF IInv, KeyIsOwn
  <2>3. Existing(p)' = Existing(p)
    BY <2>1, <2>2, <1>2 DEF Existing, SameKey
  <2> QED BY <2>1, <2>2, <2>3, <1>2 DEF IInv, KeyIsOwn
<1>7. ReversedOnce'
  <2>1. journal[r].posted = 0 /\ journal[r].reversed = 0 /\ journal[r] \in [posted : Nat, reversed : Nat]
    BY <1>1 DEF IInv, ReversedOnce, Types
  <2>2. journal'[r].posted = 1 /\ journal'[r].reversed = 0
    BY <1>1, <2>1 DEF IInv, Types
  <2> QED BY <2>2, <1>2, Operations DEF IInv, ReversedOnce
<1> QED BY <1>3, <1>4, <1>5, <1>6, <1>7 DEF IInv

\* reverse() commits: nobody else has that payment in a transaction.
LEMMA ReverseStep ==
  ASSUME SettlementAssumption, IInv, NEW r \in Reversals, Op[r] = "reverse", Commit(r)
  PROVE  IInv'
<1> DEFINE x == PaymentOf[r]
<1>1. /\ payment' = [payment EXCEPT ![x] = "CANCELLED"]
      /\ journal' = [journal EXCEPT ![x].reversed = @ + 1]
      /\ pc[r] = "commit" /\ pc' = [pc EXCEPT ![r] = "done"] /\ UNCHANGED answer
      /\ r \in Requests /\ x \in Payers /\ x \in Requests /\ r \notin Payers
  BY Operations DEF Commit, Paid, Reversed, Reallocated, Credited, PostEntry,
         ReverseEntry, End, Goto, Reversals, Doing
<1>2. payment[x] = "CONFIRMED" /\ \A q \in Reversals : InTransaction(q) /\ PaymentOf[q] = x => q = r
  BY <1>1 DEF IInv, LockedPayments, InTransaction, Reversals
<1> HIDE DEF x
<1>3. /\ pc'[r] = "done" /\ payment'[x] = "CANCELLED" /\ pc[x] = "done"
      /\ \A q \in Requests : q # r => pc'[q] = pc[q]
      /\ \A q \in Requests : q # x => payment'[q] = payment[q] /\ journal'[q] = journal[q]
  BY <1>1, <1>2 DEF IInv, Types, Unanswered
<1>4. Types'
  BY <1>1 DEF IInv, Types
<1>5. Unanswered' /\ Handlers'
  BY <1>1, <1>2, <1>3, Operations DEF IInv, Unanswered, Handlers
<1>6. LockedPayments'
  <2> SUFFICES ASSUME NEW p \in Reversals, InTransaction(p)'
               PROVE  /\ payment'[PaymentOf[p]] = "CONFIRMED"
                      /\ \A q \in Reversals : InTransaction(q)' /\ PaymentOf[q] = PaymentOf[p] => q = p
    BY DEF LockedPayments, Reversals
  <2>1. \A q \in Reversals : InTransaction(q)' => q # r /\ InTransaction(q)
    BY <1>3 DEF InTransaction, Reversals, Doing
  <2>2. PaymentOf[p] # x /\ PaymentOf[p] \in Requests
    BY <2>1, <1>2, Operations
  <2> QED BY <2>1, <2>2, <1>3 DEF IInv, LockedPayments, Reversals
<1>7. KeyIsOwn'
  <2>1. \A p \in Payers : Existing(p)' = Existing(p)
    BY <1>2, <1>3, Operations DEF Existing, SameKey
  <2> QED BY <2>1, <1>1, <1>3, Operations DEF IInv, KeyIsOwn, SameKey
<1>8. ReversedOnce'
  <2>1. journal[x].posted = 1 /\ journal[x].reversed = 0 /\ journal[x] \in [posted : Nat, reversed : Nat]
    BY <1>1, <1>2 DEF IInv, ReversedOnce, Types
  <2>2. journal'[x].posted = 1 /\ journal'[x].reversed = 1
    BY <1>1, <2>1 DEF IInv, Types
  <2> QED BY <2>2, <1>3, Operations DEF IInv, ReversedOnce
<1> QED BY <1>4, <1>5, <1>6, <1>7, <1>8 DEF IInv

\* Every commit.
LEMMA CommitStep ==
  ASSUME SettlementAssumption, IInv, NEW r \in Requests, Commit(r)
  PROVE  IInv'
<1>1. pc[r] = "commit" /\ r \notin Unlocked
  BY DEF Commit, Paid, Reversed, Reallocated, Credited, PostEntry, ReverseEntry,
         IInv, Handlers
<1>2. CASE Op[r] = "pay"
  BY <1>2, PayStep DEF Payers, Doing
<1>3. CASE Op[r] = "reverse"
  BY <1>3, ReverseStep DEF Reversals, Doing
<1>4. CASE Op[r] \in {"reallocate", "credit"}
  <2>1. UNCHANGED <<payment, journal, answer>> /\ pc' = [pc EXCEPT ![r] = "done"]
    BY <1>4 DEF Commit, Paid, Reversed, Reallocated, Credited, PostEntry,
           ReverseEntry, End, Goto
  <2> QED BY <1>1, <2>1, QuietStep DEF States
<1>5. Op[r] \in Ops
  BY DEF SettlementAssumption
<1> QED BY <1>1, <1>2, <1>3, <1>4, <1>5 DEF Ops, Unlocked, Doing

\* The invariant is inductive.
LEMMA NextInv ==
  ASSUME SettlementAssumption, IInv, [Next]_vars
  PROVE  IInv'
<1>1. CASE Next
  BY <1>1, LookupSteps, StepsBeforeCommit, LockPaymentStep, LockInvoiceStep, CommitStep
     DEF Next
<1>2. CASE UNCHANGED vars
  BY <1>2 DEF vars, rows, local, IInv, Types, Unanswered, Handlers, LockedPayments, KeyIsOwn,
     ReversedOnce, InTransaction, Existing, SameKey
<1> QED BY <1>1, <1>2

\* The invariant holds throughout, for any invoices, requests and keys.
LEMMA SettlementInvariant == Spec => []IInv
<1>1. Init => IInv
  BY InitInv
<1>2. IInv /\ [Next]_vars => IInv'
  BY NextInv, SettlementAssumption
<1> QED BY <1>1, <1>2, PTL DEF Spec

\* ReversedOnce, of reverse(), reallocate() and the postings: a payment has one
\* journal entry, and one reversing entry exactly when it is CANCELLED.
THEOREM SettlementReversedOnce == Spec => []ReversedOnce
  BY SettlementInvariant, PTL DEF IInv
-----------------------------------------------------------------------------
PaidSoFar == {p \in Payers : payment[p] # "NONE"}

\* What PayOnce calls the payments of a key are those create() looks up.
LEMMA MadeIsExisting ==
  ASSUME SettlementAssumption, NEW r \in Payers
  PROVE  Once!Made([p \in Payers |-> IF Key[p] = None THEN p ELSE Key[p]][r]) = Existing(r)
<1>1. \A p \in Payers : Key[p] \notin Payers
  BY Operations DEF SettlementAssumption
<1> QED BY <1>1 DEF Once!Made, Existing, SameKey

\* A step that answers no create() and makes no payment is a stutter of PayOnce.
LEMMA StutterStep ==
  ASSUME SettlementAssumption, IInv, NEW r \in Requests,
         \/ LockCounter(r) \/ LockPayment(r) \/ StartCredit(r) \/ Insert(r) \/ Rollback(r)
         \/ \E i \in Invoices : LockInvoice(r, i)
         \/ Read(r) \/ SaveReads(r) \/ SaveUpdates(r)
         \/ Op[r] # "pay" /\ Commit(r)
  PROVE  UNCHANGED <<PaidSoFar, answer>>
<1>1. CASE Op[r] # "pay" /\ Commit(r)
  <2>1. Op[r] \in {"reverse", "reallocate", "credit"}
    BY <1>1 DEF Commit, Paid, Reversed, Reallocated, Credited, PostEntry,
           ReverseEntry, IInv, Handlers, Unlocked, Doing, SettlementAssumption, Ops
  <2>2. CASE Op[r] = "reverse"
    <3>1. /\ payment' = [payment EXCEPT ![PaymentOf[r]] = "CANCELLED"] /\ UNCHANGED answer
          /\ payment[PaymentOf[r]] = "CONFIRMED"
      BY <1>1, <2>2 DEF Commit, Paid, Reversed, Reallocated, Credited, PostEntry,
             ReverseEntry, IInv, LockedPayments, InTransaction, Doing
    <3> QED BY <3>1, Operations DEF PaidSoFar, IInv, Types
  <2>3. CASE Op[r] \in {"reallocate", "credit"}
    BY <1>1, <2>3 DEF Commit, Paid, Reversed, Reallocated, Credited, PostEntry,
           ReverseEntry, PaidSoFar
  <2> QED BY <2>1, <2>2, <2>3
<1>2. CASE ~(Op[r] # "pay" /\ Commit(r))
  <2>1. UNCHANGED <<payment, answer>>
    BY <1>2 DEF LockCounter, LockPayment, StartCredit, Insert, Rollback, LockInvoice, Read,
       SaveReads, SaveUpdates, rows
  <2> QED BY <2>1 DEF PaidSoFar
<1> QED BY <1>1, <1>2

\* The commit of a create() is Pay, and an answer from the lookup is Replay.
LEMMA OnceStep ==
  ASSUME SettlementAssumption, IInv, [Next]_vars
  PROVE  [\E r \in Payers : Once!Pay(r) \/ Once!Replay(r)]_<<PaidSoFar, answer>>
<1>1. ASSUME NEW r \in Requests, Lookup(r) \/ Refetch(r)
      PROVE  UNCHANGED <<PaidSoFar, answer>> \/ (r \in Payers /\ Once!Replay(r))
  <2>1. r \in Payers /\ UNCHANGED PaidSoFar /\ answer[r] = None
    BY <1>1 DEF Lookup, Refetch, rows, PaidSoFar, IInv, Handlers, Unanswered
  <2>2. UNCHANGED answer \/ \E p \in Existing(r) : answer' = [answer EXCEPT ![r] = p]
    BY <1>1 DEF Lookup, Refetch
  <2> QED BY <2>1, <2>2, MadeIsExisting DEF Once!Replay, PaidSoFar
<1>2. ASSUME NEW r \in Requests, Op[r] = "pay", Commit(r)
      PROVE  r \in Payers /\ Once!Pay(r)
  <2>1. /\ r \in Payers /\ answer[r] = None /\ Existing(r) = {}
        /\ payment' = [payment EXCEPT ![r] = "CONFIRMED"]
        /\ answer' = [answer EXCEPT ![r] = r]
    BY <1>2 DEF Commit, Paid, Reversed, Reallocated, Credited, PostEntry,
           ReverseEntry, IInv, Unanswered, KeyIsOwn, Payers, Doing
  <2>2. PaidSoFar' = PaidSoFar \cup {r}
    BY <2>1, Operations DEF PaidSoFar, IInv, Types
  <2> QED BY <2>1, <2>2, MadeIsExisting DEF Once!Pay, PaidSoFar
<1>3. CASE UNCHANGED vars
  BY <1>3 DEF vars, rows, PaidSoFar
<1>4. CASE Next
  BY <1>4, <1>1, <1>2, StutterStep DEF Next
<1> QED BY <1>3, <1>4

\* PaidOnce, of create(): the lookup, the unique key and the refetch implement
\* PayOnce, so that requests of one key are answered with one payment.
THEOREM SettlementPaidOnce == Spec => PaidOnce
<1>1. Init => Once!Init
  BY Operations, SettlementAssumption DEF Init, Once!Init
<1>2. IInv /\ [Next]_vars => [\E r \in Payers : Once!Pay(r) \/ Once!Replay(r)]_<<PaidSoFar, answer>>
  BY OnceStep, SettlementAssumption
<1> QED BY <1>1, <1>2, SettlementInvariant, PTL DEF Spec, PaidOnce, Once!Spec, PaidSoFar
-----------------------------------------------------------------------------
Billed  == [status : {"DRAFT", "POSTED", "VOIDED"}, paid : Int, credited : Int, balance : Int]
Ordered == [status : {"RELEASED", "CLOSED"}, paid : Int, balance : Int]
Rows(r) == IF Op[r] = "close" THEN Ordered ELSE Billed

MirrorTypes ==
  /\ invoice \in [Invoices -> Billed] /\ order \in [Invoices -> Ordered]
  /\ held \in [Requests -> SUBSET Invoices]
  /\ work \in [Requests -> [Invoices -> Billed]]
  /\ entity \in [Requests -> Billed \cup Ordered]
  /\ seen \in [Requests -> Billed \cup Ordered]

Saving(r) == pc[r] \in {"save", "update"}

\* Only the unlocked handlers save an entity.
Savers ==
  \A r \in Requests : Saving(r) =>
    r \in Unlocked /\ entity[r] \in Rows(r) /\ (pc[r] = "update" => seen[r] \in Rows(r))

\* What such a handler has read and checked still holds of a row that did not
\* change.
ReadUnlessRaced ==
  \A r \in Requests : Saving(r) /\ <<Table(r), Target(r)>> \notin raced =>
    /\ Allowed(r, RowOf(r)) /\ entity[r] = Assigned(r, RowOf(r))
    /\ pc[r] = "update" => seen[r] = RowOf(r)

LocksExclude == \A q, r \in Requests : q # r => held[q] \cap held[r] = {}

\* A credit leaves paidAmount as it found it, and nobody else changes it.
CreditKeepsPaid ==
  \A r \in Requests : Op[r] = "credit" =>
    \A i \in held[r] : work[r][i].paid = invoice[i].paid

MirrorInv ==
  /\ MirrorTypes /\ Savers /\ ReadUnlessRaced /\ LocksExclude /\ CreditKeepsPaid
  /\ OrderMirrorsInvoice
-----------------------------------------------------------------------------
\* A handler that saves has one row, that of its table.
LEMMA SaverTargets ==
  ASSUME SettlementAssumption, NEW r \in Unlocked
  PROVE  /\ Target(r) \in Invoices /\ r \in Requests /\ Op[r] \in {"post", "void", "close"}
         /\ Table(r) = IF Op[r] = "close" THEN "order" ELSE "invoice"
<1>1. r \in Requests /\ Op[r] \in {"post", "void", "close"}
  BY DEF Unlocked, Doing
<1>2. \E i \in Invoices : Targets[r] = {i}
  BY <1>1 DEF SettlementAssumption, Doing
<1> QED BY <1>1, <1>2 DEF Target, Table

\* The row of a handler that saves has the columns of its table.
LEMMA RowHasType ==
  ASSUME SettlementAssumption, MirrorTypes, NEW r \in Unlocked
  PROVE  RowOf(r) \in Rows(r) /\ Assigned(r, RowOf(r)) \in Rows(r)
<1>1. RowOf(r) \in Rows(r)
  BY SaverTargets DEF MirrorTypes, RowOf, Rows
<1>2. Op[r] \in {"post", "void", "close"}
  BY SaverTargets
<1>3. Assigned(r, RowOf(r)) \in Rows(r)
  <2>1. CASE Op[r] = "post"
    BY <1>1, <2>1 DEF Assigned, Rows, Billed
  <2>2. CASE Op[r] = "void"
    <3> DEFINE b == RowOf(r)
    <3>1. b \in Billed /\ Assigned(r, b) = [b EXCEPT !.status = "VOIDED", !.balance = 0]
      BY <1>1, <2>2 DEF Rows, Assigned
    <3> HIDE DEF b
    <3>2. [b EXCEPT !.status = "VOIDED"] \in Billed
      BY <3>1 DEF Billed
    <3>3. \A a \in Billed : [a EXCEPT !.balance = 0] \in Billed
      BY DEF Billed
    <3>4. [b EXCEPT !.status = "VOIDED", !.balance = 0] \in Billed
      BY <3>2, <3>3, Zenon
    <3>5. Assigned(r, b) \in Billed
      BY <3>1, <3>4, Zenon
    <3>6. Rows(r) = Billed /\ b = RowOf(r)
      BY <2>2 DEF Rows, b
    <3> QED BY <3>5, <3>6
  <2>3. CASE Op[r] = "close"
    BY <1>1, <2>3 DEF Assigned, Rows, Ordered
  <2> QED BY <1>2, <2>1, <2>2, <2>3
<1> QED BY <1>1, <1>3

LEMMA MirrorInit == Init => MirrorInv
<1> SUFFICES ASSUME Init PROVE MirrorInv
  OBVIOUS
<1> USE SettlementAssumption DEF SettlementAssumption, Init
<1>1. Blank \in Billed /\ \A i \in Invoices, st \in {"DRAFT", "POSTED"} : Row(st, i) \in Billed
  BY DEF Blank, Row, Billed
<1>2. MirrorTypes
  BY <1>1 DEF MirrorTypes, Ordered
<1>3. OrderMirrorsInvoice
  BY DEF OrderMirrorsInvoice, Row
<1> QED BY <1>2, <1>3 DEF MirrorInv, Savers, ReadUnlessRaced, LocksExclude, CreditKeepsPaid, Saving

\* A step that changes no row, and after which its request does not save.
LEMMA MirrorQuiet ==
  ASSUME SettlementAssumption, IInv, MirrorInv, NEW r \in Requests, NEW w,
         w \notin {"save", "update"}, pc' = [pc EXCEPT ![r] = w],
         UNCHANGED <<invoice, order, raced>>,
         \/ UNCHANGED <<held, work, entity, seen>>
         \/ /\ held'   = [held EXCEPT ![r] = {}]
            /\ work'   = [work EXCEPT ![r] = [i \in Invoices |-> Blank]]
            /\ entity' = [entity EXCEPT ![r] = Blank]
            /\ seen'   = [seen EXCEPT ![r] = Blank]
  PROVE  MirrorInv'
<1> USE DEF MirrorInv, MirrorTypes
<1>1. Blank \in Billed
  BY DEF Blank, Billed
<1>2. MirrorTypes'
  <2>1. [i \in Invoices |-> Blank] \in [Invoices -> Billed]
    BY <1>1
  <2>2. CASE UNCHANGED <<held, work, entity, seen>>
    BY <2>2
  <2>3. CASE /\ held'   = [held EXCEPT ![r] = {}]
             /\ work'   = [work EXCEPT ![r] = [i \in Invoices |-> Blank]]
             /\ entity' = [entity EXCEPT ![r] = Blank]
             /\ seen'   = [seen EXCEPT ![r] = Blank]
    BY <1>1, <2>1, <2>3
  <2> QED BY <2>2, <2>3
<1>3. \A q \in Requests : Saving(q)' =>
        /\ Saving(q) /\ pc'[q] = pc[q] /\ entity'[q] = entity[q] /\ seen'[q] = seen[q]
        /\ RowOf(q)' = RowOf(q)
  BY DEF IInv, Types, Saving, RowOf
<1>4. Savers' /\ ReadUnlessRaced'
  BY <1>3 DEF Savers, ReadUnlessRaced, Rows
<1>5. \A q \in Requests : held'[q] = {} \/ (held'[q] = held[q] /\ work'[q] = work[q])
  OBVIOUS
<1>6. LocksExclude'
  BY <1>5 DEF LocksExclude
<1>7. CreditKeepsPaid'
  <2>1. CreditKeepsPaid /\ invoice' = invoice
    OBVIOUS
  <2> HIDE DEF MirrorInv, MirrorTypes
  <2> QED BY <1>5, <2>1 DEF CreditKeepsPaid
<1>8. OrderMirrorsInvoice'
  BY DEF OrderMirrorsInvoice
<1> QED BY <1>2, <1>4, <1>6, <1>7, <1>8

\* An invoice is locked by one transaction; a credit copies its paidAmount.
LEMMA MirrorLocks ==
  ASSUME SettlementAssumption, IInv, MirrorInv, NEW r \in Requests, NEW i \in Invoices,
         LockInvoice(r, i)
  PROVE  MirrorInv'
<1> USE DEF MirrorInv, MirrorTypes
<1>1. UNCHANGED <<invoice, order, raced, entity, seen>> /\ GrandTotal[i] \in Nat
  BY DEF LockInvoice, rows, SettlementAssumption
<1>2. \A q \in Requests : Saving(q)' => Saving(q) /\ pc'[q] = pc[q] /\ RowOf(q)' = RowOf(q)
  BY <1>1 DEF LockInvoice, Goto, IInv, Types, Saving, RowOf
<1>3. Current(r, i) \in Billed
  BY DEF Current
<1>4. /\ Changed(r, i, Current(r, i)) \in Billed
      /\ Op[r] = "credit" => Changed(r, i, Current(r, i)).paid = Current(r, i).paid
  <2> DEFINE c == Current(r, i)
  <2> HIDE DEF c
  <2>1. c \in Billed
    BY <1>3 DEF c
  <2>2. \A a, b, d \in Int : [c EXCEPT !.paid = a, !.credited = b, !.balance = d] \in Billed
    BY <2>1 DEF Billed
  <2>3. \A a, b \in Int : Owed(i, a, b) \in Int
    BY <1>1 DEF Owed
  <2>4. c.paid \in Int /\ c.credited \in Int /\ c.balance \in Int
    BY <2>1 DEF Billed
  <2>5. c.paid + 1 \in Int /\ c.paid - 1 \in Int /\ c.credited + 1 \in Int
    BY <2>4
  <2>6. Changed(r, i, c) \in Billed
    <3> DEFINE paid     == IF Op[r] = "credit" THEN c.paid
                           ELSE IF release[r] # {} THEN c.paid - 1 ELSE c.paid + 1
               credited == IF Op[r] = "credit" /\ c.balance >= 1
                           THEN c.credited + 1 ELSE c.credited
               owed     == Owed(i, paid, credited)
    <3>1. paid \in Int /\ credited \in Int
      BY <2>4, <2>5
    <3>2. owed \in Int
      BY <2>3, <3>1
    <3>3. Changed(r, i, c) =
            [c EXCEPT !.paid = paid, !.credited = credited,
                      !.balance = IF Op[r] = "credit" /\ owed < 0 THEN 0 ELSE owed]
      BY DEF Changed
    <3> HIDE DEF paid, credited, owed
    <3>4. PICK n \in Int : n = IF Op[r] = "credit" /\ owed < 0 THEN 0 ELSE owed
      BY <3>2
    <3>5. Changed(r, i, c) = [c EXCEPT !.paid = paid, !.credited = credited, !.balance = n]
      BY <3>3, <3>4
    <3>6. [c EXCEPT !.paid = paid, !.credited = credited, !.balance = n] \in Billed
      BY <2>2, <3>1, Zenon
    <3> QED BY <3>5, <3>6, Zenon
  <2>7. Op[r] = "credit" => Changed(r, i, c).paid = c.paid
    BY <2>1 DEF Changed, Billed
  <2> QED BY <2>6, <2>7 DEF c
<1>5. /\ held' = [held EXCEPT ![r] = @ \cup {i}]
      /\ work' = [work EXCEPT ![r][i] = Changed(r, i, Current(r, i))]
      /\ \A q \in Requests \ {r} : i \notin held[q]
  BY DEF LockInvoice
<1>6. MirrorTypes'
  <2>1. held' \in [Requests -> SUBSET Invoices]
    BY <1>5
  <2>2. work' \in [Requests -> [Invoices -> Billed]]
    <3> DEFINE x == Changed(r, i, Current(r, i))
    <3>1. x \in Billed
      BY <1>4
    <3>2. work' = [work EXCEPT ![r][i] = x]
      BY <1>5
    <3> HIDE DEF x
    <3>3. [work[r] EXCEPT ![i] = x] \in [Invoices -> Billed]
      BY <3>1
    <3> QED BY <3>1, <3>2, <3>3
  <2> QED BY <1>1, <2>1, <2>2
<1>7. LocksExclude'
  BY <1>5 DEF LocksExclude
<1>8. CreditKeepsPaid'
  <2> SUFFICES ASSUME NEW q \in Requests, Op[q] = "credit", NEW j \in held'[q]
               PROVE  work'[q][j].paid = invoice[j].paid
    BY <1>1 DEF CreditKeepsPaid
  <2>1. CASE q = r /\ j = i
    <3>1. work'[r][i] = Changed(r, i, Current(r, i))
      BY <1>5
    <3>2. Current(r, i).paid = invoice[i].paid
      BY <2>1 DEF CreditKeepsPaid, Current
    <3> HIDE DEF MirrorInv, MirrorTypes
    <3>3. Op[r] = "credit"
      BY <2>1
    <3>4. Changed(r, i, Current(r, i)).paid = Current(r, i).paid
      BY <1>4, <3>3
    <3> QED BY <2>1, <3>1, <3>2, <3>4
  <2>2. CASE q # r \/ j # i
    <3>1. j \in held[q] /\ work'[q][j] = work[q][j]
      BY <1>5, <2>2
    <3> QED BY <3>1 DEF CreditKeepsPaid
  <2> QED BY <2>1, <2>2
<1>9. Savers' /\ ReadUnlessRaced' /\ OrderMirrorsInvoice'
  <2>1. Savers /\ ReadUnlessRaced /\ OrderMirrorsInvoice
    OBVIOUS
  <2> HIDE DEF MirrorInv, MirrorTypes
  <2>2. Savers'
    BY <1>1, <1>2, <2>1 DEF Savers, Rows
  <2>3. ReadUnlessRaced'
    BY <1>1, <1>2, <2>1 DEF ReadUnlessRaced
  <2>4. OrderMirrorsInvoice'
    BY <1>1, <2>1 DEF OrderMirrorsInvoice
  <2> QED BY <2>2, <2>3, <2>4
<1> QED BY <1>6, <1>7, <1>8, <1>9

\* A commit writes invoice and order alike; who has read one of them and not
\* saved it is raced.
LEMMA MirrorCommit ==
  ASSUME SettlementAssumption, IInv, MirrorInv, NEW r \in Requests, Commit(r)
  PROVE  MirrorInv'
<1> USE DEF MirrorInv, MirrorTypes
<1>1. /\ invoice' = [i \in Invoices |-> IF i \in held[r] THEN work[r][i] ELSE invoice[i]]
      /\ order' = [i \in Invoices |-> IF i \in held[r] THEN OrderAfter(r, i) ELSE order[i]]
      /\ raced' = raced \cup Races({}, held[r])
      /\ held'   = [held EXCEPT ![r] = {}]
      /\ work'   = [work EXCEPT ![r] = [i \in Invoices |-> Blank]]
      /\ entity' = [entity EXCEPT ![r] = Blank]
      /\ seen'   = [seen EXCEPT ![r] = Blank]
  BY DEF Commit, End
<1>2. Blank \in Billed /\ \A i \in Invoices : OrderAfter(r, i) \in Ordered
  <2>1. \A o \in Ordered, m, n \in Int : /\ [o EXCEPT !.balance = n] \in Ordered
                                       /\ [o EXCEPT !.paid = m, !.balance = n] \in Ordered
    BY DEF Ordered
  <2>2. \A i \in Invoices : work[r][i].paid \in Int /\ work[r][i].balance \in Int
    BY DEF Billed
  <2>3. \A i \in Invoices : OrderAfter(r, i) \in Ordered
    BY <2>1, <2>2 DEF OrderAfter
  <2> QED BY <2>3 DEF Blank, Billed
<1>3. MirrorTypes'
  BY <1>1, <1>2
<1>4. \A q \in Requests : Saving(q)' =>
        q # r /\ Saving(q) /\ pc'[q] = pc[q] /\ entity'[q] = entity[q] /\ seen'[q] = seen[q]
  BY <1>1 DEF Commit, End, Goto, IInv, Types, Saving
<1>5. Savers'
  BY <1>4 DEF Savers, Rows
<1>6. \A q \in Requests : Saving(q)' /\ <<Table(q), Target(q)>> \notin raced' =>
        RowOf(q)' = RowOf(q) /\ <<Table(q), Target(q)>> \notin raced
  <2> SUFFICES ASSUME NEW q \in Requests, Saving(q)', <<Table(q), Target(q)>> \notin raced'
               PROVE  RowOf(q)' = RowOf(q) /\ <<Table(q), Target(q)>> \notin raced
    OBVIOUS
  <2>1. q \in Unlocked /\ Open(q) /\ Target(q) \in Invoices
    BY <1>4, SaverTargets DEF Savers, Saving, Open
  <2>2. Target(q) \notin held[r]
    BY <1>1, <2>1 DEF Races
  <2> QED BY <1>1, <2>1, <2>2 DEF RowOf
<1>7. ReadUnlessRaced'
  BY <1>4, <1>6 DEF ReadUnlessRaced
<1>8. LocksExclude' /\ CreditKeepsPaid'
  <2>1. \A q \in Requests : q # r => held'[q] = held[q] /\ work'[q] = work[q]
    BY <1>1
  <2>2. held'[r] = {}
    BY <1>1
  <2>3. \A q \in Requests, i \in Invoices : q # r /\ i \in held[q] => invoice'[i] = invoice[i]
    BY <1>1 DEF LocksExclude
  <2>4. LocksExclude'
    BY <2>1, <2>2 DEF LocksExclude
  <2>5. CreditKeepsPaid'
    <3>1. CreditKeepsPaid /\ \A q \in Requests : held[q] \subseteq Invoices
      OBVIOUS
    <3> HIDE DEF MirrorInv, MirrorTypes
    <3>2. ASSUME NEW q \in Requests, Op[q] = "credit", NEW i \in held'[q]
          PROVE  work'[q][i].paid = invoice'[i].paid
      <4>1. q # r /\ i \in held[q] /\ i \in Invoices /\ work'[q] = work[q]
        BY <2>1, <2>2, <3>1, <3>2
      <4>2. work[q][i].paid = invoice[i].paid
        BY <3>1, <3>2, <4>1 DEF CreditKeepsPaid
      <4> QED BY <2>3, <4>1, <4>2
    <3> QED BY <3>2 DEF CreditKeepsPaid
  <2> QED BY <2>4, <2>5
<1>9. OrderMirrorsInvoice'
  <2> SUFFICES ASSUME NEW i \in Invoices, raced' \cap ({"invoice", "order"} \X {i}) = {}
               PROVE  /\ order'[i].paid = invoice'[i].paid
                      /\ invoice'[i].status # "VOIDED" => order'[i].balance = invoice'[i].balance
    BY DEF OrderMirrorsInvoice
  <2>1. /\ order[i].paid = invoice[i].paid
        /\ invoice[i].status # "VOIDED" => order[i].balance = invoice[i].balance
    BY <1>1 DEF OrderMirrorsInvoice
  <2>2. CASE i \in held[r]
    <3>1. invoice'[i] = work[r][i] /\ order'[i] = OrderAfter(r, i)
      BY <1>1, <2>2
    <3>2. OrderAfter(r, i).balance = work[r][i].balance
      BY DEF OrderAfter, Ordered
    <3>3. OrderAfter(r, i).paid = work[r][i].paid
      BY <2>1, <2>2 DEF OrderAfter, Ordered, CreditKeepsPaid
    <3> QED BY <3>1, <3>2, <3>3
  <2>3. CASE i \notin held[r]
    BY <1>1, <2>1, <2>3
  <2> QED BY <2>2, <2>3
<1> QED BY <1>3, <1>5, <1>7, <1>8, <1>9

\* The unlocked read, and the one of save().
LEMMA MirrorReads ==
  ASSUME SettlementAssumption, IInv, MirrorInv, NEW r \in Requests, Read(r) \/ SaveReads(r)
  PROVE  MirrorInv'
<1> USE DEF MirrorInv, MirrorTypes
<1>1. UNCHANGED <<invoice, order, raced, held, work>> /\ r \in Unlocked
  BY DEF Read, SaveReads, rows, Savers, Saving
<1>2. RowOf(r) \in Rows(r) /\ Assigned(r, RowOf(r)) \in Rows(r)
      /\ Rows(r) \subseteq Billed \cup Ordered
  BY <1>1, RowHasType DEF Rows
<1>3. MirrorTypes'
  BY <1>1, <1>2 DEF Read, SaveReads
<1>4. \A q \in Requests : RowOf(q)' = RowOf(q)
  BY <1>1 DEF RowOf
<1>5. \A q \in Requests : q # r =>
        pc'[q] = pc[q] /\ entity'[q] = entity[q] /\ seen'[q] = seen[q]
  BY DEF Read, SaveReads, Goto, IInv, Types
<1>6. CASE Read(r)
  <2> SUFFICES Savers' /\ ReadUnlessRaced'
    BY <1>1, <1>3 DEF LocksExclude, CreditKeepsPaid, OrderMirrorsInvoice
  <2>1. pc'[r] = "save" /\ entity'[r] = Assigned(r, RowOf(r)) /\ Allowed(r, RowOf(r))
    BY <1>6 DEF Read, Goto, IInv, Types
  <2>2. Savers /\ ReadUnlessRaced
    OBVIOUS
  <2> HIDE DEF MirrorInv, MirrorTypes
  <2>3. Savers'
    BY <1>1, <1>2, <1>5, <2>1, <2>2 DEF Savers, Saving, Rows
  <2>4. ASSUME NEW q \in Requests, Saving(q)', <<Table(q), Target(q)>> \notin raced
        PROVE  /\ Allowed(q, RowOf(q)) /\ entity'[q] = Assigned(q, RowOf(q))
               /\ pc'[q] = "update" => seen'[q] = RowOf(q)
    <3>1. CASE q = r
      BY <2>1, <2>2, <2>4, <3>1 DEF ReadUnlessRaced, Saving
    <3>2. CASE q # r
      <4>1. Saving(q) /\ pc'[q] = pc[q] /\ entity'[q] = entity[q] /\ seen'[q] = seen[q]
        BY <1>5, <2>4, <3>2 DEF Saving
      <4> QED BY <2>2, <2>4, <4>1 DEF ReadUnlessRaced
    <3> QED BY <3>1, <3>2
  <2>5. ReadUnlessRaced'
    BY <1>1, <1>4, <2>4 DEF ReadUnlessRaced
  <2> QED BY <2>3, <2>5
<1>7. CASE SaveReads(r)
  <2> SUFFICES Savers' /\ ReadUnlessRaced'
    BY <1>1, <1>3 DEF LocksExclude, CreditKeepsPaid, OrderMirrorsInvoice
  <2>1. /\ pc[r] = "save" /\ pc'[r] = "update" /\ entity'[r] = entity[r]
        /\ seen'[r] = RowOf(r)
    BY <1>7 DEF SaveReads, Goto, IInv, Types
  <2>2. Savers /\ ReadUnlessRaced
    OBVIOUS
  <2> HIDE DEF MirrorInv, MirrorTypes
  <2>3. Savers'
    BY <1>1, <1>2, <1>5, <2>1, <2>2 DEF Savers, Saving, Rows
  <2>4. ASSUME NEW q \in Requests, Saving(q)', <<Table(q), Target(q)>> \notin raced
        PROVE  /\ Allowed(q, RowOf(q)) /\ entity'[q] = Assigned(q, RowOf(q))
               /\ pc'[q] = "update" => seen'[q] = RowOf(q)
    <3>1. CASE q = r
      BY <2>1, <2>2, <2>4, <3>1 DEF ReadUnlessRaced, Saving
    <3>2. CASE q # r
      <4>1. Saving(q) /\ pc'[q] = pc[q] /\ entity'[q] = entity[q] /\ seen'[q] = seen[q]
        BY <1>5, <2>4, <3>2 DEF Saving
      <4> QED BY <2>2, <2>4, <4>1 DEF ReadUnlessRaced
    <3> QED BY <3>1, <3>2
  <2>5. ReadUnlessRaced'
    BY <1>1, <1>4, <2>4 DEF ReadUnlessRaced
  <2> QED BY <2>3, <2>5
<1> QED BY <1>6, <1>7

\* save() of a row that is as it was read writes what was assigned to it: a
\* status, and no balance but that of an invoice that is voided.
LEMMA MirrorSaves ==
  ASSUME SettlementAssumption, IInv, MirrorInv, NEW r \in Requests, SaveUpdates(r)
  PROVE  MirrorInv'
<1> DEFINE i   == Target(r)
           row == [c \in DOMAIN RowOf(r) |->
                    IF c \in Differing(r) THEN entity[r][c] ELSE RowOf(r)[c]]
<1> USE DEF MirrorInv, MirrorTypes
<1>1. /\ r \in Unlocked /\ pc[r] = "update" /\ entity[r] \in Rows(r) /\ seen[r] \in Rows(r)
      /\ i \in Invoices
  BY SaverTargets DEF SaveUpdates, Savers, Saving
<1>2. /\ IF Op[r] = "close"
         THEN order' = [order EXCEPT ![i] = row] /\ UNCHANGED invoice
         ELSE invoice' = [invoice EXCEPT ![i] = row] /\ UNCHANGED order
      /\ raced' = raced \cup (Races({r}, {i}) \cap {<<Table(r), i>>})
      /\ \A q \in Requests : i \notin held[q]
      /\ held'   = [held EXCEPT ![r] = {}]
      /\ work'   = [work EXCEPT ![r] = [j \in Invoices |-> Blank]]
      /\ entity' = [entity EXCEPT ![r] = Blank]
      /\ seen'   = [seen EXCEPT ![r] = Blank]
      /\ pc'     = [pc EXCEPT ![r] = "done"]
  BY DEF SaveUpdates, End, Goto
<1>3. RowOf(r) \in Rows(r) /\ Blank \in Billed
  BY <1>1, RowHasType DEF Blank, Billed
<1>4. row \in Rows(r)
  <2>1. CASE Op[r] = "close"
    <3>1. DOMAIN RowOf(r) = {"status", "paid", "balance"}
      BY <1>3, <2>1 DEF Rows, Ordered
    <3> QED BY <1>1, <1>3, <2>1, <3>1 DEF Rows, Ordered
  <2>2. CASE Op[r] # "close"
    <3>1. DOMAIN RowOf(r) = {"status", "paid", "credited", "balance"}
      BY <1>3, <2>2 DEF Rows, Billed
    <3> QED BY <1>1, <1>3, <2>2, <3>1 DEF Rows, Billed
  <2> QED BY <2>1, <2>2
<1>5. <<Table(r), i>> \notin raced =>
        /\ Allowed(r, RowOf(r)) /\ row = Assigned(r, RowOf(r))
  <2> SUFFICES ASSUME <<Table(r), i>> \notin raced
               PROVE  Allowed(r, RowOf(r)) /\ row = Assigned(r, RowOf(r))
    OBVIOUS
  <2>1. Allowed(r, RowOf(r)) /\ entity[r] = Assigned(r, RowOf(r)) /\ seen[r] = RowOf(r)
    BY <1>1 DEF ReadUnlessRaced, Saving
  <2>2. row = [c \in DOMAIN RowOf(r) |-> entity[r][c]]
    BY <2>1 DEF Differing
  <2>3. entity[r] = [c \in DOMAIN RowOf(r) |-> entity[r][c]]
    BY <1>1, <1>3 DEF Rows, Billed, Ordered
  <2> QED BY <2>1, <2>2, <2>3
<1> HIDE DEF row, i
<1>6. MirrorTypes'
  <2>1. invoice' \in [Invoices -> Billed] /\ order' \in [Invoices -> Ordered]
    <3>1. CASE Op[r] = "close"
      <4>1. row \in Ordered
        BY <1>4, <3>1 DEF Rows
      <4>2. order' = [order EXCEPT ![i] = row] /\ invoice' = invoice
        BY <1>2, <3>1
      <4> QED BY <4>1, <4>2
    <3>2. CASE Op[r] # "close"
      <4>1. row \in Billed
        BY <1>4, <3>2 DEF Rows
      <4>2. invoice' = [invoice EXCEPT ![i] = row] /\ order' = order
        BY <1>2, <3>2
      <4> QED BY <4>1, <4>2
    <3> QED BY <3>1, <3>2
  <2>2. [j \in Invoices |-> Blank] \in [Invoices -> Billed]
    BY <1>3
  <2>3. held' \in [Requests -> SUBSET Invoices] /\ work' \in [Requests -> [Invoices -> Billed]]
    BY <1>2, <2>2
  <2>4. /\ entity' \in [Requests -> Billed \cup Ordered]
        /\ seen' \in [Requests -> Billed \cup Ordered]
    BY <1>2, <1>3
  <2> QED BY <2>1, <2>3, <2>4
<1>7. \A q \in Requests : Saving(q)' =>
        q # r /\ Saving(q) /\ pc'[q] = pc[q] /\ entity'[q] = entity[q] /\ seen'[q] = seen[q]
  BY <1>2 DEF IInv, Types, Saving
<1>8. Savers'
  BY <1>7 DEF Savers, Rows
<1>9. \A q \in Requests : Saving(q)' /\ <<Table(q), Target(q)>> \notin raced' =>
        RowOf(q)' = RowOf(q) /\ <<Table(q), Target(q)>> \notin raced
  <2> SUFFICES ASSUME NEW q \in Requests, Saving(q)', <<Table(q), Target(q)>> \notin raced'
               PROVE  RowOf(q)' = RowOf(q) /\ <<Table(q), Target(q)>> \notin raced
    OBVIOUS
  <2>1. q \in Unlocked \ {r} /\ Open(q) /\ Target(q) \in Invoices
    BY <1>7, SaverTargets DEF Savers, Saving, Open
  <2>2. Target(q) = i => Table(q) # Table(r)
    BY <1>2, <2>1 DEF Races
  <2> QED BY <1>1, <1>2, <2>1, <2>2 DEF RowOf, Table
<1>10. ReadUnlessRaced'
  BY <1>7, <1>9 DEF ReadUnlessRaced
<1>11. LocksExclude' /\ CreditKeepsPaid'
  <2>1. \A q \in Requests : \A j \in held'[q] :
          j \in held[q] /\ work'[q] = work[q] /\ invoice'[j] = invoice[j]
    BY <1>1, <1>2
  <2> QED BY <2>1 DEF LocksExclude, CreditKeepsPaid
<1>12. OrderMirrorsInvoice'
  <2> SUFFICES ASSUME NEW j \in Invoices, raced' \cap ({"invoice", "order"} \X {j}) = {}
               PROVE  /\ order'[j].paid = invoice'[j].paid
                      /\ invoice'[j].status # "VOIDED" => order'[j].balance = invoice'[j].balance
    BY DEF OrderMirrorsInvoice
  <2>1. /\ order[j].paid = invoice[j].paid
        /\ invoice[j].status # "VOIDED" => order[j].balance = invoice[j].balance
    BY <1>2 DEF OrderMirrorsInvoice
  <2>2. CASE j # i
    BY <1>2, <2>1, <2>2
  <2>3. CASE j = i
    <3>1. Allowed(r, RowOf(r)) /\ row = Assigned(r, RowOf(r))
      BY <1>2, <1>5, <2>3 DEF Table
    <3>2. CASE Op[r] = "close"
      <4>1. order'[i] = [order[i] EXCEPT !.status = "CLOSED"] /\ invoice'[i] = invoice[i]
        BY <1>1, <1>2, <3>1, <3>2 DEF RowOf, Assigned, i
      <4> QED BY <1>1, <2>1, <2>3, <4>1 DEF Ordered
    <3>3. CASE Op[r] = "post"
      <4>1. /\ invoice'[i] = [invoice[i] EXCEPT !.status = "POSTED"] /\ order'[i] = order[i]
            /\ invoice[i].status = "DRAFT"
        BY <1>1, <1>2, <3>1, <3>3 DEF RowOf, Assigned, Allowed, i
      <4> QED BY <1>1, <2>1, <2>3, <4>1 DEF Billed
    <3>4. CASE Op[r] = "void"
      <4>1. /\ invoice'[i] = [invoice[i] EXCEPT !.status = "VOIDED", !.balance = 0]
            /\ order'[i] = order[i]
        BY <1>1, <1>2, <3>1, <3>4 DEF RowOf, Assigned, i
      <4> QED BY <1>1, <2>1, <2>3, <4>1 DEF Billed
    <3> QED BY <1>1, <3>2, <3>3, <3>4, SaverTargets
  <2> QED BY <2>2, <2>3
<1> QED BY <1>6, <1>8, <1>10, <1>11, <1>12

LEMMA MirrorNext == IInv /\ MirrorInv /\ [Next]_vars => MirrorInv'
<1> SUFFICES ASSUME IInv, MirrorInv, [Next]_vars
             PROVE  MirrorInv'
  OBVIOUS
<1>1. CASE UNCHANGED vars
  BY <1>1 DEF vars, rows, local, MirrorInv, MirrorTypes, Savers, Saving, ReadUnlessRaced,
     RowOf, LocksExclude, CreditKeepsPaid, OrderMirrorsInvoice
<1>2. CASE Next
  <2> PICK r \in Requests :
        \/ Lookup(r) \/ LockCounter(r) \/ LockPayment(r) \/ StartCredit(r)
        \/ \E i \in Invoices : LockInvoice(r, i)
        \/ Insert(r) \/ Refetch(r) \/ Commit(r) \/ Rollback(r)
        \/ Read(r) \/ SaveReads(r) \/ SaveUpdates(r)
    BY <1>2 DEF Next
  <2> USE SettlementAssumption DEF Goto, End, rows, local
  <2>1. CASE Lookup(r)
    BY <2>1, MirrorQuiet DEF Lookup
  <2>2. CASE LockCounter(r)
    BY <2>2, MirrorQuiet DEF LockCounter
  <2>3. CASE LockPayment(r)
    BY <2>3, MirrorQuiet DEF LockPayment
  <2>4. CASE StartCredit(r)
    BY <2>4, MirrorQuiet DEF StartCredit
  <2>5. CASE Insert(r)
    BY <2>5, MirrorQuiet DEF Insert
  <2>6. CASE Refetch(r)
    BY <2>6, MirrorQuiet DEF Refetch
  <2>7. CASE Rollback(r)
    BY <2>7, MirrorQuiet DEF Rollback
  <2>8. CASE \E i \in Invoices : LockInvoice(r, i)
    BY <2>8, MirrorLocks
  <2>9. CASE Commit(r)
    BY <2>9, MirrorCommit
  <2>10. CASE Read(r) \/ SaveReads(r)
    BY <2>10, MirrorReads
  <2>11. CASE SaveUpdates(r)
    BY <2>11, MirrorSaves
  <2> QED BY <2>1, <2>2, <2>3, <2>4, <2>5, <2>6, <2>7, <2>8, <2>9, <2>10, <2>11
<1> QED BY <1>1, <1>2

\* The order shows the money of its invoice after any sequence of payments,
\* reversals, reallocations, credits, posts, voids and closes, unless one of the
\* two changed between the unlocked read and the save() of the last three.
THEOREM SettlementMirrored == Spec => []OrderMirrorsInvoice
<1>1. MirrorInv => OrderMirrorsInvoice
  BY DEF MirrorInv
<1> QED BY <1>1, SettlementInvariant, MirrorInit, MirrorNext, PTL DEF Spec

-----------------------------------------------------------------------------
\* The invoices a transaction has taken its unit back from, and those it has
\* applied it to.
Taken(r) == IF r \in Reversals THEN alloc[PaymentOf[r]] \ release[r] ELSE {}
Given(r) == IF Op[r] = "reverse" THEN {} ELSE Targets[r] \ apply[r]

LockTypes ==
  /\ alloc   \in [Requests -> SUBSET Invoices]
  /\ release \in [Requests -> SUBSET Invoices]
  /\ apply   \in [Requests -> SUBSET Invoices]
  /\ held    \in [Requests -> SUBSET Invoices]

\* What a transaction has to do and what it has locked add up to its invoices;
\* outside of one a request has nothing to do and no lock.
Progress ==
  \A r \in Requests :
    /\ ~InTransaction(r) => held[r] = {}
    /\ pc[r] # "lock" => release[r] = {} /\ apply[r] = {}
    /\ InTransaction(r) =>
         /\ release[r] \subseteq (IF r \in Reversals THEN alloc[PaymentOf[r]] ELSE {})
         /\ apply[r] \subseteq (IF Op[r] = "reverse" THEN {} ELSE Targets[r])
         /\ held[r] = Taken(r) \cup Given(r)
         /\ release[r] # {} => Given(r) = {}

\* All but a reallocation lock upwards.
Upwards ==
  \A r \in Requests : Op[r] # "reallocate" =>
    \A j \in held[r] : \A i \in release[r] \cup apply[r] : j < i

LockInv == LockTypes /\ Progress /\ Upwards /\ LocksExclude

OneIf(b) == IF b THEN 1 ELSE 0

\* The balance of a row is what is owed, or nothing after a void().
Balanced(i, row) ==
  /\ row.paid + row.credited <= GrandTotal[i]
  /\ \/ row.balance = Owed(i, row.paid, row.credited)
     \/ row.status = "VOIDED" /\ row.balance = 0

\* An invoice that did not change under an unlocked handler: what is paid is
\* allocated, ...
Allocated ==
  \A i \in Invoices : <<"invoice", i>> \notin raced =>
    /\ invoice[i].paid = Cardinality(PaidBy(i))
    /\ PaidBy(i) # {} => invoice[i].status = "POSTED"
    /\ Balanced(i, invoice[i])

\* ... and so it is in a transaction, but for the units that moves.
Working ==
  \A r \in Requests : \A i \in held[r] : <<"invoice", i>> \notin raced =>
    /\ Op[r] = "credit" \/
         work[r][i].paid = invoice[i].paid - OneIf(i \in Taken(r)) + OneIf(i \in Given(r))
    /\ work[r][i].status = invoice[i].status
    /\ Op[r] # "credit" /\ i \in Given(r) => invoice[i].status = "POSTED"
    /\ Balanced(i, work[r][i])

MoneyInv == IsFiniteSet(PaidSoFar) /\ Allocated /\ Working
-----------------------------------------------------------------------------
LEMMA LockInit == Init => LockInv
  BY DEF Init, LockInv, LockTypes, Progress, Upwards, LocksExclude, InTransaction

\* A request that has no lock, or only goes on to insert or commit.
LEMMA LockQuiet ==
  ASSUME SettlementAssumption, IInv, LockInv, NEW r \in Requests, NEW w,
         pc' = [pc EXCEPT ![r] = w], UNCHANGED <<alloc, release, apply, held>>,
         \/ pc[r] = "insert" /\ w = "commit"
         \/ ~InTransaction(r) /\ w \notin {"lock", "insert", "commit"}
  PROVE  LockInv'
<1>1. \A q \in Requests : InTransaction(q)' = InTransaction(q) /\ (pc'[q] # "lock" => pc[q] # "lock")
  BY DEF IInv, Types, InTransaction
<1>2. Progress'
  BY <1>1 DEF LockInv, Progress, Taken, Given
<1> QED BY <1>2 DEF LockInv, LockTypes, Upwards, LocksExclude

\* A request that takes up a transaction.
LEMMA LockStarts ==
  ASSUME SettlementAssumption, IInv, LockInv, NEW r \in Requests,
         NEW X \in SUBSET Invoices, NEW Y \in SUBSET Invoices,
         ~InTransaction(r), pc' = [pc EXCEPT ![r] = "lock"], UNCHANGED <<alloc, held>>,
         release' = [release EXCEPT ![r] = X], apply' = [apply EXCEPT ![r] = Y],
         X = IF r \in Reversals THEN alloc[PaymentOf[r]] ELSE {},
         Y = IF Op[r] = "reverse" THEN {} ELSE Targets[r]
  PROVE  LockInv'
<1>1. held[r] = {} /\ LockTypes /\ Progress /\ Upwards /\ LocksExclude
  BY DEF LockInv, Progress
<1>2. /\ pc'[r] = "lock" /\ release'[r] = X /\ apply'[r] = Y /\ held'[r] = {}
      /\ \A q \in Requests : q # r =>
           pc'[q] = pc[q] /\ release'[q] = release[q] /\ apply'[q] = apply[q]
  BY <1>1 DEF IInv, Types, LockTypes
<1>3. LockTypes'
  BY <1>1 DEF LockTypes
<1>4. Progress'
  <2>1. \A q \in Requests : q # r =>
          InTransaction(q)' = InTransaction(q) /\ Taken(q)' = Taken(q) /\ Given(q)' = Given(q)
    BY <1>2 DEF InTransaction, Taken, Given
  <2>2. InTransaction(r)' /\ Taken(r)' = {} /\ Given(r)' = {}
    BY <1>2 DEF InTransaction, Taken, Given
  <2> QED BY <1>1, <1>2, <2>1, <2>2 DEF Progress
<1>5. Upwards' /\ LocksExclude'
  BY <1>1, <1>2 DEF Upwards, LocksExclude
<1> QED BY <1>3, <1>4, <1>5 DEF LockInv

\* A request that ends its transaction, and changes no allocation that another
\* one is to release.
LEMMA LockEnds ==
  ASSUME SettlementAssumption, IInv, LockInv, NEW r \in Requests, NEW w,
         w \notin {"lock", "insert", "commit"}, pc' = [pc EXCEPT ![r] = w],
         release' = [release EXCEPT ![r] = {}], apply' = [apply EXCEPT ![r] = {}],
         held' = [held EXCEPT ![r] = {}], alloc' \in [Requests -> SUBSET Invoices],
         \A q \in Reversals \ {r} :
           InTransaction(q) => alloc'[PaymentOf[q]] = alloc[PaymentOf[q]]
  PROVE  LockInv'
<1>1. LockTypes /\ Progress /\ Upwards /\ LocksExclude
  BY DEF LockInv
<1>2. /\ pc'[r] = w /\ release'[r] = {} /\ apply'[r] = {} /\ held'[r] = {}
      /\ \A q \in Requests : q # r =>
           /\ pc'[q] = pc[q] /\ held'[q] = held[q]
           /\ release'[q] = release[q] /\ apply'[q] = apply[q]
  BY <1>1 DEF IInv, Types, LockTypes
<1>3. LockTypes'
  BY <1>1 DEF LockTypes
<1>4. Progress'
  <2>1. ~InTransaction(r)' /\ \A q \in Requests : q # r => InTransaction(q)' = InTransaction(q)
    BY <1>2 DEF InTransaction
  <2>2. \A q \in Requests : q # r /\ InTransaction(q) =>
          /\ Taken(q)' = Taken(q) /\ Given(q)' = Given(q)
          /\ q \in Reversals => alloc'[PaymentOf[q]] = alloc[PaymentOf[q]]
    <3> SUFFICES ASSUME NEW q \in Requests, q # r, InTransaction(q)
                 PROVE  /\ Taken(q)' = Taken(q) /\ Given(q)' = Given(q)
                        /\ q \in Reversals => alloc'[PaymentOf[q]] = alloc[PaymentOf[q]]
      OBVIOUS
    <3>1. q \in Reversals => alloc'[PaymentOf[q]] = alloc[PaymentOf[q]]
      OBVIOUS
    <3>2. release'[q] = release[q] /\ apply'[q] = apply[q]
      BY <1>2
    <3> QED BY <3>1, <3>2 DEF Taken, Given
  <2> QED BY <1>1, <1>2, <2>1, <2>2 DEF Progress
<1>5. Upwards' /\ LocksExclude'
  BY <1>1, <1>2 DEF Upwards, LocksExclude
<1> QED BY <1>3, <1>4, <1>5 DEF LockInv

\* The last of what is left leaves nothing.
LEMMA LastLeaves ==
  ASSUME InvoicesAssumption, LockTypes, NEW r \in Requests, NEW i \in release[r] \cup apply[r],
         Last(r)
  PROVE  /\ release[r] # {} => release[r] = {i} \/ i \notin release[r]
         /\ release[r] \cup apply[r] = {i} /\ release[r] \cap apply[r] = {}
<1>1. IsFiniteSet(release[r]) /\ IsFiniteSet(apply[r])
  BY FS_Subset DEF InvoicesAssumption, LockTypes
<1>2. Cardinality(release[r]) \in Nat /\ Cardinality(apply[r]) \in Nat
  BY <1>1, FS_CardinalityType
<1>3. \/ Cardinality(release[r]) = 0 /\ Cardinality(apply[r]) = 1
      \/ Cardinality(release[r]) = 1 /\ Cardinality(apply[r]) = 0
  BY <1>2 DEF Last
<1>4. \A S : IsFiniteSet(S) /\ Cardinality(S) = 0 => S = {}
  BY FS_EmptySet
<1>5. \A S : IsFiniteSet(S) /\ Cardinality(S) = 1 => \E x : S = {x}
  BY FS_Singleton
<1>6. \/ release[r] = {} /\ \E x : apply[r] = {x}
      \/ (\E x : release[r] = {x}) /\ apply[r] = {}
  BY <1>1, <1>3, <1>4, <1>5
<1> QED BY <1>6

\* The next invoice is locked.
LEMMA LockLocks ==
  ASSUME SettlementAssumption, InvoicesAssumption, IInv, LockInv, NEW r \in Requests,
         NEW i \in Invoices, LockInvoice(r, i)
  PROVE  LockInv'
<1>1. LockTypes /\ Progress /\ Upwards /\ LocksExclude
  BY DEF LockInv
<1> DEFINE w == IF ~Last(r) THEN "lock" ELSE IF Op[r] = "pay" THEN "insert" ELSE "commit"
<1>2. /\ pc[r] = "lock" /\ pc' = [pc EXCEPT ![r] = w] /\ InTransaction(r)
      /\ held' = [held EXCEPT ![r] = @ \cup {i}] /\ UNCHANGED alloc
      /\ \A q \in Requests \ {r} : i \notin held[q]
      /\ \/ /\ release[r] # {} /\ i \in release[r] /\ \A j \in release[r] : i <= j
            /\ release' = [release EXCEPT ![r] = @ \ {i}] /\ UNCHANGED apply
         \/ /\ release[r] = {} /\ i \in apply[r] /\ \A j \in apply[r] : i <= j
            /\ apply' = [apply EXCEPT ![r] = @ \ {i}] /\ UNCHANGED release
  BY DEF LockInvoice, Goto, Wants, rows, InTransaction
<1>3. w \in {"lock", "insert", "commit"} /\ (w # "lock" => Last(r))
  OBVIOUS
<1> HIDE DEF w
<1>4. /\ pc'[r] = w /\ held'[r] = held[r] \cup {i}
      /\ \A q \in Requests : q # r =>
           /\ pc'[q] = pc[q] /\ held'[q] = held[q]
           /\ release'[q] = release[q] /\ apply'[q] = apply[q]
  BY <1>1, <1>2 DEF IInv, Types, LockTypes
<1>5. \/ /\ release[r] # {} /\ i \in release[r] /\ \A j \in release[r] : i <= j
         /\ release'[r] = release[r] \ {i} /\ apply'[r] = apply[r]
      \/ /\ release[r] = {} /\ i \in apply[r] /\ \A j \in apply[r] : i <= j
         /\ apply'[r] = apply[r] \ {i} /\ release'[r] = release[r]
  BY <1>1, <1>2 DEF LockTypes
<1>6. LockTypes'
  BY <1>1, <1>2 DEF LockTypes
<1>7. LocksExclude'
  BY <1>1, <1>2, <1>4 DEF LocksExclude
<1>8. w # "lock" => release'[r] = {} /\ apply'[r] = {}
  BY <1>1, <1>3, <1>5, LastLeaves
<1>9. Progress'
  <2>1. \A q \in Requests : q # r =>
          InTransaction(q)' = InTransaction(q) /\ Taken(q)' = Taken(q) /\ Given(q)' = Given(q)
    BY <1>2, <1>4 DEF InTransaction, Taken, Given
  <2>2. InTransaction(r)'
    BY <1>3, <1>4 DEF InTransaction
  <2>3. /\ release[r] \subseteq (IF r \in Reversals THEN alloc[PaymentOf[r]] ELSE {})
        /\ apply[r] \subseteq (IF Op[r] = "reverse" THEN {} ELSE Targets[r])
        /\ held[r] = Taken(r) \cup Given(r)
        /\ release[r] # {} => Given(r) = {}
    BY <1>1, <1>2 DEF Progress
  <2>4. /\ release'[r] \subseteq (IF r \in Reversals THEN alloc[PaymentOf[r]] ELSE {})
        /\ apply'[r] \subseteq (IF Op[r] = "reverse" THEN {} ELSE Targets[r])
        /\ held'[r] = Taken(r)' \cup Given(r)'
        /\ release'[r] # {} => Given(r)' = {}
    <3>1. CASE release[r] # {}
      BY <1>2, <1>4, <1>5, <2>3, <3>1 DEF Taken, Given
    <3>2. CASE release[r] = {}
      BY <1>2, <1>4, <1>5, <2>3, <3>2 DEF Taken, Given
    <3> QED BY <3>1, <3>2
  <2> QED BY <1>1, <1>2, <1>4, <1>8, <2>1, <2>2, <2>4 DEF Progress
<1>10. Upwards'
  <2>2. Invoices \subseteq Nat /\ release[r] \subseteq Invoices /\ apply[r] \subseteq Invoices
    BY <1>1 DEF SettlementAssumption, LockTypes
  <2>3. Op[r] # "reallocate" => release[r] = {} \/ apply[r] = {}
    BY <1>1, <1>2 DEF Progress, Reversals, Doing
  <2>4. ASSUME Op[r] # "reallocate", NEW j \in held'[r], NEW k \in release'[r] \cup apply'[r]
        PROVE  j < k
    <3>1. k \in release[r] \cup apply[r] /\ k # i /\ i <= k /\ k \in Nat
      BY <1>5, <2>2, <2>3, <2>4
    <3>2. CASE j = i
      <4>1. i \in Nat
        BY <2>2
      <4> QED BY <3>1, <3>2, <4>1
    <3>3. CASE j \in held[r]
      BY <1>1, <2>4, <3>1, <3>3 DEF Upwards
    <3> QED BY <1>4, <2>4, <3>2, <3>3
  <2> QED BY <1>1, <1>4, <2>4 DEF Upwards
<1> QED BY <1>6, <1>7, <1>9, <1>10 DEF LockInv

\* A commit changes the allocations of a payment that no other request has
\* locked, or that was not there.
LEMMA AllocationsOfOthers ==
  ASSUME SettlementAssumption, IInv, LockInv, NEW r \in Requests, Commit(r)
  PROVE  /\ alloc' \in [Requests -> SUBSET Invoices]
         /\ \A q \in Reversals \ {r} :
              InTransaction(q) => alloc'[PaymentOf[q]] = alloc[PaymentOf[q]]
<1>1. alloc \in [Requests -> SUBSET Invoices] /\ Targets[r] \in SUBSET Invoices /\ pc[r] = "commit"
  BY DEF LockInv, LockTypes, SettlementAssumption, Commit
<1>2. CASE UNCHANGED alloc
  BY <1>1, <1>2
<1>3. CASE Paid(r)
  <2>1. r \in Payers /\ payment[r] = "NONE" /\ alloc' = [alloc EXCEPT ![r] = Targets[r]]
    BY <1>1, <1>3 DEF Paid, Payers, Doing, IInv, Unanswered
  <2>2. \A q \in Reversals \ {r} : InTransaction(q) => PaymentOf[q] # r
    BY <2>1 DEF IInv, LockedPayments, Reversals
  <2> QED BY <1>1, <2>1, <2>2
<1>4. CASE Reallocated(r)
  <2>1. r \in Reversals /\ alloc' = [alloc EXCEPT ![PaymentOf[r]] = Targets[r]]
    BY <1>4 DEF Reallocated, Reversals, Doing
  <2>2. \A q \in Reversals \ {r} : InTransaction(q) => PaymentOf[q] # PaymentOf[r]
    BY <1>1, <2>1 DEF IInv, LockedPayments, Reversals, InTransaction
  <2>3. \A q \in Reversals : PaymentOf[q] \in Requests
    BY Operations
  <2> QED BY <1>1, <2>1, <2>2, <2>3
<1> QED BY <1>2, <1>3, <1>4 DEF Commit, Reversed, Credited, PostEntry, ReverseEntry

\* The locking is as it should be throughout.
LEMMA LockNext == IInv /\ LockInv /\ [Next]_vars => LockInv'
<1> SUFFICES ASSUME IInv, LockInv, [Next]_vars
             PROVE  LockInv'
  OBVIOUS
<1>1. CASE UNCHANGED vars
  BY <1>1 DEF vars, rows, local, LockInv, LockTypes, Progress, Upwards, LocksExclude,
     InTransaction, Taken, Given
<1>2. CASE Next
  <2> PICK r \in Requests :
        \/ Lookup(r) \/ LockCounter(r) \/ LockPayment(r) \/ StartCredit(r)
        \/ \E i \in Invoices : LockInvoice(r, i)
        \/ Insert(r) \/ Refetch(r) \/ Commit(r) \/ Rollback(r)
        \/ Read(r) \/ SaveReads(r) \/ SaveUpdates(r)
    BY <1>2 DEF Next
  <2> USE SettlementAssumption DEF Goto, End, rows, local
  <2>0. LockTypes /\ Progress
    BY DEF LockInv
  <2>1. CASE Lookup(r)
    <3>1. \/ pc' = [pc EXCEPT ![r] = "begin"] \/ pc' = [pc EXCEPT ![r] = "done"]
      BY <2>1 DEF Lookup
    <3> QED BY <2>1, <3>1, LockQuiet DEF Lookup, InTransaction
  <2>2. CASE LockCounter(r)
    <3>1. r \in Payers /\ r \notin Reversals /\ Op[r] # "reverse" /\ Targets[r] \in SUBSET Invoices
      BY <2>2, Operations DEF LockCounter, IInv, Handlers, Payers, Reversals, Doing,
         SettlementAssumption
    <3>2. release' = [release EXCEPT ![r] = {}] /\ UNCHANGED <<alloc, held>>
      BY <2>0, <2>2 DEF LockCounter, LockTypes, Progress
    <3> QED BY <2>2, <3>1, <3>2, LockStarts DEF LockCounter, InTransaction
  <2>3. CASE LockPayment(r)
    <3>1. r \in Reversals /\ alloc[PaymentOf[r]] \in SUBSET Invoices /\ Targets[r] \in SUBSET Invoices
      BY <2>0, <2>3, Operations DEF LockPayment, Reversals, Doing, LockTypes, SettlementAssumption
    <3> DEFINE X == alloc[PaymentOf[r]]
               Y == IF Op[r] = "reverse" THEN {} ELSE Targets[r]
    <3>2. /\ X \in SUBSET Invoices /\ Y \in SUBSET Invoices
          /\ X = IF r \in Reversals THEN alloc[PaymentOf[r]] ELSE {}
          /\ release' = [release EXCEPT ![r] = X] /\ apply' = [apply EXCEPT ![r] = Y]
          /\ ~InTransaction(r) /\ pc' = [pc EXCEPT ![r] = "lock"] /\ UNCHANGED <<alloc, held>>
      BY <2>3, <3>1 DEF LockPayment, InTransaction
    <3>3. Y = IF Op[r] = "reverse" THEN {} ELSE Targets[r]
      OBVIOUS
    <3> HIDE DEF X, Y
    <3> QED BY <3>2, <3>3, LockStarts
  <2>4. CASE StartCredit(r)
    <3>1. r \notin Reversals /\ Op[r] # "reverse" /\ Targets[r] \in SUBSET Invoices
      BY <2>4 DEF StartCredit, Reversals, Doing, SettlementAssumption
    <3>2. release' = [release EXCEPT ![r] = {}] /\ UNCHANGED <<alloc, held>>
      BY <2>0, <2>4 DEF StartCredit, LockTypes, Progress
    <3> QED BY <2>4, <3>1, <3>2, LockStarts DEF StartCredit, InTransaction
  <2>5. CASE Insert(r)
    <3>1. CASE pc' = [pc EXCEPT ![r] = "commit"] /\ UNCHANGED local
      BY <2>5, <3>1, LockQuiet DEF Insert
    <3>2. CASE End(r, "lost")
      BY <2>0, <2>5, <3>2, LockEnds DEF Insert, LockTypes
    <3> QED BY <2>5, <3>1, <3>2 DEF Insert
  <2>6. CASE Refetch(r)
    BY <2>6, LockQuiet DEF Refetch, InTransaction
  <2>7. CASE Rollback(r)
    BY <2>0, <2>7, LockEnds DEF Rollback, LockTypes
  <2>8. CASE \E i \in Invoices : LockInvoice(r, i)
    BY <2>8, InvoicesAssumption, LockLocks
  <2>9. CASE Commit(r)
    BY <2>9, LockEnds, AllocationsOfOthers DEF Commit
  <2>10. CASE Read(r)
    BY <2>10, LockQuiet DEF Read, InTransaction
  <2>11. CASE SaveReads(r)
    BY <2>11, LockQuiet DEF SaveReads, InTransaction
  <2>12. CASE SaveUpdates(r)
    BY <2>0, <2>12, LockEnds DEF SaveUpdates, LockTypes
  <2> QED BY <2>1, <2>2, <2>3, <2>4, <2>5, <2>6, <2>7, <2>8, <2>9, <2>10, <2>11, <2>12
<1> QED BY <1>1, <1>2

LEMMA SettlementLocks == Spec => []LockInv
  BY LockInit, LockNext, SettlementInvariant, PTL DEF Spec

\* A finite set of invoices has a last one: a least subset without one would lose
\* it with any of its members.
LEMMA LastInvoice ==
  ASSUME NEW K \in SUBSET Nat, IsFiniteSet(K), K # {}
  PROVE  \E m \in K : \A k \in K : k <= m
<1> DEFINE B == {T \in SUBSET K : T # {} /\ ~ \E m \in T : \A k \in T : k <= m}
<1> SUFFICES ASSUME B # {} PROVE FALSE
  OBVIOUS
<1>1. PICK T \in B : \A U \in B : ~(<<U, T>> \in StrictSubsetOrdering(K))
  <2>1. IsWellFoundedOn(StrictSubsetOrdering(K), SUBSET K) /\ B \subseteq SUBSET K
    BY FS_StrictSubsetOrderingWellFounded, FS_FiniteSubsetsOfFinite
  <2> HIDE DEF StrictSubsetOrdering, B
  <2> QED BY <2>1, WFMin
<1>2. PICK x \in T : TRUE
  OBVIOUS
<1>3. T \ {x} \notin B
  BY <1>1, <1>2 DEF StrictSubsetOrdering
<1>4. CASE T \ {x} = {}
  BY <1>2, <1>4
<1>5. CASE T \ {x} # {}
  <2>1. PICK m \in T \ {x} : \A k \in T \ {x} : k <= m
    BY <1>3, <1>5
  <2>2. x \in Nat /\ m \in Nat /\ T \subseteq Nat
    OBVIOUS
  <2>3. CASE x <= m
    BY <2>1, <2>2, <2>3
  <2>4. CASE m <= x
    <3>1. \A k \in T : k <= x
      BY <2>1, <2>2, <2>4
    <3> QED BY <1>2, <3>1
  <2> QED BY <2>2, <2>3, <2>4
<1> QED BY <1>4, <1>5


\* Who stands in a circle: the counter and the index are waited for only by those
\* for whom nobody waits.
LEMMA CircleOfLocks ==
  ASSUME IInv, LockInv,
         NEW S \in SUBSET {r \in Requests : pc[r] \in {"begin", "lock", "insert"}},
         \A q \in S : \E r \in S \ {q} : WaitsFor(q, r)
  PROVE  \A q \in S : \E r \in S \ {q} :
           /\ pc[r] = "lock"
           /\ pc[q] = "lock" => \E i \in held[r] : Wants(q, i)
<1>0. Progress /\ S \subseteq Requests /\ \A r \in S : pc[r] \in {"begin", "lock", "insert"}
  BY DEF LockInv
<1>1. \A q \in S : pc[q] # "insert"
  BY <1>0 DEF WaitsFor, Wants
<1>2. \A r \in S : InTransaction(r) => pc[r] = "lock"
  BY <1>0, <1>1 DEF InTransaction
<1>3. \A r \in S : held[r] # {} => InTransaction(r)
  BY <1>0 DEF Progress
<1> SUFFICES ASSUME NEW q \in S
             PROVE  \E r \in S \ {q} : /\ pc[r] = "lock"
                                       /\ pc[q] = "lock" => \E i \in held[r] : Wants(q, i)
  OBVIOUS
<1>4. PICK r \in S \ {q} : WaitsFor(q, r)
  OBVIOUS
<1>5. CASE \E i \in held[r] : Wants(q, i)
  BY <1>2, <1>3, <1>5
<1>6. CASE pc[q] = "begin" /\ InTransaction(r)
  BY <1>2, <1>6
<1>7. CASE pc[q] = "insert"
  BY <1>1, <1>7
<1> QED BY <1>4, <1>5, <1>6, <1>7 DEF WaitsFor

\* Whatever the requests and their number, transactions wait in a circle only with
\* a reallocation among them that wants an invoice before one it has locked: of the
\* invoices wanted in a circle of the others, nobody would want the last.
THEOREM SettlementOnlyReallocationDeadlocks == Spec => []OnlyReallocationDeadlocks
<1>1. IInv /\ LockInv => OnlyReallocationDeadlocks
  <2> SUFFICES ASSUME IInv, LockInv,
                      NEW S \in (SUBSET {r \in Requests : pc[r] \in {"begin", "lock", "insert"}}) \ {{}},
                      \A q \in S : \E r \in S \ {q} : WaitsFor(q, r),
                      ~ \E r \in S : Op[r] = "reallocate"
                          /\ \E i, j \in Invoices : Wants(r, i) /\ j \in held[r] /\ i < j
               PROVE  FALSE
    BY DEF OnlyReallocationDeadlocks
  <2>0. /\ S \subseteq Requests /\ S # {} /\ Invoices \subseteq Nat
        /\ LockTypes /\ Progress /\ Upwards /\ LocksExclude
    BY SettlementAssumption DEF LockInv, SettlementAssumption
  <2>1. \A q \in S : \E r \in S \ {q} :
          /\ pc[r] = "lock"
          /\ pc[q] = "lock" => \E i \in held[r] : Wants(q, i)
    BY CircleOfLocks
  <2> DEFINE K == {i \in Invoices : \E q \in S : \E r \in S \ {q} : Wants(q, i) /\ i \in held[r]}
  <2>2. PICK q0 \in S : pc[q0] = "lock"
    BY <2>0, <2>1
  <2>3. K # {}
    <3>1. PICK r \in S \ {q0} : \E i \in held[r] : Wants(q0, i)
      BY <2>1, <2>2
    <3>2. PICK i \in held[r] : Wants(q0, i)
      BY <3>1
    <3>3. i \in Invoices
      BY <2>0, <3>1, <3>2 DEF LockTypes
    <3> QED BY <3>1, <3>2, <3>3
  <2>4. K \in SUBSET Nat /\ IsFiniteSet(K)
    BY <2>0, FS_Subset, InvoicesAssumption DEF InvoicesAssumption
  <2>5. PICK m \in K : \A k \in K : k <= m
    <3> HIDE DEF K
    <3> QED BY <2>3, <2>4, LastInvoice
  <2>6. PICK q \in S : \E r \in S \ {q} : Wants(q, m) /\ m \in held[r]
    OBVIOUS
  <2>7. PICK r \in S \ {q} : Wants(q, m) /\ m \in held[r]
    BY <2>6
  <2>8. pc[r] = "lock"
    <3>1. InTransaction(r) /\ pc[r] \in {"begin", "lock", "insert"}
      BY <2>0, <2>7 DEF Progress
    <3>2. \A p \in S : pc[p] # "insert"
      BY <2>0 DEF WaitsFor, Wants
    <3> QED BY <2>7, <3>1, <3>2 DEF InTransaction
  <2>9. PICK t \in S \ {r} : \E i \in held[t] : Wants(r, i)
    BY <2>1, <2>8
  <2>10. PICK k \in held[t] : Wants(r, k)
    BY <2>9
  <2>11. k \in Invoices /\ k \in K /\ k \in Nat /\ m \in Nat /\ m \in Invoices
    BY <2>0, <2>9, <2>10 DEF LockTypes
  <2>12. k # m
    BY <2>0, <2>7, <2>9, <2>10 DEF LocksExclude
  <2>13. k < m
    BY <2>5, <2>11, <2>12
  <2>14. Op[r] # "reallocate"
    BY <2>7, <2>10, <2>11, <2>13
  <2>15. k \in release[r] \cup apply[r]
    BY <2>10 DEF Wants
  <2>16. m < k
    BY <2>0, <2>7, <2>14, <2>15 DEF Upwards
  <2> QED BY <2>11, <2>13, <2>16
<1> QED BY <1>1, SettlementInvariant, SettlementLocks, PTL
-----------------------------------------------------------------------------
LEMMA MoneyInit == Init => MoneyInv
<1> SUFFICES ASSUME Init PROVE MoneyInv
  OBVIOUS
<1>1. PaidSoFar = {} /\ \A i \in Invoices : PaidBy(i) = {}
  BY SettlementAssumption DEF PaidSoFar, PaidBy, Init, Payers, Doing
<1>2. IsFiniteSet(PaidSoFar) /\ Cardinality({}) = 0
  BY <1>1, FS_EmptySet
<1>3. \A i \in Invoices : GrandTotal[i] \in Nat
  BY SettlementAssumption DEF SettlementAssumption
<1>4. Allocated
  <2>1. \A i \in Invoices : /\ invoice[i].paid = 0 /\ invoice[i].credited = 0
                           /\ invoice[i].balance = GrandTotal[i]
    BY DEF Init, Row
  <2> SUFFICES ASSUME NEW i \in Invoices
               PROVE  /\ invoice[i].paid = Cardinality(PaidBy(i))
                      /\ PaidBy(i) # {} => invoice[i].status = "POSTED"
                      /\ Balanced(i, invoice[i])
    BY DEF Allocated
  <2>2. PaidBy(i) = {} /\ GrandTotal[i] \in Nat
    BY <1>1, <1>3
  <2>3. Balanced(i, invoice[i])
    BY <2>1, <2>2 DEF Balanced, Owed
  <2> QED BY <1>2, <2>1, <2>2, <2>3
<1>5. Working
  BY DEF Working, Init
<1> QED BY <1>2, <1>4, <1>5 DEF MoneyInv

\* A step that changes no payment and no invoice, and in which every request keeps
\* its part of a transaction or has no lock after it.
LEMMA MoneyQuiet ==
  ASSUME MoneyInv, UNCHANGED <<payment, alloc, invoice, raced>>,
         \A q \in Requests :
           held'[q] = {} \/ (/\ held'[q] = held[q] /\ work'[q] = work[q]
                             /\ release'[q] = release[q] /\ apply'[q] = apply[q])
  PROVE  MoneyInv'
<1>1. PaidSoFar' = PaidSoFar /\ \A i \in Invoices : PaidBy(i)' = PaidBy(i)
  BY DEF PaidSoFar, PaidBy
<1>2. Allocated'
  BY <1>1 DEF MoneyInv, Allocated, Balanced
<1>3. Working'
  BY DEF MoneyInv, Working, Balanced, Taken, Given
<1> QED BY <1>1, <1>2, <1>3 DEF MoneyInv

\* A row under its lock: a unit is taken back, applied within what is open, or
\* credited to what is owed.
LEMMA RowsStayBalanced ==
  ASSUME NEW r, NEW i \in Invoices, NEW c \in Billed, GrandTotal[i] \in Nat,
         Permitted(r, i, c), Balanced(i, c)
  PROVE  /\ Balanced(i, Changed(r, i, c)) /\ Changed(r, i, c).status = c.status
         /\ Op[r] # "credit" /\ release[r] # {} => Changed(r, i, c).paid = c.paid - 1
         /\ Op[r] # "credit" /\ release[r] = {} =>
              Changed(r, i, c).paid = c.paid + 1 /\ c.status = "POSTED"
<1> DEFINE paid     == IF Op[r] = "credit" THEN c.paid
                       ELSE IF release[r] # {} THEN c.paid - 1 ELSE c.paid + 1
           credited == IF Op[r] = "credit" /\ c.balance >= 1
                       THEN c.credited + 1 ELSE c.credited
           owed     == GrandTotal[i] - credited - paid
           balance  == IF Op[r] = "credit" /\ owed < 0 THEN 0 ELSE owed
           new      == Changed(r, i, c)
<1>1. new = [c EXCEPT !.paid = paid, !.credited = credited, !.balance = balance]
  BY DEF Changed, Owed
<1>2. /\ c.paid \in Int /\ c.credited \in Int /\ c.balance \in Int
      /\ c = [status |-> c.status, paid |-> c.paid, credited |-> c.credited, balance |-> c.balance]
  BY DEF Billed
<1>3. /\ new.paid = paid /\ new.credited = credited /\ new.balance = balance
      /\ new.status = c.status
  <2> HIDE DEF paid, credited, balance, new
  <2> QED BY <1>1, <1>2
<1>4. /\ c.paid + c.credited <= GrandTotal[i]
      /\ c.balance = GrandTotal[i] - c.credited - c.paid \/ c.balance = 0
  BY DEF Balanced, Owed
<1>5. paid + credited <= GrandTotal[i]
  BY <1>2, <1>4 DEF Permitted
<1>6. owed >= 0 /\ balance = owed
  BY <1>2, <1>5
<1>7. Balanced(i, new)
  <2> HIDE DEF paid, credited, balance, new
  <2> QED BY <1>3, <1>5, <1>6 DEF Balanced, Owed
<1> HIDE DEF new
<1> QED BY <1>3, <1>7 DEF new, Permitted

\* The next invoice is locked, checked and changed.
LEMMA MoneyLocks ==
  ASSUME SettlementAssumption, IInv, MirrorInv, LockInv, MoneyInv, NEW r \in Requests,
         NEW i \in Invoices, LockInvoice(r, i)
  PROVE  MoneyInv'
<1>1. /\ UNCHANGED <<payment, alloc, invoice, raced>> /\ pc[r] = "lock" /\ InTransaction(r)
      /\ held' = [held EXCEPT ![r] = @ \cup {i}]
      /\ work' = [work EXCEPT ![r][i] = Changed(r, i, Current(r, i))]
      /\ Permitted(r, i, Current(r, i))
      /\ \/ /\ release[r] # {} /\ i \in release[r]
            /\ release' = [release EXCEPT ![r] = @ \ {i}] /\ UNCHANGED apply
         \/ /\ release[r] = {} /\ i \in apply[r]
            /\ apply' = [apply EXCEPT ![r] = @ \ {i}] /\ UNCHANGED release
  BY DEF LockInvoice, Wants, rows, InTransaction
<1>2. /\ held \in [Requests -> SUBSET Invoices] /\ release \in [Requests -> SUBSET Invoices]
      /\ apply \in [Requests -> SUBSET Invoices] /\ invoice \in [Invoices -> Billed]
      /\ work \in [Requests -> [Invoices -> Billed]] /\ GrandTotal[i] \in Nat
  BY DEF LockInv, LockTypes, MirrorInv, MirrorTypes, SettlementAssumption
<1>3. /\ release[r] \subseteq (IF r \in Reversals THEN alloc[PaymentOf[r]] ELSE {})
      /\ apply[r] \subseteq (IF Op[r] = "reverse" THEN {} ELSE Targets[r])
      /\ held[r] = Taken(r) \cup Given(r)
      /\ release[r] # {} => Given(r) = {}
  BY <1>1 DEF LockInv, Progress
<1>4. /\ \A q \in Requests : q # r =>
           /\ held'[q] = held[q] /\ work'[q] = work[q]
           /\ Taken(q)' = Taken(q) /\ Given(q)' = Given(q)
      /\ held'[r] = held[r] \cup {i}
      /\ work'[r][i] = Changed(r, i, Current(r, i))
      /\ \A j \in Invoices : j # i => work'[r][j] = work[r][j]
  BY <1>1, <1>2 DEF Taken, Given
<1>5. \/ /\ release[r] # {} /\ i \notin Taken(r) /\ i \notin Given(r) /\ Op[r] # "credit"
         /\ Taken(r)' = Taken(r) \cup {i} /\ Given(r)' = Given(r)
      \/ /\ release[r] = {} /\ i \notin Given(r)
         /\ Given(r)' = Given(r) \cup {i} /\ Taken(r)' = Taken(r)
  <2>1. CASE release[r] # {}
    <3>1. r \in Reversals /\ i \in alloc[PaymentOf[r]] /\ Op[r] # "credit"
      BY <1>1, <1>3, <2>1 DEF Reversals, Doing
    <3>2. release'[r] = release[r] \ {i} /\ apply' = apply /\ i \in release[r] /\ alloc' = alloc
      BY <1>1, <1>2, <2>1
    <3>3. Given(r)' = Given(r) /\ Given(r) = {}
      BY <1>3, <2>1, <3>2 DEF Given
    <3>4. Taken(r)' = Taken(r) \cup {i} /\ i \notin Taken(r)
      BY <3>1, <3>2 DEF Taken
    <3> QED BY <2>1, <3>1, <3>3, <3>4
  <2>2. CASE release[r] = {}
    <3>1. apply'[r] = apply[r] \ {i} /\ release' = release /\ i \in apply[r] /\ alloc' = alloc
      BY <1>1, <1>2, <2>2
    <3>2. Op[r] # "reverse" /\ i \in Targets[r]
      BY <1>3, <3>1
    <3>3. Taken(r)' = Taken(r)
      BY <3>1 DEF Taken
    <3>4. Given(r)' = Given(r) \cup {i} /\ i \notin Given(r)
      BY <3>1, <3>2 DEF Given
    <3> QED BY <2>2, <3>3, <3>4
  <2> QED BY <2>1, <2>2
<1>6. PaidSoFar' = PaidSoFar /\ \A j \in Invoices : PaidBy(j)' = PaidBy(j)
  BY <1>1 DEF PaidSoFar, PaidBy
<1>7. Allocated'
  BY <1>1, <1>6 DEF MoneyInv, Allocated, Balanced
<1>8. Allocated /\ Working
  BY DEF MoneyInv
<1>9. ASSUME <<"invoice", i>> \notin raced
      PROVE  /\ Op[r] = "credit" \/ work'[r][i].paid =
                  invoice[i].paid - OneIf(i \in Taken(r)') + OneIf(i \in Given(r)')
             /\ work'[r][i].status = invoice[i].status
             /\ Op[r] # "credit" /\ i \in Given(r)' => invoice[i].status = "POSTED"
             /\ Balanced(i, work'[r][i])
  <2> DEFINE c == Current(r, i)
  <2>1. c \in Billed /\ c.paid \in Int /\ invoice[i].paid \in Int
    BY <1>2 DEF Current, Billed
  <2>2. /\ Balanced(i, c) /\ c.status = invoice[i].status
        /\ Op[r] = "credit" \/ c.paid = invoice[i].paid - OneIf(i \in Taken(r))
    <3>1. CASE i \in held[r]
      <4>1. c = work[r][i]
        BY <3>1 DEF Current
      <4>2. i \notin Given(r)
        BY <1>5
      <4>3. OneIf(i \in Given(r)) = 0 /\ OneIf(i \in Taken(r)) \in Int
        BY <4>2 DEF OneIf
      <4> HIDE DEF c
      <4>4. /\ Op[r] = "credit" \/
                 c.paid = invoice[i].paid - OneIf(i \in Taken(r)) + OneIf(i \in Given(r))
            /\ c.status = invoice[i].status /\ Balanced(i, c)
        BY <1>8, <1>9, <3>1, <4>1 DEF Working
      <4> QED BY <2>1, <4>3, <4>4
    <3>2. CASE i \notin held[r]
      <4>1. c = invoice[i] /\ i \notin Taken(r)
        BY <1>3, <3>2 DEF Current
      <4>2. OneIf(i \in Taken(r)) = 0
        BY <4>1 DEF OneIf
      <4> HIDE DEF c
      <4> QED BY <1>8, <1>9, <2>1, <4>1, <4>2 DEF Allocated
    <3> QED BY <3>1, <3>2
  <2>3. Permitted(r, i, c)
    BY <1>1
  <2>4. work'[r][i] = Changed(r, i, c)
    BY <1>4
  <2> HIDE DEF c
  <2>5. /\ Balanced(i, work'[r][i]) /\ work'[r][i].status = c.status
        /\ Op[r] # "credit" /\ release[r] # {} => work'[r][i].paid = c.paid - 1
        /\ Op[r] # "credit" /\ release[r] = {} =>
             work'[r][i].paid = c.paid + 1 /\ c.status = "POSTED"
    BY <1>2, <2>1, <2>2, <2>3, <2>4, RowsStayBalanced
  <2>6. CASE Op[r] = "credit"
    BY <2>2, <2>5, <2>6
  <2>7. CASE Op[r] # "credit" /\ release[r] # {}
    <3>1. i \in Taken(r)' /\ i \notin Taken(r) /\ i \notin Given(r)'
      BY <1>5, <2>7
    <3>2. OneIf(i \in Taken(r)') = 1 /\ OneIf(i \in Taken(r)) = 0 /\ OneIf(i \in Given(r)') = 0
      BY <3>1 DEF OneIf
    <3> QED BY <2>1, <2>2, <2>5, <2>7, <3>1, <3>2
  <2>8. CASE Op[r] # "credit" /\ release[r] = {}
    <3>1. i \in Given(r)' /\ Taken(r)' = Taken(r)
      BY <1>5, <2>8
    <3>2. /\ OneIf(i \in Given(r)') = 1 /\ OneIf(i \in Taken(r)') = OneIf(i \in Taken(r))
          /\ OneIf(i \in Taken(r)) \in Int
      BY <3>1 DEF OneIf
    <3> QED BY <2>1, <2>2, <2>5, <2>8, <3>1, <3>2
  <2> QED BY <2>6, <2>7, <2>8
<1>10. Working'
  <2> SUFFICES ASSUME NEW q \in Requests, NEW j \in held'[q], <<"invoice", j>> \notin raced
               PROVE  /\ Op[q] = "credit" \/ work'[q][j].paid =
                           invoice[j].paid - OneIf(j \in Taken(q)') + OneIf(j \in Given(q)')
                      /\ work'[q][j].status = invoice[j].status
                      /\ Op[q] # "credit" /\ j \in Given(q)' => invoice[j].status = "POSTED"
                      /\ Balanced(j, work'[q][j])
    BY <1>1 DEF Working, Balanced
  <2>1. CASE q = r /\ j = i
    BY <1>9, <2>1
  <2>2. CASE q # r \/ j # i
    <3>1. /\ j \in held[q] /\ work'[q][j] = work[q][j]
          /\ (j \in Taken(q)') = (j \in Taken(q)) /\ (j \in Given(q)') = (j \in Given(q))
      <4>1. CASE q = r
        <5>1. j # i /\ j \in held[r] /\ j \in Invoices
          BY <1>2, <1>4, <2>2, <4>1
        <5> QED BY <1>4, <1>5, <4>1, <5>1
      <4>2. CASE q # r
        BY <1>4, <4>2
      <4> QED BY <4>1, <4>2
    <3>2. /\ OneIf(j \in Taken(q)') = OneIf(j \in Taken(q))
          /\ OneIf(j \in Given(q)') = OneIf(j \in Given(q))
      BY <3>1 DEF OneIf
    <3> QED BY <1>8, <3>1, <3>2 DEF Working
  <2> QED BY <2>1, <2>2
<1> QED BY <1>6, <1>7, <1>10 DEF MoneyInv

\* What a commit does to the payments of an invoice: one fewer if a unit was taken
\* back from it, one more if a unit was applied to it.
LEMMA PaymentsCommit ==
  ASSUME SettlementAssumption, IInv, LockInv, IsFiniteSet(PaidSoFar), NEW r \in Requests,
         Commit(r)
  PROVE  /\ IsFiniteSet(PaidSoFar)'
         /\ Op[r] # "credit" => held[r] = Taken(r) \cup Given(r)
         /\ \A i \in Invoices :
              /\ Cardinality(PaidBy(i)') = Cardinality(PaidBy(i)) - OneIf(i \in Taken(r))
                   + OneIf(Op[r] # "credit" /\ i \in Given(r))
              /\ Cardinality(PaidBy(i)) \in Nat
              /\ PaidBy(i)' # {} => PaidBy(i) # {} \/ (Op[r] # "credit" /\ i \in Given(r))
<1>1. /\ pc[r] = "commit" /\ InTransaction(r) /\ release[r] = {} /\ apply[r] = {}
      /\ held[r] = Taken(r) \cup Given(r)
      /\ payment \in [Requests -> {"NONE", "CONFIRMED", "CANCELLED"}]
      /\ alloc \in [Requests -> SUBSET Invoices]
  BY DEF Commit, LockInv, LockTypes, Progress, InTransaction, IInv, Types
<1>2. \A i \in Invoices : IsFiniteSet(PaidBy(i)) /\ Cardinality(PaidBy(i)) \in Nat
  <2>1. \A i \in Invoices : PaidBy(i) \subseteq PaidSoFar
    BY DEF PaidBy, PaidSoFar
  <2> QED BY <2>1, FS_Subset, FS_CardinalityType
<1>3. \A S, x : IsFiniteSet(S) /\ x \notin S =>
        IsFiniteSet(S \cup {x}) /\ Cardinality(S \cup {x}) = Cardinality(S) + 1
  BY FS_AddElement
<1>4. \A S, x : IsFiniteSet(S) /\ x \in S =>
        IsFiniteSet(S \ {x}) /\ Cardinality(S \ {x}) = Cardinality(S) - 1
  BY FS_RemoveElement
<1>5. CASE Op[r] = "pay"
  <2>1. /\ payment' = [payment EXCEPT ![r] = "CONFIRMED"] /\ payment[r] = "NONE"
        /\ alloc' = [alloc EXCEPT ![r] = Targets[r]] /\ r \in Payers /\ r \notin Reversals
    BY <1>1, <1>5 DEF Commit, Paid, Reversed, Reallocated, Credited, Payers, Doing, IInv,
       Unanswered, Reversals
  <2>2. PaidSoFar' = PaidSoFar \cup {r} /\ r \notin PaidSoFar
    BY <1>1, <2>1, Operations DEF PaidSoFar
  <2>3. IsFiniteSet(PaidSoFar \cup {r})
    BY <1>3, <2>2
  <2>4. Taken(r) = {} /\ Given(r) = Targets[r]
    BY <1>1, <1>5, <2>1 DEF Taken, Given
  <2>5. ASSUME NEW i \in Invoices
        PROVE  /\ r \notin PaidBy(i)
               /\ PaidBy(i)' = IF i \in Given(r) THEN PaidBy(i) \cup {r} ELSE PaidBy(i)
    BY <1>1, <2>1, <2>4, Operations DEF PaidBy
  <2>6. ASSUME NEW i \in Invoices
        PROVE  /\ Cardinality(PaidBy(i)') = Cardinality(PaidBy(i)) - OneIf(i \in Taken(r))
                    + OneIf(Op[r] # "credit" /\ i \in Given(r))
               /\ PaidBy(i)' # {} => PaidBy(i) # {} \/ (Op[r] # "credit" /\ i \in Given(r))
    <3>1. CASE i \in Given(r)
      <4>1. Cardinality(PaidBy(i) \cup {r}) = Cardinality(PaidBy(i)) + 1
        BY <1>2, <1>3, <2>5
      <4>2. OneIf(i \in Taken(r)) = 0 /\ OneIf(Op[r] # "credit" /\ i \in Given(r)) = 1
        BY <1>5, <2>4, <3>1 DEF OneIf
      <4>3. PaidBy(i)' = PaidBy(i) \cup {r}
        BY <2>5, <3>1
      <4>4. Cardinality(PaidBy(i)') = Cardinality(PaidBy(i)) + 1
        BY <4>1, <4>3, Zenon
      <4> QED BY <1>2, <1>5, <3>1, <4>2, <4>4
    <3>2. CASE i \notin Given(r)
      <4>1. PaidBy(i)' = PaidBy(i)
        BY <2>5, <3>2
      <4>2. OneIf(i \in Taken(r)) = 0 /\ OneIf(Op[r] # "credit" /\ i \in Given(r)) = 0
        BY <2>4, <3>2 DEF OneIf
      <4>3. Cardinality(PaidBy(i)') = Cardinality(PaidBy(i))
        BY <4>1, Zenon
      <4> QED BY <1>2, <4>1, <4>2, <4>3
    <3> QED BY <3>1, <3>2
  <2> QED BY <1>1, <1>2, <2>2, <2>3, <2>6
<1>6. CASE Op[r] \in {"reverse", "reallocate"}
  <2> DEFINE x == PaymentOf[r]
  <2>1. /\ payment[x] = "CONFIRMED" /\ x \in Payers /\ x \in Requests /\ r \in Reversals
        /\ Op[r] # "credit"
    BY <1>1, <1>6, Operations DEF IInv, LockedPayments, Reversals, Doing
  <2>2. /\ Op[r] = "reverse" =>
             payment' = [payment EXCEPT ![x] = "CANCELLED"] /\ UNCHANGED alloc
        /\ Op[r] = "reallocate" =>
             alloc' = [alloc EXCEPT ![x] = Targets[r]] /\ UNCHANGED payment
    BY <1>6 DEF Commit, Paid, Reversed, Reallocated, Credited
  <2>3. Taken(r) = alloc[x] /\ Given(r) = IF Op[r] = "reverse" THEN {} ELSE Targets[r]
    BY <1>1, <2>1 DEF Taken, Given
  <2> HIDE DEF x
  <2>4. PaidSoFar' = PaidSoFar
    BY <1>1, <1>6, <2>1, <2>2, Operations DEF PaidSoFar
  <2>5. ASSUME NEW i \in Invoices
        PROVE  /\ x \in PaidBy(i) <=> i \in Taken(r)
               /\ PaidBy(i)' = IF i \in Given(r) THEN (PaidBy(i) \ {x}) \cup {x}
                               ELSE PaidBy(i) \ {x}
    <3>1. x \in PaidBy(i) <=> i \in Taken(r)
      BY <2>1, <2>3 DEF PaidBy
    <3>2. \A p \in Payers : p # x => payment'[p] = payment[p] /\ alloc'[p] = alloc[p]
      BY <1>1, <1>6, <2>2, Operations
    <3>3. (payment'[x] = "CONFIRMED" /\ i \in alloc'[x]) <=> i \in Given(r)
      BY <1>1, <1>6, <2>1, <2>2, <2>3
    <3> QED BY <2>1, <3>1, <3>2, <3>3 DEF PaidBy
  <2>6. ASSUME NEW i \in Invoices
        PROVE  /\ Cardinality(PaidBy(i)') = Cardinality(PaidBy(i)) - OneIf(i \in Taken(r))
                    + OneIf(Op[r] # "credit" /\ i \in Given(r))
               /\ PaidBy(i)' # {} => PaidBy(i) # {} \/ (Op[r] # "credit" /\ i \in Given(r))
    <3> DEFINE T == PaidBy(i) \ {x}
    <3>1. IsFiniteSet(T) /\ Cardinality(T) = Cardinality(PaidBy(i)) - OneIf(i \in Taken(r))
      <4>1. CASE i \in Taken(r)
        <5>1. IsFiniteSet(PaidBy(i)) /\ x \in PaidBy(i)
          BY <1>2, <2>5, <4>1
        <5>2. IsFiniteSet(PaidBy(i) \ {x})
              /\ Cardinality(PaidBy(i) \ {x}) = Cardinality(PaidBy(i)) - 1
          BY <1>4, <5>1
        <5>3. OneIf(i \in Taken(r)) = 1
          BY <4>1 DEF OneIf
        <5> QED BY <5>2, <5>3
      <4>2. CASE i \notin Taken(r)
        <5>1. T = PaidBy(i)
          BY <2>5, <4>2
        <5>2. OneIf(i \in Taken(r)) = 0
          BY <4>2 DEF OneIf
        <5> HIDE DEF T
        <5> QED BY <1>2, <5>1, <5>2
      <4> QED BY <4>1, <4>2
    <3>2. x \notin T /\ PaidBy(i)' = IF i \in Given(r) THEN T \cup {x} ELSE T
      BY <2>5
    <3>3. T # {} => PaidBy(i) # {}
      OBVIOUS
    <3> HIDE DEF T
    <3>4. CASE i \in Given(r)
      <4>1. Cardinality(T \cup {x}) = Cardinality(T) + 1
        BY <1>3, <3>1, <3>2
      <4>2. PaidBy(i)' = T \cup {x} /\ OneIf(Op[r] # "credit" /\ i \in Given(r)) = 1
        BY <2>1, <3>2, <3>4 DEF OneIf
      <4>3. Cardinality(PaidBy(i)') = Cardinality(T) + 1
        BY <4>1, <4>2, Zenon
      <4> QED BY <2>1, <3>1, <3>4, <4>2, <4>3
    <3>5. CASE i \notin Given(r)
      <4>1. Cardinality(PaidBy(i)) - OneIf(i \in Taken(r)) \in Int
        BY <1>2 DEF OneIf
      <4>2. PaidBy(i)' = T /\ OneIf(Op[r] # "credit" /\ i \in Given(r)) = 0
        BY <3>2, <3>5 DEF OneIf
      <4>3. Cardinality(PaidBy(i)') = Cardinality(T)
        BY <4>2, Zenon
      <4> QED BY <3>1, <3>3, <4>1, <4>2, <4>3
    <3> QED BY <3>4, <3>5
  <2> QED BY <1>1, <1>2, <2>4, <2>6
<1>7. CASE Op[r] = "credit"
  <2>1. UNCHANGED <<payment, alloc>> /\ r \notin Reversals
    BY <1>7 DEF Commit, Paid, Reversed, Reallocated, Credited, Reversals, Doing
  <2>2. PaidSoFar' = PaidSoFar /\ \A i \in Invoices : PaidBy(i)' = PaidBy(i)
    BY <2>1 DEF PaidSoFar, PaidBy
  <2>3. Taken(r) = {}
    BY <2>1 DEF Taken
  <2> QED BY <1>2, <1>7, <2>2, <2>3 DEF OneIf
<1>8. Op[r] \in {"pay", "reverse", "reallocate", "credit"}
  BY DEF Commit, Paid, Reversed, Reallocated, Credited
<1> QED BY <1>5, <1>6, <1>7, <1>8

\* A commit.
LEMMA MoneyCommits ==
  ASSUME SettlementAssumption, IInv, MirrorInv, LockInv, MoneyInv, NEW r \in Requests, Commit(r)
  PROVE  MoneyInv'
<1>1. /\ invoice' = [i \in Invoices |-> IF i \in held[r] THEN work[r][i] ELSE invoice[i]]
      /\ raced \subseteq raced' /\ pc[r] = "commit"
      /\ held' = [held EXCEPT ![r] = {}]
      /\ work' = [work EXCEPT ![r] = [i \in Invoices |-> Blank]]
      /\ release' = [release EXCEPT ![r] = {}] /\ apply' = [apply EXCEPT ![r] = {}]
  BY DEF Commit, End
<1>2. /\ held \in [Requests -> SUBSET Invoices] /\ work \in [Requests -> [Invoices -> Billed]]
      /\ release \in [Requests -> SUBSET Invoices] /\ apply \in [Requests -> SUBSET Invoices]
      /\ invoice \in [Invoices -> Billed]
      /\ LocksExclude /\ CreditKeepsPaid /\ Allocated /\ Working /\ IsFiniteSet(PaidSoFar)
  BY DEF LockInv, LockTypes, MirrorInv, MirrorTypes, MoneyInv
<1>3. /\ IsFiniteSet(PaidSoFar)'
      /\ Op[r] # "credit" => held[r] = Taken(r) \cup Given(r)
      /\ \A i \in Invoices :
           /\ Cardinality(PaidBy(i)') = Cardinality(PaidBy(i)) - OneIf(i \in Taken(r))
                + OneIf(Op[r] # "credit" /\ i \in Given(r))
           /\ Cardinality(PaidBy(i)) \in Nat
           /\ PaidBy(i)' # {} => PaidBy(i) # {} \/ (Op[r] # "credit" /\ i \in Given(r))
  BY <1>2, PaymentsCommit
<1>4. Op[r] = "credit" => Taken(r) = {}
  BY DEF Taken, Reversals, Doing
<1>5. Allocated'
  <2> SUFFICES ASSUME NEW i \in Invoices, <<"invoice", i>> \notin raced'
               PROVE  /\ invoice'[i].paid = Cardinality(PaidBy(i)')
                      /\ PaidBy(i)' # {} => invoice'[i].status = "POSTED"
                      /\ Balanced(i, invoice'[i])
    BY DEF Allocated, Balanced
  <2>1. /\ <<"invoice", i>> \notin raced
        /\ invoice[i].paid = Cardinality(PaidBy(i))
        /\ PaidBy(i) # {} => invoice[i].status = "POSTED"
        /\ Balanced(i, invoice[i])
    BY <1>1, <1>2 DEF Allocated
  <2>2. CASE i \in held[r]
    <3>1. invoice'[i] = work[r][i]
      BY <1>1, <2>2
    <3>2. /\ Op[r] = "credit" \/
               work[r][i].paid = invoice[i].paid - OneIf(i \in Taken(r)) + OneIf(i \in Given(r))
          /\ work[r][i].status = invoice[i].status
          /\ Op[r] # "credit" /\ i \in Given(r) => invoice[i].status = "POSTED"
          /\ Balanced(i, work[r][i])
      BY <1>2, <2>1, <2>2 DEF Working
    <3>3. CASE Op[r] = "credit"
      <4>1. work[r][i].paid = invoice[i].paid
        BY <1>2, <2>2, <3>3 DEF CreditKeepsPaid
      <4>2. OneIf(i \in Taken(r)) = 0 /\ OneIf(Op[r] # "credit" /\ i \in Given(r)) = 0
        BY <1>4, <3>3 DEF OneIf
      <4> QED BY <1>3, <2>1, <3>1, <3>2, <3>3, <4>1, <4>2
    <3>4. CASE Op[r] # "credit"
      <4>1. OneIf(Op[r] # "credit" /\ i \in Given(r)) = OneIf(i \in Given(r))
        BY <3>4 DEF OneIf
      <4> QED BY <1>3, <2>1, <3>1, <3>2, <3>4, <4>1
    <3> QED BY <3>3, <3>4
  <2>3. CASE i \notin held[r]
    <3>1. invoice'[i] = invoice[i]
      BY <1>1, <2>3
    <3>2. i \notin Taken(r) /\ ~(Op[r] # "credit" /\ i \in Given(r))
      BY <1>3, <1>4, <2>3
    <3>3. OneIf(i \in Taken(r)) = 0 /\ OneIf(Op[r] # "credit" /\ i \in Given(r)) = 0
      BY <3>2 DEF OneIf
    <3> QED BY <1>3, <2>1, <3>1, <3>2, <3>3
  <2> QED BY <2>2, <2>3
<1>6. Working'
  <2> SUFFICES ASSUME NEW q \in Requests, NEW j \in held'[q], <<"invoice", j>> \notin raced'
               PROVE  /\ Op[q] = "credit" \/ work'[q][j].paid =
                           invoice'[j].paid - OneIf(j \in Taken(q)') + OneIf(j \in Given(q)')
                      /\ work'[q][j].status = invoice'[j].status
                      /\ Op[q] # "credit" /\ j \in Given(q)' => invoice'[j].status = "POSTED"
                      /\ Balanced(j, work'[q][j])
    BY DEF Working, Balanced
  <2>1. /\ q # r /\ j \in held[q] /\ work'[q] = work[q] /\ release'[q] = release[q]
        /\ apply'[q] = apply[q] /\ <<"invoice", j>> \notin raced
    BY <1>1, <1>2
  <2>2. j \notin held[r] /\ j \in Invoices
    BY <1>2, <2>1 DEF LocksExclude
  <2>3. invoice'[j] = invoice[j]
    BY <1>1, <2>2
  <2>4. InTransaction(q)
    BY <2>1 DEF LockInv, Progress
  <2>5. q \in Reversals => alloc'[PaymentOf[q]] = alloc[PaymentOf[q]]
    BY <2>1, <2>4, AllocationsOfOthers
  <2>6. Taken(q)' = Taken(q) /\ Given(q)' = Given(q)
    BY <2>1, <2>5 DEF Taken, Given
  <2> QED BY <1>2, <2>1, <2>3, <2>6 DEF Working
<1> QED BY <1>3, <1>5, <1>6 DEF MoneyInv

\* save() of an invoice that is as it was read: a draft of which nothing is paid
\* is posted, or one of which nothing is paid or credited is voided.
LEMMA MoneySaves ==
  ASSUME SettlementAssumption, IInv, MirrorInv, LockInv, MoneyInv, NEW r \in Requests,
         SaveUpdates(r)
  PROVE  MoneyInv'
<1> DEFINE i   == Target(r)
           row == [c \in DOMAIN RowOf(r) |->
                    IF c \in Differing(r) THEN entity[r][c] ELSE RowOf(r)[c]]
<1>1. /\ MirrorTypes /\ Savers /\ ReadUnlessRaced /\ Allocated /\ Working
      /\ held \in [Requests -> SUBSET Invoices] /\ IsFiniteSet(PaidSoFar)
  BY DEF MirrorInv, MirrorTypes, MoneyInv
<1>2. /\ IF Op[r] = "close"
         THEN UNCHANGED invoice ELSE invoice' = [invoice EXCEPT ![i] = row]
      /\ raced \subseteq raced' /\ pc[r] = "update" /\ UNCHANGED <<payment, alloc>>
      /\ \A q \in Requests : i \notin held[q]
      /\ held' = [held EXCEPT ![r] = {}]
      /\ work' = [work EXCEPT ![r] = [j \in Invoices |-> Blank]]
      /\ release' = [release EXCEPT ![r] = {}] /\ apply' = [apply EXCEPT ![r] = {}]
  BY DEF SaveUpdates, End
<1>3. /\ r \in Unlocked /\ entity[r] \in Rows(r) /\ i \in Invoices
      /\ Op[r] \in {"post", "void", "close"}
      /\ Table(r) = IF Op[r] = "close" THEN "order" ELSE "invoice"
  BY <1>1, <1>2, SaverTargets DEF Savers, Saving
<1>4. <<Table(r), i>> \notin raced => Allowed(r, RowOf(r)) /\ row = Assigned(r, RowOf(r))
  <2> SUFFICES ASSUME <<Table(r), i>> \notin raced
               PROVE  Allowed(r, RowOf(r)) /\ row = Assigned(r, RowOf(r))
    OBVIOUS
  <2>1. Allowed(r, RowOf(r)) /\ entity[r] = Assigned(r, RowOf(r)) /\ seen[r] = RowOf(r)
    BY <1>1, <1>2 DEF ReadUnlessRaced, Saving
  <2>2. row = [c \in DOMAIN RowOf(r) |-> entity[r][c]]
    BY <2>1 DEF Differing
  <2>3. entity[r] = [c \in DOMAIN RowOf(r) |-> entity[r][c]]
    <3>1. RowOf(r) \in Rows(r)
      BY <1>1, <1>3, RowHasType
    <3> QED BY <1>3, <3>1 DEF Rows, Billed, Ordered
  <2> QED BY <2>1, <2>2, <2>3
<1> HIDE DEF row, i
<1>5. PaidSoFar' = PaidSoFar /\ \A j \in Invoices : PaidBy(j)' = PaidBy(j)
  BY <1>2 DEF PaidSoFar, PaidBy
<1>6. Allocated'
  <2> SUFFICES ASSUME NEW j \in Invoices, <<"invoice", j>> \notin raced'
               PROVE  /\ invoice'[j].paid = Cardinality(PaidBy(j))
                      /\ PaidBy(j) # {} => invoice'[j].status = "POSTED"
                      /\ Balanced(j, invoice'[j])
    BY <1>5 DEF Allocated, Balanced
  <2>1. /\ <<"invoice", j>> \notin raced
        /\ invoice[j].paid = Cardinality(PaidBy(j))
        /\ PaidBy(j) # {} => invoice[j].status = "POSTED"
        /\ Balanced(j, invoice[j])
    BY <1>1, <1>2 DEF Allocated
  <2>2. CASE Op[r] = "close" \/ j # i
    <3>1. invoice'[j] = invoice[j]
      BY <1>1, <1>2, <2>2 DEF MirrorTypes
    <3> QED BY <2>1, <3>1
  <2>3. CASE Op[r] # "close" /\ j = i
    <3>1. Allowed(r, invoice[i]) /\ row = Assigned(r, invoice[i]) /\ invoice[i] \in Billed
      BY <1>1, <1>3, <1>4, <2>1, <2>3 DEF RowOf, MirrorTypes, i
    <3>2. invoice'[i] = row
      BY <1>1, <1>2, <1>3, <2>3 DEF MirrorTypes
    <3>3. CASE Op[r] = "post"
      <4>1. row = [invoice[i] EXCEPT !.status = "POSTED"] /\ invoice[i].status = "DRAFT"
        BY <3>1, <3>3 DEF Assigned, Allowed
      <4>2. /\ row.paid = invoice[i].paid /\ row.credited = invoice[i].credited
            /\ row.balance = invoice[i].balance /\ row.status = "POSTED"
        BY <3>1, <4>1 DEF Billed
      <4> QED BY <2>1, <2>3, <3>2, <4>1, <4>2 DEF Balanced
    <3>4. CASE Op[r] = "void"
      <4>1. /\ row = [invoice[i] EXCEPT !.status = "VOIDED", !.balance = 0]
            /\ invoice[i].paid = 0
        BY <3>1, <3>4 DEF Assigned, Allowed
      <4>2. /\ row.paid = invoice[i].paid /\ row.credited = invoice[i].credited
            /\ row.balance = 0 /\ row.status = "VOIDED"
        BY <3>1, <4>1 DEF Billed
      <4>3. PaidBy(j) = {}
        <5>1. PaidBy(j) \subseteq PaidSoFar
          BY DEF PaidBy, PaidSoFar
        <5>2. IsFiniteSet(PaidBy(j)) /\ Cardinality(PaidBy(j)) = 0
          BY <1>1, <2>1, <2>3, <4>1, <5>1, FS_Subset
        <5> QED BY <5>2, FS_EmptySet
      <4> QED BY <2>1, <2>3, <3>2, <4>2, <4>3 DEF Balanced
    <3> QED BY <1>3, <2>3, <3>3, <3>4
  <2> QED BY <2>2, <2>3
<1>7. Working'
  <2> SUFFICES ASSUME NEW q \in Requests, NEW j \in held'[q], <<"invoice", j>> \notin raced'
               PROVE  /\ Op[q] = "credit" \/ work'[q][j].paid =
                           invoice'[j].paid - OneIf(j \in Taken(q)') + OneIf(j \in Given(q)')
                      /\ work'[q][j].status = invoice'[j].status
                      /\ Op[q] # "credit" /\ j \in Given(q)' => invoice'[j].status = "POSTED"
                      /\ Balanced(j, work'[q][j])
    BY DEF Working, Balanced
  <2>1. /\ q # r /\ j \in held[q] /\ <<"invoice", j>> \notin raced
        /\ held[q] \subseteq Invoices
    BY <1>1, <1>2
  <2>2. work'[q] = work[q] /\ release'[q] = release[q] /\ apply'[q] = apply[q]
    BY <1>1, <1>2, <2>1 DEF MirrorTypes, LockInv, LockTypes
  <2>3. invoice'[j] = invoice[j]
    BY <1>1, <1>2, <2>1 DEF MirrorTypes
  <2>4. Taken(q)' = Taken(q) /\ Given(q)' = Given(q)
    BY <1>2, <2>2 DEF Taken, Given
  <2> QED BY <1>1, <2>1, <2>2, <2>3, <2>4 DEF Working
<1> QED BY <1>1, <1>5, <1>6, <1>7 DEF MoneyInv

LEMMA MoneyNext == IInv /\ MirrorInv /\ LockInv /\ MoneyInv /\ [Next]_vars => MoneyInv'
<1> SUFFICES ASSUME IInv, MirrorInv, LockInv, MoneyInv, [Next]_vars
             PROVE  MoneyInv'
  OBVIOUS
<1>0. /\ held \in [Requests -> SUBSET Invoices] /\ work \in [Requests -> [Invoices -> Billed]]
      /\ release \in [Requests -> SUBSET Invoices] /\ apply \in [Requests -> SUBSET Invoices]
      /\ \A r \in Requests : ~InTransaction(r) => held[r] = {}
  BY DEF LockInv, LockTypes, Progress, MirrorInv, MirrorTypes
<1>1. CASE UNCHANGED vars
  BY <1>1, MoneyQuiet DEF vars, rows, local
<1>2. CASE Next
  <2> PICK r \in Requests :
        \/ Lookup(r) \/ LockCounter(r) \/ LockPayment(r) \/ StartCredit(r)
        \/ \E i \in Invoices : LockInvoice(r, i)
        \/ Insert(r) \/ Refetch(r) \/ Commit(r) \/ Rollback(r)
        \/ Read(r) \/ SaveReads(r) \/ SaveUpdates(r)
    BY <1>2 DEF Next
  <2> USE DEF Goto, End, rows, local
  <2>1. CASE Lookup(r)
    BY <2>1, MoneyQuiet DEF Lookup
  <2>2. CASE LockCounter(r)
    BY <1>0, <2>2, MoneyQuiet DEF LockCounter, InTransaction
  <2>3. CASE LockPayment(r)
    BY <1>0, <2>3, MoneyQuiet DEF LockPayment, InTransaction
  <2>4. CASE StartCredit(r)
    BY <1>0, <2>4, MoneyQuiet DEF StartCredit, InTransaction
  <2>5. CASE Insert(r)
    <3>1. CASE UNCHANGED local
      BY <2>5, <3>1, MoneyQuiet DEF Insert
    <3>2. CASE End(r, "lost")
      BY <1>0, <2>5, <3>2, MoneyQuiet DEF Insert
    <3> QED BY <2>5, <3>1, <3>2 DEF Insert
  <2>6. CASE Refetch(r)
    BY <2>6, MoneyQuiet DEF Refetch
  <2>7. CASE Rollback(r)
    BY <1>0, <2>7, MoneyQuiet DEF Rollback
  <2>8. CASE \E i \in Invoices : LockInvoice(r, i)
    BY <2>8, MoneyLocks, SettlementAssumption
  <2>9. CASE Commit(r)
    BY <2>9, MoneyCommits, SettlementAssumption
  <2>10. CASE Read(r)
    BY <2>10, MoneyQuiet DEF Read
  <2>11. CASE SaveReads(r)
    BY <2>11, MoneyQuiet DEF SaveReads
  <2>12. CASE SaveUpdates(r)
    BY <2>12, MoneySaves, SettlementAssumption
  <2> QED BY <2>1, <2>2, <2>3, <2>4, <2>5, <2>6, <2>7, <2>8, <2>9, <2>10, <2>11, <2>12
<1> QED BY <1>1, <1>2

\* What is paid of an invoice is what the confirmed payments allocate to it, it and
\* the credits stay within the total, and what is owed is the rest, for any number
\* of requests, unless the row changed under an unlocked post() or void().
THEOREM SettlementAllocationsAddUp == Spec => []AllocationsAddUp
<1>1. MoneyInv => AllocationsAddUp
  BY DEF MoneyInv, Allocated, Balanced, AllocationsAddUp
<1>2. Spec => []MirrorInv
  BY SettlementInvariant, MirrorInit, MirrorNext, PTL DEF Spec
<1> QED BY <1>1, <1>2, SettlementInvariant, SettlementLocks, MoneyInit, MoneyNext, PTL DEF Spec
=============================================================================
