--------------------------- MODULE ShoppingCheckout ---------------------------
(***************************************************************************)
(* One customer's shopping session (modules/customer-portal) from the      *)
(* Telegram updates to the sale and the online order.  A workflow engine   *)
(* relays an update to step(), carries out the request it answers with,    *)
(* and hands the response back with the operation's token, until nothing   *)
(* is asked any more.  It may die, lose an answer, send things twice and   *)
(* handle one update in several executions.  step() is one transaction     *)
(* under the lock of the session, so that each call of it is one step.     *)
(* The request that creates the order is not: a call goes through its      *)
(* transactions while its relay may have given up and sent another.        *)
(*                                                                         *)
(* What the customer asks for is one of five things: add an item, check    *)
(* out, submit, clear the cart, ask the assistant.  Cart buttons carry the *)
(* token of the view they were shown with.  Name, phone and address are    *)
(* known; a cart has few enough lines for the limit of 25 responses.       *)
(***************************************************************************)
EXTENDS Naturals, Sequences, FiniteSets

CONSTANTS
  Events,   \* the Telegram updates
  MayBe,    \* what each may be about
  Relays,   \* executions of the workflow that can be under way at one time
  Calls,    \* calls of createOrder() that can be under way at one time
  Year,     \* year of each, which names its number counter
  None,     \* no event, no call
  Back      \* of how many last views the customer may press a button

Words == {"add", "ask"}                              \* written, without a button
Kinds == Words \cup {"checkout", "submit", "clear"}

ASSUME CheckoutAssumption ==
  /\ MayBe \in [Events -> SUBSET Kinds]
  /\ None \notin Events \cup Calls /\ Back \in Nat

VARIABLES
  session,  \* the shopping_sessions row: active event, cart, stage, button, submission
  views,    \* history: the cart as it was shown with each button so far
  event,    \* the shopping_events rows: request, number of its token, body
  kind,     \* what each update is about
  pressed,  \* the button it carries
  relay,    \* where each relay is, with the operation it knows and its response
  call,     \* where each call of createOrder() is, and for which event
  sales,    \* number of sales with the event's creation key
  online    \* number of online orders of its sale

update == <<kind, pressed>>
orders == <<call, sales, online>>
vars == <<session, views, event, update, relay, orders>>
-----------------------------------------------------------------------------
NoLines  == [e \in Events |-> 0]
Idle     == [pc |-> "idle", event |-> None, op |-> "none", token |-> 0,
             response |-> "none", call |-> None]
FreeCall == [pc |-> "free", event |-> None]

Init ==
  /\ session = [active |-> None, cart |-> NoLines, stage |-> "none", button |-> 0,
                submission |-> None]
  /\ views   = <<>>
  /\ event   = [e \in Events |-> [op |-> "new", token |-> 0, items |-> NoLines, ordered |-> FALSE]]
  /\ kind    = [e \in Events |-> "none"]
  /\ pressed = [e \in Events |-> 0]
  /\ relay   = [x \in Relays |-> Idle]
  /\ call    = [c \in Calls |-> FreeCall]
  /\ sales   = [e \in Events |-> 0]
  /\ online  = [e \in Events |-> 0]

\* The relay learns the event's request and the token of it, or that there is none.
Answered(x, e, op, token) ==
  relay' = [relay EXCEPT ![x] =
    IF op = "none" THEN Idle
    ELSE [Idle EXCEPT !.pc = "request", !.event = e, !.op = op, !.token = token]]

\* The event's next request gets a token of its own; the order's keeps the cart.
Asks(e, next, ordered) ==
  event' = [event EXCEPT ![e] =
    [op |-> next, token |-> @.token + 1,
     items |-> IF next = "create" THEN session.cart ELSE @.items,
     ordered |-> @.ordered \/ ordered]]

\* An event without a request left is completed and gives the session back.
Holding(s, e, next) == [s EXCEPT !.active = IF next = "none" THEN None ELSE e]

Keep(s) == session' = s /\ UNCHANGED views

\* Slip: a new view of the cart keeps the buttons of the view before.
ShowOldButton(s, stage) ==
  IF s.cart = NoLines \/ s.button # 0 THEN Keep([s EXCEPT !.stage = stage])
  ELSE /\ views' = Append(views, s.cart)
       /\ session' = [s EXCEPT !.stage = stage, !.button = Len(views) + 1]

\* The cart is shown with new buttons; an empty one has none.
Show(s, stage) ==
  IF s.cart = NoLines THEN Keep([s EXCEPT !.stage = stage, !.button = 0])
  ELSE /\ views' = Append(views, s.cart)
       /\ session' = [s EXCEPT !.stage = stage, !.button = Len(views) + 1]
-----------------------------------------------------------------------------
\* The session as a new event finds it: after two hours without an update, and
\* without a submission, the shopper is forgotten.
Found(lapsed) ==
  IF lapsed /\ session.submission = None
  THEN [session EXCEPT !.cart = NoLines, !.stage = "none", !.button = 0]
  ELSE session

\* What a button of the current view, whose cart is not empty, asks for.
Press(k, s, e, next) ==
  \/ k = "clear" /\ next = "none" /\ Show([s EXCEPT !.cart = NoLines], "none")
  \/ k = "checkout" /\ next = "checkout" /\ Keep(s)
  \/ /\ k = "submit"
     /\ \/ s.stage # "checkout" /\ next = "none" /\ Show(s, "checkout")
        \/ s.stage = "checkout" /\ next = "validate" /\ Keep([s EXCEPT !.submission = e])

\* What an event of kind k with the button b leads to: its first request and
\* what becomes of the session.  A button of another view is stale.
Take(e, k, b, s, next) ==
  \/ k = "add" /\ next = "add" /\ Keep(s)
  \/ k = "ask" /\ next = "assistant" /\ Keep(s)
  \/ k \notin Words /\ b = s.button /\ Press(k, s, e, next)
  \/ k \notin Words /\ b # s.button /\ next = "none" /\ Keep(s)

\* prepare(): nothing is taken while the outcome of a submission is awaited.
Prepare(e, k, b, s, next) ==
  \/ s.submission # None /\ next = "none" /\ Keep(s)
  \/ s.submission = None /\ Take(e, k, b, s, next)

Requests == {"none", "add", "assistant", "checkout", "validate"}

\* The assistant's operation of the active event may be overdue.
Overdue(e) == e # None /\ event[e].op = "assistant"

\* The first step() of an event.  It waits for the active one, unless that is
\* an overdue assistant, which is then ended.
Start(x, e) ==
  LET a == session.active  shown == Len(views)
  IN  /\ relay[x].pc = "idle" /\ event[e].op = "new"
      /\ a = None \/ Overdue(a)
      /\ \E k \in MayBe[e], lapsed \in BOOLEAN, next \in Requests :
         \E b \in IF k \in Words THEN {0} ELSE {n \in 1..shown : n + Back > shown} :
           /\ Prepare(e, k, b, Holding(Found(lapsed), e, next), next)
           /\ kind' = [kind EXCEPT ![e] = k]
           /\ pressed' = [pressed EXCEPT ![e] = b]
           /\ event' = [f \in Events |->
                CASE f = e -> [event[e] EXCEPT !.op = next, !.token = 1]
                  [] f = a -> [event[f] EXCEPT !.op = "none"]
                  [] OTHER -> event[f]]
           /\ Answered(x, e, next, 1)
      /\ UNCHANGED orders

\* A later step() with the update alone answers with the event's request again.
Resume(x, e) ==
  /\ relay[x].pc = "idle" /\ event[e].op \notin {"new", "none"}
  /\ Answered(x, e, event[e].op, event[e].token)
  /\ UNCHANGED <<session, views, event, update, orders>>

\* step() for the active event, whose assistant is overdue, or for a completed
\* one ends that operation.
EndOverdue(x, e) ==
  /\ relay[x].pc = "idle" /\ Overdue(session.active)
  /\ event[e].op = "none" \/ e = session.active
  /\ event' = [event EXCEPT ![session.active].op = "none"]
  /\ session' = [session EXCEPT !.active = None]
  /\ UNCHANGED <<views, update, relay, orders>>
-----------------------------------------------------------------------------
\* The relay sends the order's request.
RequestOrder(x) ==
  /\ relay[x].pc = "request" /\ relay[x].op = "create"
  /\ \E c \in Calls :
       /\ call[c].pc = "free"
       /\ call' = [call EXCEPT ![c] = [pc |-> "find", event |-> relay[x].event]]
       /\ relay' = [relay EXCEPT ![x].pc = "wait", ![x].call = c]
  /\ UNCHANGED <<session, views, event, update, sales, online>>

\* The relay waits no longer; the call goes on.
Timeout(x) ==
  /\ relay[x].pc = "wait"
  /\ relay' = [relay EXCEPT ![x].pc = "answer", ![x].response = "down", ![x].call = None]
  /\ UNCHANGED <<session, views, event, update, orders>>

\* The execution dies, or what it was answered is lost to it.
Crash(x) ==
  /\ relay[x].pc # "idle"
  /\ relay' = [relay EXCEPT ![x] = Idle]
  /\ UNCHANGED <<session, views, event, update, orders>>
-----------------------------------------------------------------------------
\* What the catalogue, the customer's record and the assistant answer a relay,
\* and what createOrder() has answered it.
Responses(t) ==
  CASE t.op = "create"    -> IF t.pc = "answer" THEN {t.response} ELSE {}
    [] t.op = "validate"  -> {"ok", "profile", "stock", "price", "failed"}
    [] t.op = "assistant" -> {"reply", "read", "add", "cart"}
    [] OTHER              -> {"ok", "failed"}

Ordered(s) ==
  Keep([s EXCEPT !.cart = NoLines, !.stage = "none", !.submission = None, !.button = 0])

\* Slip: an order that was refused frees the session for another submission.
CreatedFreely(s, r, next) ==
  /\ next = "none"
  /\ \/ r = "ok" /\ Ordered(s)
     \/ r = "refused" /\ Keep([s EXCEPT !.submission = None])

\* respond() to the order's request: a refusal leaves the submission to the staff.
Created(s, r, next) ==
  /\ next = "none"
  /\ \/ r = "ok" /\ Ordered(s)
     \/ r = "refused" /\ Keep(s)

\* respond() while the cart is checked for submission.
Validated(s, r, next) ==
  \/ r = "ok" /\ next = "create" /\ Keep(s)
  \/ r = "profile" /\ next = "profile" /\ Keep(s)
  \/ /\ next = "none"
     /\ \/ r = "stock"  /\ Show([s EXCEPT !.submission = None], "none")
        \/ r = "price"  /\ Show([s EXCEPT !.submission = None], "checkout")
        \/ r = "failed" /\ Keep([s EXCEPT !.submission = None])

\* respond(): what a response leads to, by the operation it answers.
Respond(e, op, r, s, next) ==
  \/ op = "create" /\ Created(s, r, next)
  \/ op = "validate" /\ Validated(s, r, next)
  \/ /\ op = "profile"
     /\ \/ r = "ok" /\ next = "create" /\ Keep(s)
        \/ r = "failed" /\ next = "none" /\ Keep([s EXCEPT !.submission = None])
  \/ /\ op = "assistant"
     /\ \/ r = "reply" /\ next = "none" /\ Keep(s)
        \/ r = "read"  /\ next = "read" /\ Keep([s EXCEPT !.stage = "none"])
        \/ r = "add"   /\ next = "add"  /\ Keep(s)
        \/ r = "cart"  /\ next = "none" /\ Show(s, "none")
  \/ /\ op \in {"add", "checkout", "read"} /\ next = "none"
     /\ CASE op = "add" /\ r = "ok"      -> Show([s EXCEPT !.cart[e] = @ + 1], "none")
          [] op = "checkout" /\ r = "ok" -> Show(s, "checkout")
          [] OTHER                       -> Keep(s)

\* step() with a response.  It changes something once for each token: the same
\* response again is answered as before, any other is refused.  An order whose
\* outcome is unknown changes nothing, nor does the answer of an overdue assistant.
\* When what step() answers is lost, the relay sends the response again.
Deliver(x) ==
  LET t == relay[x]  e == t.event
      live == event[e].op = t.op /\ event[e].token = t.token /\ session.active = e
  IN  /\ t.pc \in {"request", "answer"}
      /\ \E r \in Responses(t) :
           \/ /\ live /\ ~(t.op = "create" /\ r = "down")
              /\ \E next \in Requests \cup {"read", "profile", "create"} :
                   /\ Respond(e, t.op, r, Holding(session, e, next), next)
                   /\ Asks(e, next, t.op = "create" /\ r = "ok")
                   /\ Answered(x, e, next, t.token + 1) \/ UNCHANGED relay
           \/ /\ event[e].token = t.token + 1 /\ Answered(x, e, event[e].op, event[e].token)
              /\ UNCHANGED <<session, views, event>>
           \/ /\ \/ ~live
                 \/ t.op = "create" /\ r = "down"
                 \/ Overdue(e)
              /\ relay' = [relay EXCEPT ![x] = Idle]
              /\ UNCHANGED <<session, views, event>>
      /\ UNCHANGED <<update, orders>>
-----------------------------------------------------------------------------
\* The call ends with a response, for the relay that still waits for it.
Ends(c, response) ==
  /\ call' = [call EXCEPT ![c] = FreeCall]
  /\ relay' = [x \in Relays |->
       IF relay[x].call = c
       THEN [relay[x] EXCEPT !.pc = "answer", !.response = response, !.call = None]
       ELSE relay[x]]

Goes(c, pc) == call' = [call EXCEPT ![c].pc = pc] /\ UNCHANGED relay

Holds(c)    == call[c].pc \in {"reread", "insert", "inserted"}
Inserted(e) == \E d \in Calls : call[d].pc = "inserted" /\ call[d].event = e
Unchanged   == UNCHANGED <<session, views, event, update>>

\* The sale with the event's key is looked up before anything else is.
Find(c) ==
  /\ call[c].pc = "find"
  /\ Goes(c, IF sales[call[c].event] > 0 THEN "online" ELSE "begin")
  /\ Unchanged /\ UNCHANGED <<sales, online>>

\* generateSaleNumber(): the counter of the company and the year.
LockCounter(c) ==
  /\ call[c].pc = "begin"
  /\ \A d \in Calls : ~(Holds(d) /\ Year[d] = Year[c])
  /\ Goes(c, "reread")
  /\ Unchanged /\ UNCHANGED <<sales, online>>

\* The key is looked up again, by a locking read of what is committed now.
Reread(c) ==
  /\ call[c].pc = "reread" /\ ~Inserted(call[c].event)
  /\ Goes(c, IF sales[call[c].event] > 0 THEN "online" ELSE "insert")
  /\ Unchanged /\ UNCHANGED <<sales, online>>

\* The sale is inserted, after an insert of the same key has ended; when that
\* was committed this one is a duplicate, and the sale of the key is looked up.
Insert(c) ==
  /\ call[c].pc = "insert" /\ ~Inserted(call[c].event)
  /\ Goes(c, IF sales[call[c].event] > 0 THEN "find" ELSE "inserted")
  /\ Unchanged /\ UNCHANGED <<sales, online>>

CommitSale(c) ==
  /\ call[c].pc = "inserted"
  /\ sales' = [sales EXCEPT ![call[c].event] = @ + 1]
  /\ Goes(c, "online")
  /\ Unchanged /\ UNCHANGED online

\* createForSale(): the online order of the sale, unless there is one.
FindOnline(c) ==
  /\ call[c].pc = "online"
  /\ IF online[call[c].event] > 0 THEN Ends(c, "ok") ELSE Goes(c, "publish")
  /\ Unchanged /\ UNCHANGED <<sales, online>>

\* Its insert, or the row of the one who was first.
InsertOnline(c) ==
  /\ call[c].pc = "publish"
  /\ online' = [online EXCEPT ![call[c].event] = IF @ > 0 THEN @ ELSE 1]
  /\ Ends(c, "ok")
  /\ Unchanged /\ UNCHANGED sales

\* The order is refused: the customer, the company, an item or its price.
Refuse(c) ==
  /\ call[c].pc \in {"find", "begin", "reread", "insert"}
  /\ Ends(c, "refused")
  /\ Unchanged /\ UNCHANGED <<sales, online>>

\* The process dies or the database fails; what is not committed is rolled back.
Fail(c) ==
  /\ call[c].pc # "free"
  /\ Ends(c, "down")
  /\ Unchanged /\ UNCHANGED <<sales, online>>

Next ==
  \/ \E x \in Relays, e \in Events : Start(x, e) \/ Resume(x, e) \/ EndOverdue(x, e)
  \/ \E x \in Relays : RequestOrder(x) \/ Timeout(x) \/ Crash(x) \/ Deliver(x)
  \/ \E c \in Calls :  \/ Find(c) \/ LockCounter(c) \/ Reread(c) \/ Insert(c)
                       \/ CommitSale(c) \/ FindOnline(c) \/ InsertOnline(c)
                       \/ Refuse(c) \/ Fail(c)

Spec == Init /\ [][Next]_vars
-----------------------------------------------------------------------------
Submits == {e \in Events : kind[e] = "submit"}

\* However often a checkout is submitted, by the same button or by executions
\* that were repeated, at most one sale and one online order come of it
\* (customer-portal.service.ts createOrder, shopping.js prepare).
OneOrderPerCheckout ==
  \A e, f \in Submits :
    /\ sales[e] <= 1 /\ online[e] <= sales[e]
    /\ e # f /\ pressed[e] = pressed[f] => sales[e] + sales[f] <= 1

\* A sale holds the cart as the button that ordered it showed it, whatever was
\* added, cleared or forgotten since, and no item of it was added twice
\* (shopping.js renderCart, checkout, submitRequest; advanceShopping).
OrderedAsShown ==
  \A e \in Submits : sales[e] > 0 =>
    /\ event[e].items = views[pressed[e]]
    /\ \A f \in Events : event[e].items[f] <= 1

\* While the customer has not been told of a sale, its submission is kept, so
\* that no other can follow; who has been told has a sale and an online order
\* (advanceShopping's 503, respond() to create_order).
UnknownIsKept ==
  \A e \in Submits :
    /\ sales[e] > 0 /\ ~event[e].ordered => session.submission = e
    /\ event[e].ordered => sales[e] = 1 /\ online[e] = 1
=============================================================================
