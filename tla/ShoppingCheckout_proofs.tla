------------------------- MODULE ShoppingCheckout_proofs -------------------------
(***************************************************************************)
(* One order for a checkout, of the cart that was shown, and no submission *)
(* forgotten while its outcome is unknown: for every number of updates,    *)
(* executions of the workflow, calls that create an order, and years.  The *)
(* argument is about the events whose order was begun: all but the one     *)
(* that is submitted now have been told of their sale, and each was        *)
(* pressed on a button of its own.                                         *)
(***************************************************************************)
EXTENDS ShoppingCheckout, SequenceTheorems, TLAPS

Requested == {"add", "assistant", "checkout", "validate", "read", "profile", "create"}
Submitted == {"validate", "profile", "create"}
Carts     == [Events -> Nat]
Session   == [active : Events \cup {None}, cart : Carts, stage : {"none", "checkout"},
              button : Nat, submission : Events \cup {None}]
Event     == [op : Requested \cup {"new", "none"}, token : Nat, items : Carts, ordered : BOOLEAN]
Relay     == [pc : {"idle", "request", "wait", "answer"}, event : Events \cup {None},
              op : Requested \cup {"none"}, token : Nat,
              response : {"none", "ok", "refused", "down"}, call : Calls \cup {None}]
Call      == [pc : {"free", "find", "begin", "reread", "insert", "inserted", "online", "publish"},
              event : Events \cup {None}]

SessionTypes ==
  /\ session \in Session /\ views \in Seq(Carts)
  /\ event \in [Events -> Event]
  /\ kind \in [Events -> Kinds \cup {"none"}] /\ pressed \in [Events -> Nat]

OrderTypes ==
  /\ relay \in [Relays -> Relay] /\ call \in [Calls -> Call]
  /\ sales \in [Events -> {0, 1}] /\ online \in [Events -> {0, 1}]

\* The cart is as the button shown last shows it.
ButtonShowsCart ==
  /\ session.button \in 0..Len(views)
  /\ session.button # 0 => session.cart = views[session.button]

\* An event adds its item when it ends.
AddedOnce ==
  /\ \A e \in Events : /\ session.cart[e] \in {0, 1}
                       /\ event[e].op # "none" => session.cart[e] = 0
  /\ \A n \in 1..Len(views), e \in Events : views[n][e] \in {0, 1}

\* An event that has not been taken has no operation yet.
NewIsUntouched == \A e \in Events : event[e].op = "new" => event[e].token = 0

\* The event that is submitted is the only one under way, if any is.
OneSubmission ==
  /\ \A e \in Events : event[e].op \in Submitted => session.submission = e
  /\ session.submission # None =>
       /\ session.active \in {session.submission, None}
       /\ event[session.submission].op \in Submitted \cup {"none"}
       /\ kind[session.submission] = "submit"
       /\ session.button # 0 /\ pressed[session.submission] = session.button

\* Events whose order has been asked for, or is being asked for.
Begun ==
  {e \in Events : \/ event[e].op = "create" \/ sales[e] > 0
                  \/ \E c \in Calls : call[c].event = e
                  \/ \E x \in Relays : relay[x].op = "create" /\ relay[x].event = e}

\* Each is the submission, or the customer was told of its sale and its button
\* is gone.
BegunIsKnown ==
  \A e \in Begun :
    /\ kind[e] = "submit" /\ pressed[e] \in 1..Len(views)
    /\ event[e].items = views[pressed[e]]
    /\ event[e].op \in {"create", "none"}
    /\ \/ session.submission = e
       \/ event[e].op = "none" /\ event[e].ordered /\ session.button # pressed[e]

ButtonsDiffer == \A e, f \in Begun : e # f => pressed[e] # pressed[f]

SessionInv ==
  /\ SessionTypes /\ ButtonShowsCart /\ AddedOnce /\ NewIsUntouched
  /\ OneSubmission /\ BegunIsKnown /\ ButtonsDiffer

\* A relay that is told "ok" is told so of a sale with an online order.
RelaysFollow ==
  \A x \in Relays :
    /\ relay[x].pc # "idle" => relay[x].event \in Events /\ relay[x].op \in Requested
    /\ relay[x].pc = "wait" => relay[x].op = "create"
    /\ relay[x].call # None =>
         /\ relay[x].pc = "wait"
         /\ call[relay[x].call].pc # "free" /\ call[relay[x].call].event = relay[x].event
    /\ relay[x].response = "ok" =>
         relay[x].pc # "idle" /\ sales[relay[x].event] = 1 /\ online[relay[x].event] = 1

\* One insert of a key is uncommitted at a time, and then there is no sale yet.
CallsFollow ==
  \A c \in Calls :
    /\ call[c].pc # "free" => call[c].event \in Events
    /\ call[c].pc = "free" => call[c].event = None
    /\ call[c].pc \in {"online", "publish"} => sales[call[c].event] = 1
    /\ call[c].pc = "inserted" =>
         /\ sales[call[c].event] = 0
         /\ \A d \in Calls : call[d].pc = "inserted" /\ call[d].event = call[c].event => d = c

OnlineHasSale == \A e \in Events : online[e] = 1 => sales[e] = 1

ToldOfSale == \A e \in Events : event[e].ordered => sales[e] = 1 /\ online[e] = 1

OrderInv == OrderTypes /\ RelaysFollow /\ CallsFollow /\ OnlineHasSale /\ ToldOfSale

IInv == SessionInv /\ OrderInv
-----------------------------------------------------------------------------
(* Calls of createOrder(), and relays that wait for them.                  *)

\* A step that leaves session and events alone begins no other order.
LEMMA QuietKeeps ==
  ASSUME SessionInv, UNCHANGED <<session, views, event, update>>, Begun' \subseteq Begun
  PROVE  SessionInv' /\ (ToldOfSale /\ UNCHANGED <<sales, online>> => ToldOfSale')
BY DEF SessionInv, SessionTypes, ButtonShowsCart, AddedOnce, NewIsUntouched, OneSubmission,
   BegunIsKnown, ButtonsDiffer, ToldOfSale, update

\* Sales and online orders are only added, and relays know of no more events.
Steady ==
  /\ UNCHANGED <<session, views, event, update>>
  /\ \A e \in Events : (sales[e] = 1 => sales'[e] = 1) /\ (online[e] = 1 => online'[e] = 1)
  /\ \A e \in Events : sales'[e] = 1 /\ sales[e] # 1 => \E c \in Calls : call[c].event = e
  /\ \A c \in Calls :
       \/ call'[c].event \in {call[c].event, None}
       \/ \E x \in Relays : relay[x].op = "create" /\ relay[x].event = call'[c].event
  /\ \A x \in Relays :
       \/ relay'[x].op = relay[x].op /\ relay'[x].event = relay[x].event
       \/ relay'[x] = Idle

LEMMA SteadyKeeps ==
  ASSUME CheckoutAssumption, SessionInv, OrderTypes, OrderTypes', ToldOfSale, Steady
  PROVE  SessionInv' /\ ToldOfSale'
<1>1. Begun' \subseteq Begun
  BY CheckoutAssumption DEF CheckoutAssumption, Begun, Steady, OrderTypes, Idle
<1>2. ToldOfSale'
  BY DEF ToldOfSale, Steady
<1> QED BY <1>1, <1>2, QuietKeeps DEF Steady

\* A call that ends tells the relay that waits for it what is so.
LEMMA EndsKeeps ==
  ASSUME CheckoutAssumption, OrderInv, NEW c \in Calls, call[c].pc # "free",
         NEW r \in {"ok", "refused", "down"}, Ends(c, r),
         OrderTypes', UNCHANGED <<session, views, event, update, sales>>,
         \A e \in Events : online[e] = 1 => online'[e] = 1,
         r = "ok" => sales[call[c].event] = 1 /\ online'[call[c].event] = 1
  PROVE  Steady /\ RelaysFollow' /\ CallsFollow'
<1> USE CheckoutAssumption DEF CheckoutAssumption, OrderInv, OrderTypes
<1>1. call' = [call EXCEPT ![c] = FreeCall]
      /\ \A x \in Relays :
           relay'[x] = IF relay[x].call = c
                       THEN [relay[x] EXCEPT !.pc = "answer", !.response = r, !.call = None]
                       ELSE relay[x]
  BY DEF Ends
<1>2. /\ call'[c].pc = "free" /\ call'[c].event = None
      /\ \A d \in Calls \ {c} : call'[d] = call[d]
  BY <1>1 DEF FreeCall
<1>3. ASSUME NEW x \in Relays, relay[x].call = c
      PROVE  /\ relay'[x].pc = "answer" /\ relay'[x].response = r /\ relay'[x].call = None
             /\ relay'[x].op = relay[x].op /\ relay'[x].event = relay[x].event
             /\ relay[x].pc = "wait" /\ relay[x].event = call[c].event
  <2>1. relay'[x] = [relay[x] EXCEPT !.pc = "answer", !.response = r, !.call = None]
        /\ relay[x] \in Relay
    BY <1>1, <1>3
  <2>2. relay[x].pc = "wait" /\ relay[x].event = call[c].event
    BY <1>3 DEF RelaysFollow
  <2> QED BY <2>1, <2>2 DEF Relay
<1>4. \A x \in Relays : relay[x].call # c => relay'[x] = relay[x]
  BY <1>1
<1>5. Steady
  <2>1. \A x \in Relays : relay'[x].op = relay[x].op /\ relay'[x].event = relay[x].event
    BY <1>3, <1>4
  <2>2. \A d \in Calls : call'[d].event \in {call[d].event, None}
    BY <1>2
  <2> QED BY <2>1, <2>2 DEF Steady
<1>6. RelaysFollow'
  <2> SUFFICES ASSUME NEW x \in Relays
               PROVE  /\ relay'[x].pc # "idle" => relay'[x].event \in Events
                                                  /\ relay'[x].op \in Requested
                      /\ relay'[x].pc = "wait" => relay'[x].op = "create"
                      /\ relay'[x].call # None =>
                           /\ relay'[x].pc = "wait"
                           /\ call'[relay'[x].call].pc # "free"
                           /\ call'[relay'[x].call].event = relay'[x].event
                      /\ relay'[x].response = "ok" =>
                           /\ relay'[x].pc # "idle"
                           /\ sales'[relay'[x].event] = 1 /\ online'[relay'[x].event] = 1
    BY DEF RelaysFollow
  <2>1. CASE relay[x].call = c
    <3>1. relay[x].event \in Events /\ relay[x].op \in Requested
      BY <1>3, <2>1 DEF RelaysFollow
    <3> QED BY <1>3, <2>1, <3>1
  <2>2. CASE relay[x].call # c
    <3>1. relay'[x] = relay[x] /\ relay[x].call \in Calls \cup {None}
      BY <1>4, <2>2 DEF Relay
    <3>2. relay[x].call # None => call'[relay[x].call] = call[relay[x].call]
      BY <1>2, <2>2, <3>1
    <3>3. relay[x].response = "ok" =>
            relay[x].pc # "idle" /\ relay[x].event \in Events
            /\ sales'[relay[x].event] = 1 /\ online'[relay[x].event] = 1
      BY DEF RelaysFollow
    <3> QED BY <3>1, <3>2, <3>3 DEF RelaysFollow
  <2> QED BY <2>1, <2>2
<1>7. CallsFollow'
  <2> SUFFICES ASSUME NEW d \in Calls
               PROVE  /\ call'[d].pc # "free" => call'[d].event \in Events
                      /\ call'[d].pc = "free" => call'[d].event = None
                      /\ call'[d].pc \in {"online", "publish"} => sales'[call'[d].event] = 1
                      /\ call'[d].pc = "inserted" =>
                           /\ sales'[call'[d].event] = 0
                           /\ \A q \in Calls : call'[q].pc = "inserted"
                                /\ call'[q].event = call'[d].event => q = d
    BY DEF CallsFollow
  <2>1. CASE d = c
    BY <1>2, <2>1
  <2>2. CASE d # c
    BY <1>2, <2>2 DEF CallsFollow
  <2> QED BY <2>1, <2>2
<1> QED BY <1>5, <1>6, <1>7

\* A call that goes on knows of the sale when it should, and inserts alone.
LEMMA GoesKeeps ==
  ASSUME CheckoutAssumption, OrderInv, NEW c \in Calls, call[c].pc # "free",
         NEW pc \in {"begin", "reread", "insert", "inserted", "online", "publish", "find"},
         Goes(c, pc), UNCHANGED <<session, views, event, update, online>>,
         \/ UNCHANGED sales
         \/ call[c].pc = "inserted" /\ sales' = [sales EXCEPT ![call[c].event] = @ + 1],
         pc \in {"online", "publish"} => sales'[call[c].event] = 1,
         pc = "inserted" => /\ sales[call[c].event] = 0 /\ ~Inserted(call[c].event)
                            /\ UNCHANGED sales
  PROVE  Steady /\ OrderTypes' /\ RelaysFollow' /\ CallsFollow' /\ OnlineHasSale'
<1> USE CheckoutAssumption DEF CheckoutAssumption, OrderInv, OrderTypes
<1>1. call[c] \in Call /\ call[c].event \in Events /\ UNCHANGED relay
  BY DEF CallsFollow, Goes
<1>2. call' = [call EXCEPT ![c] = [call[c] EXCEPT !.pc = pc]]
  BY DEF Goes
<1>3. /\ call'[c].pc = pc /\ call'[c].event = call[c].event
      /\ \A d \in Calls \ {c} : call'[d] = call[d]
  BY <1>1, <1>2 DEF Call
<1>4. /\ sales' \in [Events -> {0, 1}]
      /\ \A e \in Events : sales[e] = 1 => sales'[e] = 1
      /\ \A e \in Events : sales'[e] # sales[e] => e = call[c].event /\ call[c].pc = "inserted"
  <2>1. CASE UNCHANGED sales
    BY <2>1
  <2>2. CASE call[c].pc = "inserted" /\ sales' = [sales EXCEPT ![call[c].event] = @ + 1]
    <3>1. sales[call[c].event] = 0
      BY <2>2 DEF CallsFollow
    <3> QED BY <1>1, <2>2, <3>1
  <2> QED BY <2>1, <2>2
<1>5. OrderTypes'
  <2>1. [call[c] EXCEPT !.pc = pc] \in Call
    BY <1>1 DEF Call
  <2> QED BY <1>1, <1>2, <1>4, <2>1
<1>6. Steady
  BY <1>1, <1>3, <1>4 DEF Steady
<1>7. RelaysFollow'
  <2>1. \A x \in Relays : relay[x].response = "ok" => relay[x].event \in Events
    BY DEF RelaysFollow
  <2>2. \A x \in Relays : relay[x].call \in Calls \cup {None}
    BY DEF Relay
  <2> QED BY <1>1, <1>3, <1>4, <2>1, <2>2 DEF RelaysFollow
<1>8. CallsFollow'
  <2> SUFFICES ASSUME NEW d \in Calls
               PROVE  /\ call'[d].pc # "free" => call'[d].event \in Events
                      /\ call'[d].pc = "free" => call'[d].event = None
                      /\ call'[d].pc \in {"online", "publish"} => sales'[call'[d].event] = 1
                      /\ call'[d].pc = "inserted" =>
                           /\ sales'[call'[d].event] = 0
                           /\ \A q \in Calls : call'[q].pc = "inserted"
                                /\ call'[q].event = call'[d].event => q = d
    BY DEF CallsFollow
  <2>1. CASE d = c
    BY <1>1, <1>3, <2>1 DEF Inserted
  <2>2. CASE d # c
    <3>1. call'[d].pc = "inserted" /\ call[c].pc = "inserted" => call[d].event # call[c].event
      BY <1>3, <2>2 DEF CallsFollow
    <3>2. call'[d].pc = "inserted" /\ pc = "inserted" => call[d].event # call[c].event
      BY <1>3, <2>2 DEF Inserted
    <3> QED BY <1>1, <1>3, <1>4, <2>2, <3>1, <3>2 DEF CallsFollow
  <2> QED BY <2>1, <2>2
<1>9. OnlineHasSale'
  BY <1>4 DEF OnlineHasSale
<1> QED BY <1>5, <1>6, <1>7, <1>8, <1>9

\* Every step of a call does one or the other.
LEMMA CallKeeps ==
  ASSUME CheckoutAssumption, OrderInv, NEW c \in Calls,
         \/ Find(c) \/ LockCounter(c) \/ Reread(c) \/ Insert(c) \/ CommitSale(c)
         \/ FindOnline(c) \/ InsertOnline(c) \/ Refuse(c) \/ Fail(c)
  PROVE  Steady /\ OrderTypes' /\ RelaysFollow' /\ CallsFollow' /\ OnlineHasSale'
<1> USE CheckoutAssumption DEF CheckoutAssumption, OrderInv, OrderTypes
<1>0. /\ call[c].pc # "free" /\ call[c].event \in Events /\ call[c] \in Call
      /\ sales[call[c].event] \in {0, 1} /\ online[call[c].event] \in {0, 1}
      /\ UNCHANGED <<session, views, event, update>>
  BY DEF Find, LockCounter, Reread, Insert, CommitSale, FindOnline, InsertOnline, Refuse, Fail,
     CallsFollow, Unchanged
<1>1. CASE Find(c) \/ LockCounter(c) \/ Reread(c) \/ Insert(c)
  <2>1. CASE Find(c)
    BY <1>0, <2>1, GoesKeeps DEF Find
  <2>2. CASE LockCounter(c)
    BY <1>0, <2>2, GoesKeeps DEF LockCounter
  <2>3. CASE Reread(c)
    BY <1>0, <2>3, GoesKeeps DEF Reread
  <2>4. CASE Insert(c)
    BY <1>0, <2>4, GoesKeeps DEF Insert
  <2> QED BY <1>1, <2>1, <2>2, <2>3, <2>4
<1>2. CASE CommitSale(c)
  <2>1. sales[call[c].event] = 0
    BY <1>2 DEF CommitSale, CallsFollow
  <2>2. sales'[call[c].event] = 1
    BY <1>0, <1>2, <2>1 DEF CommitSale
  <2> QED BY <1>0, <1>2, <2>2, GoesKeeps DEF CommitSale
<1>3. CASE FindOnline(c) /\ ~(online[call[c].event] > 0)
  <2>1. sales[call[c].event] = 1
    BY <1>3 DEF FindOnline, CallsFollow
  <2> QED BY <1>0, <1>3, <2>1, GoesKeeps DEF FindOnline
<1>4. CASE \/ FindOnline(c) /\ online[call[c].event] > 0
           \/ InsertOnline(c) \/ Refuse(c) \/ Fail(c)
  <2>1. UNCHANGED sales
    BY <1>4 DEF FindOnline, InsertOnline, Refuse, Fail
  <2>2. /\ online' \in [Events -> {0, 1}]
        /\ \A e \in Events : online[e] = 1 => online'[e] = 1
        /\ \A e \in Events : online'[e] # online[e] => sales[e] = 1
    BY <1>0, <1>4 DEF FindOnline, InsertOnline, Refuse, Fail, CallsFollow
  <2>3. PICK r \in {"ok", "refused", "down"} :
          /\ Ends(c, r)
          /\ r = "ok" => sales[call[c].event] = 1 /\ online'[call[c].event] = 1
    BY <1>0, <1>4 DEF FindOnline, InsertOnline, Refuse, Fail, CallsFollow
  <2>4. OrderTypes'
    <3>1. FreeCall \in Call
      BY DEF FreeCall, Call
    <3>2. ASSUME NEW x \in Relays
          PROVE  [relay[x] EXCEPT !.pc = "answer", !.response = r, !.call = None] \in Relay
      <4>1. relay[x] \in Relay
        OBVIOUS
      <4> QED BY <4>1, <2>3 DEF Relay
    <3>3. call' \in [Calls -> Call]
      BY <2>3, <3>1 DEF Ends
    <3>4. relay' \in [Relays -> Relay]
      <4> DEFINE told(y) == [relay[y] EXCEPT !.pc = "answer", !.response = r, !.call = None]
      <4>1. relay' = [y \in Relays |-> IF relay[y].call = c THEN told(y) ELSE relay[y]]
        BY <2>3 DEF Ends
      <4>2. \A y \in Relays : told(y) \in Relay /\ relay[y] \in Relay
        BY <3>2
      <4> HIDE DEF told
      <4> QED BY <4>1, <4>2
    <3> QED BY <2>1, <2>2, <3>3, <3>4
  <2>5. Steady /\ RelaysFollow' /\ CallsFollow'
    BY <1>0, <2>1, <2>2, <2>3, <2>4, EndsKeeps
  <2>6. OnlineHasSale'
    BY <2>1, <2>2 DEF OnlineHasSale
  <2> QED BY <2>4, <2>5, <2>6
<1> QED BY <1>1, <1>2, <1>3, <1>4

\* A relay requests the order, waits no longer, or dies.
LEMMA RelayKeeps ==
  ASSUME CheckoutAssumption, OrderInv, NEW x \in Relays,
         RequestOrder(x) \/ Timeout(x) \/ Crash(x)
  PROVE  Steady /\ OrderTypes' /\ RelaysFollow' /\ CallsFollow' /\ OnlineHasSale'
<1> USE CheckoutAssumption DEF CheckoutAssumption, OrderInv, OrderTypes
<1>0. UNCHANGED <<session, views, event, update, sales, online>> /\ relay[x] \in Relay
  BY DEF RequestOrder, Timeout, Crash, orders
<1>1. CASE RequestOrder(x)
  <2>1. PICK c \in Calls :
          /\ call[c].pc = "free"
          /\ call' = [call EXCEPT ![c] = [pc |-> "find", event |-> relay[x].event]]
          /\ relay' = [relay EXCEPT ![x] = [relay[x] EXCEPT !.pc = "wait", !.call = c]]
    BY <1>1 DEF RequestOrder
  <2>2. /\ relay[x].pc = "request" /\ relay[x].op = "create" /\ relay[x].event \in Events
    BY <1>1 DEF RequestOrder, RelaysFollow
  <2>3. /\ call'[c].pc = "find" /\ call'[c].event = relay[x].event
        /\ \A d \in Calls \ {c} : call'[d] = call[d]
    BY <2>1
  <2>4. /\ relay'[x].pc = "wait" /\ relay'[x].call = c /\ relay'[x].op = relay[x].op
        /\ relay'[x].event = relay[x].event /\ relay'[x].response = relay[x].response
        /\ \A y \in Relays \ {x} : relay'[y] = relay[y]
    BY <1>0, <2>1 DEF Relay
  <2>5. OrderTypes'
    <3>1. [pc |-> "find", event |-> relay[x].event] \in Call
      BY <2>2 DEF Call
    <3>2. [relay[x] EXCEPT !.pc = "wait", !.call = c] \in Relay
      BY <1>0 DEF Relay
    <3> QED BY <1>0, <2>1, <3>1, <3>2
  <2>6. Steady
    BY <1>0, <2>2, <2>3, <2>4 DEF Steady
  <2>7. RelaysFollow'
    <3>1. \A y \in Relays : relay[y].call # c
      BY <2>1 DEF RelaysFollow
    <3>2. \A y \in Relays : relay[y].call \in Calls \cup {None}
      BY DEF Relay
    <3> QED BY <1>0, <2>2, <2>3, <2>4, <3>1, <3>2 DEF RelaysFollow
  <2>8. CallsFollow'
    BY <1>0, <2>2, <2>3 DEF CallsFollow
  <2> QED BY <1>0, <2>5, <2>6, <2>7, <2>8 DEF OnlineHasSale
<1>2. CASE Timeout(x) \/ Crash(x)
  <2>1. UNCHANGED call
    BY <1>2 DEF Timeout, Crash, orders
  <2>2. \/ relay' = [relay EXCEPT ![x] = Idle]
        \/ /\ relay[x].pc = "wait"
           /\ relay' = [relay EXCEPT ![x] =
                [relay[x] EXCEPT !.pc = "answer", !.response = "down", !.call = None]]
    BY <1>2 DEF Timeout, Crash
  <2>3. OrderTypes'
    <3>1. Idle \in Relay
      BY DEF Idle, Relay
    <3>2. [relay[x] EXCEPT !.pc = "answer", !.response = "down", !.call = None] \in Relay
      BY <1>0 DEF Relay
    <3> QED BY <1>0, <2>1, <2>2, <3>1, <3>2
  <2>4. /\ \A y \in Relays \ {x} : relay'[y] = relay[y]
        /\ \/ relay'[x] = Idle
           \/ /\ relay[x].pc = "wait" /\ relay'[x].pc = "answer" /\ relay'[x].call = None
              /\ relay'[x].response = "down"
              /\ relay'[x].op = relay[x].op /\ relay'[x].event = relay[x].event
    <3>1. CASE relay' = [relay EXCEPT ![x] = Idle]
      BY <3>1
    <3>2. CASE relay' # [relay EXCEPT ![x] = Idle]
      <4> DEFINE told == [relay[x] EXCEPT !.pc = "answer", !.response = "down", !.call = None]
      <4>1. relay[x].pc = "wait" /\ relay' = [relay EXCEPT ![x] = told]
        BY <2>2, <3>2
      <4>2. /\ told.pc = "answer" /\ told.call = None /\ told.response = "down"
            /\ told.op = relay[x].op /\ told.event = relay[x].event
        BY <1>0 DEF Relay
      <4> HIDE DEF told
      <4> QED BY <4>1, <4>2
    <3> QED BY <3>1, <3>2
  <2>5. Steady
    BY <1>0, <2>1, <2>4 DEF Steady
  <2>7. RelaysFollow'
    <3>1. CASE relay'[x] = Idle
      BY <1>0, <2>1, <2>4, <3>1 DEF RelaysFollow, Idle
    <3>2. CASE relay'[x] # Idle
      <4>1. /\ relay[x].event \in Events /\ relay[x].op \in Requested
            /\ relay'[x].pc = "answer" /\ relay'[x].call = None /\ relay'[x].response = "down"
            /\ relay'[x].op = relay[x].op /\ relay'[x].event = relay[x].event
        BY <2>4, <3>2 DEF RelaysFollow
      <4> QED BY <1>0, <2>1, <2>4, <4>1 DEF RelaysFollow
    <3> QED BY <3>1, <3>2
  <2>6. CallsFollow'
    BY <1>0, <2>1 DEF CallsFollow
  <2> QED BY <1>0, <2>3, <2>5, <2>6, <2>7 DEF OnlineHasSale
<1> QED BY <1>1, <1>2
-----------------------------------------------------------------------------
(* step().                                                                 *)

\* What a step leaves of a session s and of the views.
Left(s) ==
  /\ session' \in Session /\ views' \in Seq(Carts)
  /\ session'.active = s.active /\ session'.cart = s.cart /\ session'.submission = s.submission
  /\ Len(views) <= Len(views')
  /\ \A n \in 1..Len(views) : views'[n] = views[n]
  /\ \A n \in Len(views) + 1..Len(views') : views'[n] = s.cart
  /\ \/ session'.button = 0
     \/ session'.button = Len(views) + 1 /\ Len(views') = Len(views) + 1
     \/ session' = s /\ views' = views

LEMMA ShowLeaves ==
  ASSUME SessionTypes, NEW s \in Session, NEW stage \in {"none", "checkout"},
         Keep(s) \/ Show(s, stage)
  PROVE  Left(s)
<1> USE DEF SessionTypes
<1>1. CASE Keep(s)
  BY <1>1 DEF Keep, Left
<1>2. CASE Show(s, stage) /\ s.cart = NoLines
  <2>1. views' = views /\ session' = [s EXCEPT !.stage = stage, !.button = 0]
    BY <1>2 DEF Show, Keep
  <2>2. /\ session' \in Session /\ session'.button = 0 /\ session'.active = s.active
        /\ session'.cart = s.cart /\ session'.submission = s.submission
    BY <2>1 DEF Session
  <2> QED BY <2>1, <2>2 DEF Left
<1>3. CASE Show(s, stage) /\ s.cart # NoLines
  <2>1. /\ views' = Append(views, s.cart)
        /\ session' = [s EXCEPT !.stage = stage, !.button = Len(views) + 1]
    BY <1>3 DEF Show
  <2>2. s.cart \in Carts
    BY DEF Session
  <2>3. /\ views' \in Seq(Carts) /\ Len(views') = Len(views) + 1
        /\ \A n \in 1..Len(views) : views'[n] = views[n]
        /\ views'[Len(views) + 1] = s.cart
    BY <2>1, <2>2
  <2>4. Len(views) + 1 \in Nat
    OBVIOUS
  <2>5. /\ session' \in Session /\ session'.button = Len(views) + 1
        /\ session'.active = s.active
        /\ session'.cart = s.cart /\ session'.submission = s.submission
    BY <2>1, <2>4 DEF Session
  <2> QED BY <2>3, <2>5 DEF Left
<1> QED BY <1>1, <1>2, <1>3

\* The cart and its views, when the session that is left has the old button
\* with the old cart, or none.
LEMMA LeftKeeps ==
  ASSUME SessionInv, NEW s, Left(s), event' \in [Events -> Event],
         session' = s =>
           s.button = 0 \/ (s.button = session.button /\ s.cart = session.cart),
         \A e \in Events : s.cart[e] \in {0, 1} /\ (event'[e].op # "none" => s.cart[e] = 0)
  PROVE  ButtonShowsCart' /\ AddedOnce'
<1> USE DEF SessionInv, SessionTypes, Left
<1>1. Len(views) \in Nat /\ Len(views') \in Nat
  OBVIOUS
<1>2. ButtonShowsCart'
  BY <1>1 DEF ButtonShowsCart
<1>3. AddedOnce'
  <2>1. ASSUME NEW n \in 1..Len(views'), NEW e \in Events
        PROVE  views'[n][e] \in {0, 1}
    <3>1. CASE n \in 1..Len(views)
      BY <3>1 DEF AddedOnce
    <3>2. CASE n \in Len(views) + 1..Len(views')
      BY <3>2
    <3> QED BY <1>1, <3>1, <3>2
  <2> QED BY <2>1 DEF AddedOnce
<1> QED BY <1>2, <1>3

\* A step that begins no order keeps what is known of those that were begun.
LEMMA BegunKeeps ==
  ASSUME SessionInv, NEW s, Left(s), Begun' \subseteq Begun,
         session' = s => s.button \in {0, session.button},
         \A e \in Begun :
           /\ kind'[e] = kind[e] /\ pressed'[e] = pressed[e]
           /\ event'[e].items = event[e].items
           /\ event'[e].op \in {event[e].op, "none"}
           /\ event[e].ordered => event'[e].ordered
           /\ session.submission = e =>
                \/ session'.submission = e
                \/ event'[e].op = "none" /\ event'[e].ordered /\ session'.button = 0
  PROVE  BegunIsKnown' /\ ButtonsDiffer'
<1> USE DEF SessionInv, SessionTypes
<1>1. BegunIsKnown'
  <2> SUFFICES ASSUME NEW e \in Begun'
               PROVE  /\ kind'[e] = "submit" /\ pressed'[e] \in 1..Len(views')
                      /\ event'[e].items = views'[pressed'[e]]
                      /\ event'[e].op \in {"create", "none"}
                      /\ \/ session'.submission = e
                         \/ /\ event'[e].op = "none" /\ event'[e].ordered
                            /\ session'.button # pressed'[e]
    BY DEF BegunIsKnown
  <2>1. e \in Begun /\ pressed[e] \in 1..Len(views)
    BY DEF BegunIsKnown
  <2>2. Len(views) \in Nat /\ Len(views') \in Nat
    BY DEF Left
  <2>3. pressed'[e] \in 1..Len(views') /\ views'[pressed'[e]] = views[pressed[e]]
    BY <2>1, <2>2 DEF Left
  <2>4. \/ session'.button = 0 \/ session'.button = Len(views) + 1
        \/ session'.button = session.button
    BY DEF Left
  <2>5. session'.button = session.button \/ session'.button # pressed[e]
    BY <2>1, <2>2, <2>4
  <2> QED BY <2>1, <2>2, <2>3, <2>5 DEF BegunIsKnown
<1>2. ButtonsDiffer'
  BY DEF ButtonsDiffer
<1> QED BY <1>1, <1>2

\* What step() answers a relay changes no order.
LEMMA AnswerKeeps ==
  ASSUME CheckoutAssumption, OrderInv, UNCHANGED orders, NEW x \in Relays, NEW e \in Events,
         NEW op \in Requested \cup {"none"}, NEW token \in Nat,
         \/ Answered(x, e, op, token)
         \/ UNCHANGED relay
         \/ relay' = [relay EXCEPT ![x] = Idle]
  PROVE  /\ OrderTypes' /\ RelaysFollow' /\ CallsFollow' /\ OnlineHasSale'
         /\ \A y \in Relays : relay'[y].op = "create" =>
              \/ relay[y].op = "create" /\ relay'[y].event = relay[y].event
              \/ op = "create" /\ relay'[y].event = e
<1> USE CheckoutAssumption DEF CheckoutAssumption, OrderInv, OrderTypes, orders
<1>1. \E t \in {Idle, relay[x],
                [pc |-> "request", event |-> e, op |-> op, token |-> token,
                 response |-> "none", call |-> None]} :
        /\ t = Idle \/ t = relay[x] \/ op # "none"
        /\ relay' = [relay EXCEPT ![x] = t]
  <2>1. CASE Answered(x, e, op, token) /\ op # "none"
    BY <2>1 DEF Answered, Idle
  <2>2. CASE Answered(x, e, op, token) /\ op = "none"
    BY <2>2 DEF Answered
  <2> QED BY <2>1, <2>2
<1>2. PICK t \in {Idle, relay[x],
                  [pc |-> "request", event |-> e, op |-> op, token |-> token,
                   response |-> "none", call |-> None]} :
        /\ t = Idle \/ t = relay[x] \/ op # "none"
        /\ relay' = [relay EXCEPT ![x] = t]
  BY <1>1
<1>3. relay'[x] = t /\ \A y \in Relays \ {x} : relay'[y] = relay[y]
  BY <1>2
<1>4. OrderTypes'
  <2>1. t \in Relay
    BY <1>2 DEF Relay, Idle
  <2> QED BY <1>2, <2>1
<1>5. RelaysFollow'
  <2>1. CASE t = relay[x]
    BY <1>3, <2>1 DEF RelaysFollow
  <2>2. CASE t = Idle
    BY <1>3, <2>2 DEF RelaysFollow, Idle
  <2>3. CASE t # Idle /\ t # relay[x]
    <3>1. /\ t = [pc |-> "request", event |-> e, op |-> op, token |-> token,
                  response |-> "none", call |-> None]
          /\ op \in Requested
      BY <1>2, <2>3
    <3> QED BY <1>3, <3>1 DEF RelaysFollow
  <2> QED BY <2>1, <2>2, <2>3
<1>6. CallsFollow' /\ OnlineHasSale'
  BY DEF CallsFollow, OnlineHasSale
<1>7. \A y \in Relays : relay'[y].op = "create" =>
        \/ relay[y].op = "create" /\ relay'[y].event = relay[y].event
        \/ op = "create" /\ relay'[y].event = e
  BY <1>2, <1>3 DEF Idle
<1> QED BY <1>4, <1>5, <1>6, <1>7

\* A new event submits the cart as the button shows it, or lets the submission be.
LEMMA StartKeeps ==
  ASSUME CheckoutAssumption, IInv, NEW x \in Relays, NEW e \in Events, Start(x, e)
  PROVE  IInv'
<1> USE CheckoutAssumption DEF CheckoutAssumption, IInv
<1> DEFINE a == session.active
<1>1. PICK k \in MayBe[e], lapsed \in BOOLEAN, next \in Requests :
        \E b \in IF k \in Words THEN {0} ELSE {n \in 1..Len(views) : n + Back > Len(views)} :
          /\ Prepare(e, k, b, Holding(Found(lapsed), e, next), next)
          /\ kind' = [kind EXCEPT ![e] = k]
          /\ pressed' = [pressed EXCEPT ![e] = b]
          /\ event' = [f \in Events |->
               CASE f = e -> [event[e] EXCEPT !.op = next, !.token = 1]
                 [] f = a -> [event[f] EXCEPT !.op = "none"]
                 [] OTHER -> event[f]]
          /\ Answered(x, e, next, 1)
  BY DEF Start
<1>2. PICK b \in IF k \in Words THEN {0} ELSE {n \in 1..Len(views) : n + Back > Len(views)} :
          /\ Prepare(e, k, b, Holding(Found(lapsed), e, next), next)
          /\ kind' = [kind EXCEPT ![e] = k]
          /\ pressed' = [pressed EXCEPT ![e] = b]
          /\ event' = [f \in Events |->
               CASE f = e -> [event[e] EXCEPT !.op = next, !.token = 1]
                 [] f = a -> [event[f] EXCEPT !.op = "none"]
                 [] OTHER -> event[f]]
          /\ Answered(x, e, next, 1)
  BY <1>1
<1>3. /\ event[e].op = "new" /\ (a = None \/ (a \in Events /\ event[a].op = "assistant"))
      /\ UNCHANGED orders /\ k \in Kinds /\ b \in Nat
      /\ next \in Requested \cup {"none"} /\ e \notin Begun
  <2>1. k \in Kinds
    OBVIOUS
  <2>2. b \in Nat
    BY DEF SessionInv, SessionTypes
  <2>3. event[e].op = "new" /\ e \notin Begun
    BY DEF Start, SessionInv, BegunIsKnown
  <2> QED BY <2>1, <2>2, <2>3 DEF Start, Overdue, Requests, Requested, SessionInv, SessionTypes,
     Session
<1> DEFINE s == Holding(Found(lapsed), e, next)
<1>4. /\ s \in Session /\ s.active = (IF next = "none" THEN None ELSE e)
      /\ s.submission = session.submission
      /\ (s.button = 0 /\ s.cart = NoLines) \/ (s.button = session.button /\ s.cart = session.cart)
      /\ session.submission # None => s.button = session.button /\ s.cart = session.cart
  <2>1. session \in Session /\ NoLines \in Carts
    BY DEF SessionInv, SessionTypes, NoLines, Carts
  <2> DEFINE found == Found(lapsed)
  <2>2. /\ found \in Session
        /\ found.submission = session.submission
        /\ (found.button = 0 /\ found.cart = NoLines)
           \/ (found.button = session.button /\ found.cart = session.cart)
        /\ session.submission # None =>
             found.button = session.button /\ found.cart = session.cart
    BY <2>1 DEF Found, Session
  <2>3. s = [found EXCEPT !.active = IF next = "none" THEN None ELSE e]
    BY DEF Holding
  <2> HIDE DEF found
  <2>4. (IF next = "none" THEN None ELSE e) \in Events \cup {None}
    OBVIOUS
  <2> HIDE DEF s
  <2> QED BY <2>2, <2>3, <2>4 DEF Session
<1> HIDE DEF s
<1>5. PICK t \in Session :
        /\ Left(t) /\ t.active = s.active
        /\ \/ t.cart = s.cart /\ t.button = s.button
           \/ t.cart = NoLines /\ session' # t
           \/ t.cart = NoLines /\ t.button = 0
        /\ \/ t.submission = session.submission /\ next # "validate"
           \/ /\ session.submission = None /\ t.submission = e /\ next = "validate"
              /\ k = "submit" /\ b = s.button /\ b # 0 /\ session' = t /\ t.button = b
        /\ session.submission # None => next = "none" /\ t = s /\ session' = s
  <2>1. Prepare(e, k, b, s, next) /\ SessionTypes
    BY <1>2 DEF s, SessionInv
  <2>2. CASE session.submission # None
    <3>1. next = "none" /\ Keep(s)
      BY <1>4, <2>1, <2>2 DEF Prepare
    <3>2. Left(s) /\ session' = s
      BY <1>4, <2>1, <3>1, ShowLeaves DEF Keep
    <3> QED BY <1>4, <2>2, <3>1, <3>2
  <2>3. CASE session.submission = None /\ Keep(s) /\ next # "validate"
    <3>1. Left(s)
      BY <1>4, <2>1, <2>3, ShowLeaves
    <3> QED BY <1>4, <2>3, <3>1
  <2>4. CASE session.submission = None /\ ~(Keep(s) /\ next # "validate")
    <3>1. k \notin Words /\ b = s.button /\ Press(k, s, e, next)
      BY <1>4, <2>1, <2>4 DEF Prepare, Take
    <3>2. CASE k = "clear" /\ next = "none" /\ Show([s EXCEPT !.cart = NoLines], "none")
      <4> DEFINE t == [s EXCEPT !.cart = NoLines]
      <4>1. NoLines \in Carts
        BY DEF NoLines, Carts
      <4>2. /\ t \in Session /\ t.cart = NoLines /\ t.active = s.active
            /\ t.submission = s.submission
        BY <1>4, <4>1 DEF Session
      <4>3. Left(t)
        BY <2>1, <3>2, <4>2, ShowLeaves
      <4>4. session' # t \/ t.button = 0
        BY <3>2, <4>2 DEF Show, Keep, Session
      <4> HIDE DEF t
      <4> QED BY <1>4, <2>4, <3>2, <4>2, <4>3, <4>4
    <3>3. CASE next = "none" /\ Show(s, "checkout")
      <4>1. Left(s)
        BY <1>4, <2>1, <3>3, ShowLeaves
      <4> QED BY <1>4, <2>4, <3>3, <4>1
    <3>4. CASE k = "submit" /\ next = "validate" /\ Keep([s EXCEPT !.submission = e])
      <4> DEFINE t == [s EXCEPT !.submission = e]
      <4>1. /\ t \in Session /\ t.cart = s.cart /\ t.active = s.active /\ t.button = s.button
            /\ t.submission = e
        BY <1>4 DEF Session
      <4>2. Left(t) /\ session' = t
        BY <2>1, <3>4, <4>1, ShowLeaves DEF Keep
      <4>3. b # 0
        BY <3>1 DEF SessionInv, SessionTypes
      <4> HIDE DEF t
      <4> QED BY <1>4, <2>4, <3>1, <3>4, <4>1, <4>2, <4>3
    <3> QED BY <2>4, <3>1, <3>2, <3>3, <3>4 DEF Press
  <2> QED BY <2>2, <2>3, <2>4
<1>6. /\ event' \in [Events -> Event] /\ event'[e].op = next
      /\ \A f \in Events : /\ event'[f].items = event[f].items
                           /\ event'[f].ordered = event[f].ordered
                           /\ f # e => /\ event'[f].op \in {event[f].op, "none"}
                                       /\ event'[f].token = event[f].token
      /\ \A f \in Events \ {e} : event'[f].op # event[f].op => event[f].op = "assistant"
  <2>1. \A f \in Events : event[f] \in Event /\ 1 \in Nat
    BY DEF SessionInv, SessionTypes
  <2>0. \A f \in Events :
          event'[f] = CASE f = e -> [event[e] EXCEPT !.op = next, !.token = 1]
                        [] f = a -> [event[f] EXCEPT !.op = "none"]
                        [] OTHER -> event[f]
    BY <1>2
  <2>2. event'[e] = [event[e] EXCEPT !.op = next, !.token = 1]
    <3>1. e # a
      BY <1>3
    <3> QED BY <2>0, <3>1
  <2>3. [event[e] EXCEPT !.op = next, !.token = 1] \in Event
    BY <1>3, <2>1 DEF Event
  <2>4. \A f \in Events \ {e} : \/ event'[f] = event[f] /\ f # a
                                \/ f = a /\ event'[f] = [event[f] EXCEPT !.op = "none"]
    BY <2>0
  <2>5. \A f \in Events : [event[f] EXCEPT !.op = "none"] \in Event
    BY <2>1 DEF Event
  <2>6. event' \in [Events -> Event]
    BY <1>2, <2>2, <2>3, <2>4, <2>5, <2>1
  <2>7. event'[e].op = next /\ event'[e].items = event[e].items
        /\ event'[e].ordered = event[e].ordered
    BY <2>1, <2>2 DEF Event
  <2>8. \A f \in Events \ {e} :
          /\ event'[f].items = event[f].items /\ event'[f].ordered = event[f].ordered
          /\ event'[f].op \in {event[f].op, "none"} /\ event'[f].token = event[f].token
          /\ event'[f].op # event[f].op => event[f].op = "assistant"
    <3> SUFFICES ASSUME NEW f \in Events \ {e}, f = a,
                        event'[f] = [event[f] EXCEPT !.op = "none"]
                 PROVE  /\ event'[f].items = event[f].items
                        /\ event'[f].ordered = event[f].ordered
                        /\ event'[f].token = event[f].token
                        /\ event'[f].op = "none" /\ event[f].op = "assistant"
      BY <2>4
    <3>1. event[f] \in Event
      BY <2>1
    <3> QED BY <1>3, <3>1 DEF Event
  <2> QED BY <2>6, <2>7, <2>8
<1>7. SessionTypes'
  BY <1>2, <1>3, <1>5, <1>6 DEF SessionInv, SessionTypes, Left
<1>8. ButtonShowsCart' /\ AddedOnce'
  <2>1. \A f \in Events : t.cart[f] \in {0, 1} /\ (event'[f].op # "none" => t.cart[f] = 0)
    BY <1>3, <1>4, <1>5, <1>6 DEF SessionInv, AddedOnce, NoLines
  <2>2. session' = t => t.button = 0 \/ (t.button = session.button /\ t.cart = session.cart)
    BY <1>4, <1>5
  <2> QED BY <1>5, <1>6, <2>1, <2>2, LeftKeeps
<1>9. OneSubmission'
  <2>1. session'.submission = t.submission /\ session'.active = t.active
    BY <1>5 DEF Left
  <2>2. \A f \in Events : event'[f].op \in Submitted => session'.submission = f
    BY <1>3, <1>5, <1>6, <2>1 DEF SessionInv, OneSubmission, Submitted, Requests
  <2>3. CASE session.submission # None
    <3>1. session.submission \in Events \ {e}
      BY <1>3, <2>3 DEF SessionInv, SessionTypes, Session, OneSubmission, Submitted
    <3>2. /\ kind'[session.submission] = kind[session.submission]
          /\ pressed'[session.submission] = pressed[session.submission]
      BY <1>2, <3>1 DEF SessionInv, SessionTypes
    <3> QED BY <1>4, <1>5, <1>6, <2>1, <2>2, <2>3, <3>1, <3>2
        DEF SessionInv, OneSubmission
  <2>4. CASE session.submission = None /\ session'.submission # None
    <3>1. /\ session'.submission = e /\ next = "validate" /\ k = "submit"
          /\ b = s.button /\ b # 0 /\ session' = t /\ t.button = b
      BY <1>5, <2>1, <2>4
    <3>2. kind'[e] = "submit" /\ pressed'[e] = b
      BY <1>2, <3>1 DEF SessionInv, SessionTypes
    <3>3. session'.button = b
      BY <3>1
    <3> QED BY <1>4, <1>5, <1>6, <2>1, <2>2, <3>1, <3>2, <3>3 DEF OneSubmission, Submitted
  <2> QED BY <2>2, <2>3, <2>4 DEF OneSubmission
<1>10. /\ OrderTypes' /\ RelaysFollow' /\ CallsFollow' /\ OnlineHasSale'
       /\ \A y \in Relays : relay'[y].op = "create" =>
              relay[y].op = "create" /\ relay'[y].event = relay[y].event
  BY <1>2, <1>3, AnswerKeeps DEF Requests
<1>11. Begun' \subseteq Begun
  BY <1>3, <1>6, <1>10 DEF Begun, orders, Requests
<1>12. BegunIsKnown' /\ ButtonsDiffer'
  <2>1. ASSUME NEW f \in Begun
        PROVE  /\ kind'[f] = kind[f] /\ pressed'[f] = pressed[f]
               /\ event'[f].items = event[f].items
               /\ event'[f].op \in {event[f].op, "none"}
               /\ event[f].ordered => event'[f].ordered
               /\ session.submission = f => session'.submission = f
    <3>1. f \in Events \ {e}
      BY <1>3 DEF Begun
    <3> QED BY <1>2, <1>5, <1>6, <3>1 DEF Left, SessionInv, SessionTypes
  <2>2. session' = t => t.button \in {0, session.button}
    BY <1>4, <1>5
  <2> QED BY <1>5, <1>11, <2>1, <2>2, BegunKeeps
<1>13. ToldOfSale'
  BY <1>3, <1>6 DEF OrderInv, ToldOfSale, orders
<1>14. NewIsUntouched'
  BY <1>6 DEF SessionInv, NewIsUntouched, Requests
<1> QED BY <1>7, <1>8, <1>9, <1>10, <1>12, <1>13, <1>14 DEF SessionInv, OrderInv

\* Answers that change no event: a request again, or an error.
LEMMA ReplayKeeps ==
  ASSUME CheckoutAssumption, IInv, UNCHANGED <<session, views, event, update, orders>>,
         NEW x \in Relays, NEW e \in Events,
         \/ Answered(x, e, event[e].op, event[e].token) /\ event[e].op # "new"
         \/ relay' = [relay EXCEPT ![x] = Idle]
  PROVE  IInv'
<1>1. event[e] \in Event
  BY DEF IInv, SessionInv, SessionTypes
<1>2. PICK op \in Requested \cup {"none"}, token \in Nat :
        /\ op = "create" => event[e].op = "create"
        /\ Answered(x, e, op, token) \/ relay' = [relay EXCEPT ![x] = Idle]
  <2>1. CASE relay' = [relay EXCEPT ![x] = Idle]
    <3>1. 0 \in Nat /\ "none" \in Requested \cup {"none"}
      OBVIOUS
    <3> QED BY <2>1, <3>1
  <2>2. CASE Answered(x, e, event[e].op, event[e].token) /\ event[e].op # "new"
    <3>1. event[e].op \in Requested \cup {"none"} /\ event[e].token \in Nat
      BY <1>1, <2>2 DEF Event
    <3> QED BY <2>2, <3>1
  <2> QED BY <2>1, <2>2
<1>3. /\ OrderTypes' /\ RelaysFollow' /\ CallsFollow' /\ OnlineHasSale'
      /\ \A y \in Relays : relay'[y].op = "create" =>
           \/ relay[y].op = "create" /\ relay'[y].event = relay[y].event
           \/ op = "create" /\ relay'[y].event = e
  BY <1>2, AnswerKeeps DEF IInv
<1>4. Begun' \subseteq Begun
  BY <1>2, <1>3 DEF Begun, orders
<1>5. SessionInv' /\ ToldOfSale'
  BY <1>4, QuietKeeps DEF IInv, OrderInv, orders
<1> QED BY <1>3, <1>5 DEF IInv, OrderInv

\* An overdue assistant belongs to no submission.
LEMMA OverdueKeeps ==
  ASSUME CheckoutAssumption, IInv, NEW x \in Relays, NEW e \in Events, EndOverdue(x, e)
  PROVE  IInv'
<1> USE CheckoutAssumption DEF CheckoutAssumption, IInv, SessionInv, SessionTypes
<1> DEFINE a == session.active
           s == [session EXCEPT !.active = None]
<1>1. /\ a \in Events /\ event[a].op = "assistant" /\ event[a] \in Event
      /\ event' = [event EXCEPT ![a] = [event[a] EXCEPT !.op = "none"]]
      /\ session' = s /\ UNCHANGED <<views, update, relay, orders>>
  BY DEF EndOverdue, Overdue, Session
<1>2. /\ s \in Session /\ s.cart = session.cart /\ s.button = session.button
      /\ s.submission = session.submission /\ s.active = None
  BY DEF Session
<1>3. Left(s)
  BY <1>1, <1>2, ShowLeaves DEF Keep
<1>4. /\ event' \in [Events -> Event] /\ event'[a].op = "none"
      /\ \A f \in Events : event'[f].items = event[f].items
                           /\ event'[f].ordered = event[f].ordered
      /\ \A f \in Events \ {a} : event'[f] = event[f]
  BY <1>1 DEF Event
<1> HIDE DEF s
<1>5. SessionTypes'
  BY <1>1, <1>2, <1>4 DEF update
<1>6. ButtonShowsCart' /\ AddedOnce'
  <2>1. \A f \in Events : s.cart[f] \in {0, 1} /\ (event'[f].op # "none" => s.cart[f] = 0)
    BY <1>2, <1>4 DEF AddedOnce
  <2> QED BY <1>2, <1>3, <1>4, <2>1, LeftKeeps
<1>7. OneSubmission'
  BY <1>1, <1>2, <1>4 DEF OneSubmission, Submitted, update
<1>8. Begun' \subseteq Begun
  BY <1>1, <1>4 DEF Begun, orders
<1>9. BegunIsKnown' /\ ButtonsDiffer'
  <2>1. ASSUME NEW f \in Begun
        PROVE  /\ kind'[f] = kind[f] /\ pressed'[f] = pressed[f]
               /\ event'[f].items = event[f].items
               /\ event'[f].op \in {event[f].op, "none"}
               /\ event[f].ordered => event'[f].ordered
               /\ session.submission = f => session'.submission = f
    <3>1. f \in Events
      BY DEF Begun
    <3> QED BY <1>1, <1>2, <1>4, <3>1 DEF update
  <2> QED BY <1>2, <1>3, <1>8, <2>1, BegunKeeps
<1>10. NewIsUntouched'
  BY <1>1, <1>4 DEF NewIsUntouched
<1>11. OrderInv'
  BY <1>1, <1>4 DEF OrderInv, OrderTypes, RelaysFollow, CallsFollow, OnlineHasSale, ToldOfSale,
     orders
<1> QED BY <1>5, <1>6, <1>7, <1>9, <1>10, <1>11

\* The response of a live operation moves its event on.
Live(x, r, next) ==
  LET t == relay[x]  e == t.event
  IN  /\ t.pc \in {"request", "answer"} /\ r \in Responses(t)
      /\ event[e].op = t.op /\ event[e].token = t.token /\ session.active = e
      /\ Respond(e, t.op, r, Holding(session, e, next), next)
      /\ Asks(e, next, t.op = "create" /\ r = "ok")
      /\ Answered(x, e, next, t.token + 1) \/ UNCHANGED relay
      /\ UNCHANGED <<update, orders>>

\* What it leaves of the session.
LEMMA LiveLeaves ==
  ASSUME CheckoutAssumption, IInv, NEW x \in Relays, NEW r,
         NEW next \in Requests \cup {"read", "profile", "create"}, Live(x, r, next)
  PROVE  LET op == relay[x].op  e == relay[x].event
         IN  \E t \in Session :
               /\ Left(t) /\ t.active = (IF next = "none" THEN None ELSE e)
               /\ \/ /\ op = "create" /\ next = "none" /\ session' = t
                     /\ \/ /\ r = "ok" /\ t.cart = NoLines /\ t.button = 0
                           /\ t.submission = None
                        \/ /\ r # "ok" /\ t.cart = session.cart /\ t.button = session.button
                           /\ t.submission = session.submission
                  \/ /\ op \in {"validate", "profile"} /\ next \in {"profile", "create"}
                     /\ session' = t /\ t.cart = session.cart /\ t.button = session.button
                     /\ t.submission = session.submission /\ views' = views
                  \/ /\ op \in {"validate", "profile"} /\ next = "none"
                     /\ t.cart = session.cart /\ t.button = session.button
                     /\ t.submission = None
                  \/ /\ op \notin Submitted /\ next \in {"none", "read", "add"}
                     /\ t.button = session.button /\ t.submission = session.submission
                     /\ \/ t.cart = session.cart
                        \/ /\ op = "add" /\ next = "none" /\ session' # t
                           /\ t.cart = [session.cart EXCEPT ![e] = @ + 1]
<1> USE CheckoutAssumption DEF CheckoutAssumption, IInv, SessionInv, SessionTypes
<1> DEFINE op == relay[x].op
           e == relay[x].event
           s == Holding(session, e, next)
<1>0. /\ e \in Events /\ op \in Requested /\ event[e].op = op
      /\ Respond(e, op, r, s, next)
  BY DEF Live, OrderInv, RelaysFollow
<1>1. /\ s \in Session /\ s.active = (IF next = "none" THEN None ELSE e)
      /\ s.cart = session.cart /\ s.button = session.button
      /\ s.submission = session.submission /\ s.stage = session.stage
  BY <1>0 DEF Holding, Session
<1> HIDE DEF s, op, e
<1>2. CASE op = "create"
  <2>1. next = "none" /\ ((r = "ok" /\ Ordered(s)) \/ (r = "refused" /\ Keep(s)))
    BY <1>0, <1>2 DEF Respond, Created
  <2>2. CASE r = "ok" /\ Ordered(s)
    <3> DEFINE t == [s EXCEPT !.cart = NoLines, !.stage = "none", !.submission = None,
                              !.button = 0]
    <3>1. NoLines \in Carts
      BY DEF NoLines, Carts
    <3>2. /\ t \in Session /\ t.cart = NoLines /\ t.button = 0 /\ t.submission = None
          /\ t.active = s.active
      BY <1>1, <3>1 DEF Session
    <3>3. Left(t) /\ session' = t
      BY <2>2, <3>2, ShowLeaves DEF Ordered, Keep
    <3> HIDE DEF t
    <3> QED BY <1>1, <1>2, <2>1, <2>2, <3>2, <3>3 DEF op, e
  <2>3. CASE r = "refused" /\ Keep(s)
    <3>1. Left(s) /\ session' = s
      BY <1>1, <2>3, ShowLeaves DEF Keep
    <3> QED BY <1>1, <1>2, <2>1, <2>3, <3>1 DEF op, e
  <2> QED BY <2>1, <2>2, <2>3
<1>3. CASE op \in {"validate", "profile"}
  <2> DEFINE t == [s EXCEPT !.submission = None]
  <2>1. /\ t \in Session /\ t.cart = s.cart /\ t.button = s.button /\ t.submission = None
        /\ t.active = s.active
    BY <1>1 DEF Session
  <2>2. \/ next \in {"profile", "create"} /\ Keep(s)
        \/ next = "none" /\ (Keep(t) \/ Show(t, "none") \/ Show(t, "checkout"))
    BY <1>0, <1>3 DEF Respond, Validated
  <2> HIDE DEF t
  <2>3. CASE next \in {"profile", "create"} /\ Keep(s)
    <3>1. Left(s) /\ session' = s /\ views' = views
      BY <1>1, <2>3, ShowLeaves DEF Keep
    <3> QED BY <1>1, <1>3, <2>3, <3>1 DEF op, e
  <2>4. CASE next = "none" /\ (Keep(t) \/ Show(t, "none") \/ Show(t, "checkout"))
    <3>1. Left(t)
      BY <2>1, <2>4, ShowLeaves
    <3> QED BY <1>1, <1>3, <2>1, <2>4, <3>1 DEF op, e
  <2> QED BY <2>2, <2>3, <2>4
<1>4. CASE op \notin Submitted
  <2> DEFINE plain == [s EXCEPT !.stage = "none"]
             more  == [s EXCEPT !.cart[e] = @ + 1]
  <2>1. /\ plain \in Session /\ plain.cart = s.cart /\ plain.button = s.button
        /\ plain.submission = s.submission /\ plain.active = s.active
    BY <1>1 DEF Session
  <2>2. /\ next \in {"none", "read", "add"}
        /\ \/ Keep(s) \/ Keep(plain) \/ Show(s, "none") \/ Show(s, "checkout")
           \/ op = "add" /\ next = "none" /\ Show(more, "none")
    <3>1. op \in {"assistant", "add", "checkout", "read"}
      BY <1>0, <1>4 DEF Requested, Submitted
    <3>2. CASE op = "assistant"
      BY <1>0, <3>2 DEF Respond
    <3>3. CASE op = "add"
      BY <1>0, <3>3 DEF Respond
    <3>4. CASE op = "checkout"
      BY <1>0, <3>4 DEF Respond
    <3>5. CASE op = "read"
      BY <1>0, <3>5 DEF Respond
    <3> QED BY <3>1, <3>2, <3>3, <3>4, <3>5
  <2>3. CASE Keep(s) \/ Show(s, "none") \/ Show(s, "checkout")
    <3>1. Left(s)
      BY <1>1, <2>3, ShowLeaves
    <3> QED BY <1>1, <1>4, <2>2, <3>1 DEF op, e
  <2>4. CASE Keep(plain)
    <3> HIDE DEF plain
    <3>1. Left(plain)
      BY <2>1, <2>4, ShowLeaves
    <3> QED BY <1>1, <1>4, <2>1, <2>2, <3>1 DEF op, e
  <2>5. CASE op = "add" /\ next = "none" /\ Show(more, "none")
    <3>1. s.cart \in Carts /\ s.cart[e] \in Nat
      BY <1>0, <1>1 DEF Session, Carts
    <3>2. [s.cart EXCEPT ![e] = @ + 1] \in Carts
      BY <1>0, <3>1 DEF Carts
    <3>3. more = [s EXCEPT !.cart = [s.cart EXCEPT ![e] = @ + 1]]
      BY <1>1 DEF Session
    <3>4. /\ more \in Session /\ more.cart = [s.cart EXCEPT ![e] = @ + 1]
          /\ more.button = s.button /\ more.submission = s.submission
          /\ more.active = s.active
      BY <1>1, <3>2, <3>3 DEF Session
    <3> HIDE DEF more
    <3>5. Left(more)
      BY <2>5, <3>4, ShowLeaves
    <3>6. more.cart # NoLines
      <4>1. more.cart[e] = s.cart[e] + 1 /\ NoLines[e] = 0
        BY <1>0, <3>1, <3>4 DEF NoLines, Carts
      <4> QED BY <3>1, <4>1
    <3>7. session' # more
      <4>1. session'.button = Len(views) + 1
        <5>1. session' = [more EXCEPT !.stage = "none", !.button = Len(views) + 1]
          BY <2>5, <3>6 DEF Show
        <5> QED BY <3>4, <5>1 DEF Session
      <4>2. more.button \in 0..Len(views) /\ Len(views) \in Nat
        BY <1>1, <3>4 DEF ButtonShowsCart
      <4> QED BY <4>1, <4>2
    <3> QED BY <1>1, <1>4, <2>2, <2>5, <3>4, <3>5, <3>7 DEF op, e
  <2> QED BY <2>2, <2>3, <2>4, <2>5
<1> QED BY <1>2, <1>3, <1>4 DEF Submitted, op, e

\* Only the submission asks for an order, and only a sale ends it.
LEMMA LiveKeeps ==
  ASSUME CheckoutAssumption, IInv, NEW x \in Relays, NEW r,
         NEW next \in Requests \cup {"read", "profile", "create"}, Live(x, r, next)
  PROVE  IInv'
<1> USE CheckoutAssumption DEF CheckoutAssumption, IInv, SessionInv, SessionTypes
<1> DEFINE op == relay[x].op
           e == relay[x].event
<1>0. /\ e \in Events /\ op \in Requested /\ event[e].op = op /\ event[e] \in Event
      /\ session.active = e /\ UNCHANGED <<update, orders>>
      /\ next \in Requested \cup {"none"} /\ relay[x] \in Relay
  BY DEF Live, OrderInv, OrderTypes, RelaysFollow, Requests, Requested
<1>1. PICK t \in Session :
        /\ Left(t) /\ t.active = (IF next = "none" THEN None ELSE e)
        /\ \/ /\ op = "create" /\ next = "none" /\ session' = t
              /\ \/ /\ r = "ok" /\ t.cart = NoLines /\ t.button = 0
                    /\ t.submission = None
                 \/ /\ r # "ok" /\ t.cart = session.cart /\ t.button = session.button
                    /\ t.submission = session.submission
           \/ /\ op \in {"validate", "profile"} /\ next \in {"profile", "create"}
              /\ session' = t /\ t.cart = session.cart /\ t.button = session.button
              /\ t.submission = session.submission /\ views' = views
           \/ /\ op \in {"validate", "profile"} /\ next = "none"
              /\ t.cart = session.cart /\ t.button = session.button
              /\ t.submission = None
           \/ /\ op \notin Submitted /\ next \in {"none", "read", "add"}
              /\ t.button = session.button /\ t.submission = session.submission
              /\ \/ t.cart = session.cart
                 \/ /\ op = "add" /\ next = "none" /\ session' # t
                    /\ t.cart = [session.cart EXCEPT ![e] = @ + 1]
  BY LiveLeaves
<1>2. /\ session'.active = t.active /\ session'.cart = t.cart
      /\ session'.submission = t.submission
  BY <1>1 DEF Left
<1>3. /\ event' \in [Events -> Event] /\ event'[e].op = next
      /\ event'[e].items = (IF next = "create" THEN session.cart ELSE event[e].items)
      /\ event'[e].ordered <=> (event[e].ordered \/ (op = "create" /\ r = "ok"))
      /\ \A f \in Events \ {e} : event'[f] = event[f]
  <2> DEFINE new == [op |-> next, token |-> event[e].token + 1,
                     items |-> IF next = "create" THEN session.cart ELSE event[e].items,
                     ordered |-> event[e].ordered \/ (op = "create" /\ r = "ok")]
  <2>1. event' = [event EXCEPT ![e] = new]
    BY DEF Live, Asks
  <2>2. /\ event[e].token \in Nat /\ event[e].items \in Carts /\ event[e].ordered \in BOOLEAN
        /\ session.cart \in Carts
    BY <1>0 DEF Event, Session
  <2>3. new \in Event
    BY <1>0, <2>2 DEF Event
  <2> QED BY <1>0, <2>1, <2>3
<1>4. SessionTypes'
  BY <1>0, <1>1, <1>3 DEF Left, update
<1>5. session.submission # None => session.submission = e
  BY <1>0 DEF OneSubmission
<1>6. op \in Submitted <=> session.submission = e
  BY <1>0, <1>5 DEF OneSubmission, Requested
<1>7. ButtonShowsCart' /\ AddedOnce'
  <2>1. session.cart \in Carts
    BY DEF Session
  <2>2. \A f \in Events : t.cart[f] \in {0, 1} /\ (event'[f].op # "none" => t.cart[f] = 0)
    <3>1. /\ session.cart[e] = 0
          /\ \A f \in Events : /\ session.cart[f] \in {0, 1}
                               /\ f # e /\ event'[f].op # "none" => session.cart[f] = 0
      BY <1>0, <1>3 DEF AddedOnce, Requested
    <3>2. CASE t.cart = NoLines
      BY <3>2 DEF NoLines
    <3>3. CASE t.cart = session.cart
      BY <3>1, <3>3
    <3>4. CASE next = "none" /\ t.cart = [session.cart EXCEPT ![e] = @ + 1]
      <4>1. t.cart[e] = 1 /\ \A f \in Events \ {e} : t.cart[f] = session.cart[f]
        BY <1>0, <2>1, <3>1, <3>4 DEF Carts
      <4> QED BY <1>3, <3>1, <3>4, <4>1
    <3> QED BY <1>1, <3>2, <3>3, <3>4
  <2>3. session' = t => t.button = 0 \/ (t.button = session.button /\ t.cart = session.cart)
    BY <1>1
  <2> QED BY <1>1, <1>3, <2>2, <2>3, LeftKeeps
<1>8. OneSubmission'
  <2>1. \A f \in Events : event'[f].op \in Submitted => session'.submission = f
    <3> SUFFICES ASSUME NEW f \in Events, event'[f].op \in Submitted
                 PROVE  session'.submission = f
      OBVIOUS
    <3>1. CASE f = e
      BY <1>1, <1>2, <1>3, <1>6, <3>1 DEF Submitted
    <3>2. CASE f # e
      BY <1>0, <1>3, <1>5, <3>2 DEF OneSubmission
    <3> QED BY <3>1, <3>2
  <2>2. session'.submission # None =>
          /\ session'.submission = e /\ session.submission = e /\ op \in Submitted
          /\ session' = t /\ t.button = session.button
    BY <1>0, <1>1, <1>2, <1>5, <1>6 DEF Submitted
  <2>3. session'.submission # None => event'[e].op \in Submitted \cup {"none"}
    BY <1>1, <1>3, <2>2 DEF Submitted
  <2> QED BY <1>0, <1>1, <1>2, <2>1, <2>2, <2>3 DEF OneSubmission, update
<1>9. /\ OrderTypes' /\ RelaysFollow' /\ CallsFollow' /\ OnlineHasSale'
      /\ \A y \in Relays : relay'[y].op = "create" =>
           \/ relay[y].op = "create" /\ relay'[y].event = relay[y].event
           \/ next = "create" /\ relay'[y].event = e
  <2>1. relay[x].token + 1 \in Nat
    BY <1>0 DEF Relay
  <2>2. Answered(x, e, next, relay[x].token + 1) \/ UNCHANGED relay
    BY DEF Live
  <2> QED BY <1>0, <2>1, <2>2, AnswerKeeps
<1>10. op = "create" /\ r = "ok" => sales[e] = 1 /\ online[e] = 1
  BY DEF Live, Responses, OrderInv, RelaysFollow
<1>11. ToldOfSale'
  BY <1>0, <1>3, <1>10 DEF OrderInv, ToldOfSale, orders
<1>12. BegunIsKnown' /\ ButtonsDiffer'
  <2>1. CASE next # "create"
    <3>1. Begun' \subseteq Begun
      BY <1>0, <1>3, <1>9, <2>1 DEF Begun, orders
    <3>2. ASSUME NEW f \in Begun
          PROVE  /\ kind'[f] = kind[f] /\ pressed'[f] = pressed[f]
                 /\ event'[f].items = event[f].items
                 /\ event'[f].op \in {event[f].op, "none"}
                 /\ event[f].ordered => event'[f].ordered
                 /\ session.submission = f =>
                      \/ session'.submission = f
                      \/ event'[f].op = "none" /\ event'[f].ordered /\ session'.button = 0
      <4>1. f \in Events /\ event[f].op \in {"create", "none"}
        BY DEF Begun, BegunIsKnown
      <4>2. CASE f = e
        BY <1>0, <1>1, <1>2, <1>3, <2>1, <4>1, <4>2 DEF update, Requested, Submitted
      <4>3. CASE f # e
        BY <1>0, <1>3, <1>5, <4>1, <4>3 DEF update
      <4> QED BY <4>2, <4>3
    <3>3. t.button \in {0, session.button}
      BY <1>1
    <3> QED BY <1>1, <3>1, <3>2, <3>3, BegunKeeps
  <2>2. CASE next = "create"
    <3>1. /\ session.submission = e /\ session'.submission = e /\ views' = views
          /\ session'.button = session.button /\ e \notin Begun
      BY <1>0, <1>1, <1>2, <1>6, <2>2 DEF Submitted, BegunIsKnown
    <3>2. Begun' \subseteq Begun \cup {e}
      BY <1>0, <1>3, <1>9, <2>2 DEF Begun, orders
    <3>3. /\ kind[e] = "submit" /\ pressed[e] = session.button
          /\ pressed[e] \in 1..Len(views) /\ session.cart = views[pressed[e]]
      BY <1>0, <3>1 DEF OneSubmission, ButtonShowsCart
    <3>4. BegunIsKnown'
      <4> SUFFICES ASSUME NEW f \in Begun'
                   PROVE  /\ kind'[f] = "submit" /\ pressed'[f] \in 1..Len(views')
                          /\ event'[f].items = views'[pressed'[f]]
                          /\ event'[f].op \in {"create", "none"}
                          /\ \/ session'.submission = f
                             \/ /\ event'[f].op = "none" /\ event'[f].ordered
                                /\ session'.button # pressed'[f]
        BY DEF BegunIsKnown
      <4>1. CASE f = e
        BY <1>0, <1>3, <2>2, <3>1, <3>3, <4>1 DEF update
      <4>2. CASE f # e
        <5>1. f \in Begun /\ f \in Events
          BY <3>2, <4>2 DEF Begun
        <5> QED BY <1>0, <1>3, <3>1, <4>2, <5>1 DEF BegunIsKnown, update
      <4> QED BY <4>1, <4>2
    <3>5. \A f \in Begun : pressed[f] # session.button
      BY <1>0, <3>1 DEF BegunIsKnown
    <3>6. ButtonsDiffer'
      BY <1>0, <3>2, <3>3, <3>5 DEF ButtonsDiffer, update
    <3> QED BY <3>4, <3>6
  <2> QED BY <2>1, <2>2
<1>13. NewIsUntouched'
  BY <1>0, <1>3 DEF NewIsUntouched, Requested
<1> QED BY <1>4, <1>7, <1>8, <1>9, <1>11, <1>12, <1>13 DEF OrderInv

LEMMA DeliverKeeps ==
  ASSUME CheckoutAssumption, IInv, NEW x \in Relays, Deliver(x)
  PROVE  IInv'
<1> DEFINE t == relay[x]
           e == t.event
<1>1. /\ t.pc \in {"request", "answer"} /\ e \in Events /\ UNCHANGED <<update, orders>>
  BY DEF Deliver, IInv, OrderInv, RelaysFollow
<1>2. CASE \E r \in Responses(t), next \in Requests \cup {"read", "profile", "create"} :
             Live(x, r, next)
  BY <1>2, LiveKeeps
<1>3. CASE /\ event[e].token = t.token + 1 /\ Answered(x, e, event[e].op, event[e].token)
           /\ UNCHANGED <<session, views, event>>
  <2>1. CASE event[e].op = "new"
    <3>1. event[e].token = 0 /\ t.token \in Nat
      BY <1>1, <2>1 DEF IInv, SessionInv, NewIsUntouched, OrderInv, OrderTypes, Relay
    <3> QED BY <1>3, <3>1
  <2>2. CASE event[e].op # "new"
    BY <1>1, <1>3, <2>2, ReplayKeeps
  <2> QED BY <2>1, <2>2
<1>4. CASE relay' = [relay EXCEPT ![x] = Idle] /\ UNCHANGED <<session, views, event>>
  BY <1>1, <1>4, ReplayKeeps
<1> QED BY <1>1, <1>2, <1>3, <1>4 DEF Deliver, Live
-----------------------------------------------------------------------------
\* At the start there is no event, no call and no view.
LEMMA InitInv == Init => IInv
<1> SUFFICES ASSUME Init PROVE IInv
  OBVIOUS
<1> USE CheckoutAssumption DEF CheckoutAssumption, Init
<1>1. SessionTypes /\ OrderTypes
  BY DEF SessionTypes, OrderTypes, Session, Event, Relay, Call, Carts, NoLines, Idle, FreeCall
<1>2. ButtonShowsCart /\ AddedOnce /\ NewIsUntouched /\ OneSubmission
  BY DEF ButtonShowsCart, AddedOnce, NewIsUntouched, OneSubmission, NoLines, Submitted
<1>3. Begun = {}
  BY DEF Begun, FreeCall, Idle
<1>4. RelaysFollow /\ CallsFollow /\ OnlineHasSale /\ ToldOfSale
  BY DEF RelaysFollow, CallsFollow, OnlineHasSale, ToldOfSale, Idle, FreeCall
<1> QED BY <1>1, <1>2, <1>3, <1>4 DEF IInv, SessionInv, OrderInv, BegunIsKnown, ButtonsDiffer

\* The invariant is inductive.
LEMMA NextInv == IInv /\ [Next]_vars => IInv'
<1> SUFFICES ASSUME IInv, [Next]_vars PROVE IInv'
  OBVIOUS
<1> USE CheckoutAssumption
<1>1. CASE UNCHANGED vars
  <2>1. UNCHANGED <<session, views, event, update, orders>> /\ UNCHANGED <<relay, call, sales, online>>
    BY <1>1 DEF vars, orders
  <2>2. Begun' \subseteq Begun
    BY <2>1 DEF Begun
  <2>3. SessionInv' /\ ToldOfSale'
    BY <2>1, <2>2, QuietKeeps DEF IInv, OrderInv
  <2> QED BY <2>1, <2>3 DEF IInv, OrderInv, OrderTypes, RelaysFollow, CallsFollow, OnlineHasSale
<1>2. ASSUME NEW x \in Relays, NEW e \in Events, Start(x, e) \/ Resume(x, e) \/ EndOverdue(x, e)
      PROVE  IInv'
  <2>1. CASE Resume(x, e)
    BY <2>1, ReplayKeeps DEF Resume
  <2> QED BY <1>2, <2>1, StartKeeps, OverdueKeeps
<1>3. ASSUME NEW x \in Relays, Deliver(x)
      PROVE  IInv'
  BY <1>3, DeliverKeeps
<1>4. CASE \/ \E x \in Relays : RequestOrder(x) \/ Timeout(x) \/ Crash(x)
           \/ \E c \in Calls : \/ Find(c) \/ LockCounter(c) \/ Reread(c) \/ Insert(c)
                               \/ CommitSale(c) \/ FindOnline(c) \/ InsertOnline(c)
                               \/ Refuse(c) \/ Fail(c)
  <2>1. Steady /\ OrderTypes' /\ RelaysFollow' /\ CallsFollow' /\ OnlineHasSale'
    BY <1>4, RelayKeeps, CallKeeps DEF IInv
  <2>2. SessionInv' /\ ToldOfSale'
    BY <2>1, SteadyKeeps DEF IInv, OrderInv
  <2> QED BY <2>1, <2>2 DEF IInv, OrderInv
<1> QED BY <1>1, <1>2, <1>3, <1>4 DEF Next
-----------------------------------------------------------------------------
\* However often Submit is pressed or a relay repeats itself, over New Year or
\* not, a checkout is ordered once (createOrder's key, prepare's submission).
THEOREM CheckoutOrdersOnce == Spec => []OneOrderPerCheckout
<1>1. IInv => OneOrderPerCheckout
  <2> SUFFICES ASSUME IInv, NEW e \in Submits, NEW f \in Submits
               PROVE  /\ sales[e] <= 1 /\ online[e] <= sales[e]
                      /\ e # f /\ pressed[e] = pressed[f] => sales[e] + sales[f] <= 1
    BY DEF OneOrderPerCheckout
  <2>1. /\ e \in Events /\ f \in Events /\ sales[e] \in {0, 1} /\ sales[f] \in {0, 1}
        /\ online[e] \in {0, 1} /\ (online[e] = 1 => sales[e] = 1)
    BY DEF Submits, IInv, OrderInv, OrderTypes, OnlineHasSale
  <2>2. e # f /\ sales[e] = 1 /\ sales[f] = 1 => pressed[e] # pressed[f]
    <3>1. sales[e] = 1 => e \in Begun
      BY <2>1 DEF Begun
    <3>2. sales[f] = 1 => f \in Begun
      BY <2>1 DEF Begun
    <3> QED BY <3>1, <3>2 DEF IInv, SessionInv, ButtonsDiffer
  <2> QED BY <2>1, <2>2
<1> QED BY <1>1, InitInv, NextInv, PTL DEF Spec

\* A sale holds the cart that its button showed, each item once.
THEOREM CheckoutOrdersAsShown == Spec => []OrderedAsShown
<1>1. IInv => OrderedAsShown
  <2> SUFFICES ASSUME IInv, NEW e \in Submits, sales[e] > 0
               PROVE  /\ event[e].items = views[pressed[e]]
                      /\ \A f \in Events : event[e].items[f] <= 1
    BY DEF OrderedAsShown
  <2>1. e \in Begun
    BY DEF Submits, Begun
  <2>2. event[e].items = views[pressed[e]] /\ pressed[e] \in 1..Len(views)
    BY <2>1 DEF IInv, SessionInv, BegunIsKnown
  <2>3. \A f \in Events : views[pressed[e]][f] \in {0, 1}
    BY <2>2 DEF IInv, SessionInv, AddedOnce
  <2> QED BY <2>2, <2>3
<1> QED BY <1>1, InitInv, NextInv, PTL DEF Spec

\* A sale the customer was not told of keeps its submission, and who was told
\* of one has it and its online order.
THEOREM CheckoutKeepsUnknown == Spec => []UnknownIsKept
<1>1. IInv => UnknownIsKept
  <2> SUFFICES ASSUME IInv, NEW e \in Submits
               PROVE  /\ sales[e] > 0 /\ ~event[e].ordered => session.submission = e
                      /\ event[e].ordered => sales[e] = 1 /\ online[e] = 1
    BY DEF UnknownIsKept
  <2>1. e \in Events /\ (sales[e] > 0 => e \in Begun)
    BY DEF Submits, Begun
  <2> QED BY <2>1 DEF IInv, SessionInv, BegunIsKnown, OrderInv, ToldOfSale
<1> QED BY <1>1, InitInv, NextInv, PTL DEF Spec
=============================================================================
