------------------------------- MODULE PayOnce -------------------------------
(***************************************************************************)
(* What POST /payments promises: a request is refused or answered with a   *)
(* payment that exists, and requests with one idempotency key are answered *)
(* with one payment, however they overlap.                                 *)
(***************************************************************************)
CONSTANTS
  Payers,  \* the requests
  KeyOf,   \* the idempotency key of each, its own where it sends none
  None     \* no answer

VARIABLES
  made,   \* the payments that exist, named by the request that made them
  answer  \* the payment each request was answered with

Init ==
  /\ made = {}
  /\ answer = [r \in Payers |-> None]

Made(k) == {p \in made : KeyOf[p] = k}

\* The first request of a key that gets through makes the payment.
Pay(r) ==
  /\ answer[r] = None /\ Made(KeyOf[r]) = {}
  /\ made' = made \cup {r}
  /\ answer' = [answer EXCEPT ![r] = r]

\* Every other one is told of it.
Replay(r) ==
  /\ answer[r] = None
  /\ \E p \in Made(KeyOf[r]) : answer' = [answer EXCEPT ![r] = p]
  /\ UNCHANGED made

Spec == Init /\ [][\E r \in Payers : Pay(r) \/ Replay(r)]_<<made, answer>>
=============================================================================
