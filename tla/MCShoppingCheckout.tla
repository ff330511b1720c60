-------------------------- MODULE MCShoppingCheckout --------------------------
(***************************************************************************)
(* A session whose shopper chooses an item, does one other thing (another  *)
(* item, a checkout, a question, clearing the cart) and presses Submit     *)
(* twice.  Two executions are under way, of one update or of two, and the  *)
(* two calls that create an order fall on both sides of New Year.          *)
(***************************************************************************)
EXTENDS ShoppingCheckout, TLC

MCMayBe ==
  [e \in Events |-> CASE e = "first"  -> {"add"}
                      [] e = "second" -> {"add", "ask", "checkout", "clear"}
                      [] OTHER        -> {"submit"}]

MCYear == [c \in Calls |-> c]

MCSymmetry == Permutations(Relays)
=============================================================================
