------------------------------- MODULE Orders -------------------------------
(***************************************************************************)
(* The order life cycle of include/orders/order.hpp and the order table of *)
(* core/orders/order_manager.cpp, as operators on values.  A call that the *)
(* code refuses is a guard that is FALSE (CanTransition, CanFill): a       *)
(* refused call changes nothing.                                           *)
(***************************************************************************)
EXTENDS Integers

Side == {"Buy", "Sell"}

OrderState == {"New", "PartiallyFilled", "Filled",
               "CancelPending", "Cancelled", "Rejected"}

Order == [side : Side, price : Int, quantity : Int,
          filled : Int, remaining : Int, state : OrderState]

\* The code has no edge from New or PartiallyFilled straight to Cancelled.
CanTransition(from, to) ==
  \/ /\ from = "New"
     /\ to \in {"PartiallyFilled", "Filled", "CancelPending", "Rejected"}
  \/ /\ from = "PartiallyFilled"
     /\ to \in {"Filled", "CancelPending"}
  \/ /\ from = "CancelPending"
     /\ to = "Cancelled"

Transition(order, next) == [order EXCEPT !.state = next]

NewOrder(side, price, quantity) ==
  [side |-> side, price |-> price, quantity |-> quantity,
   filled |-> 0, remaining |-> quantity, state |-> "New"]

-----------------------------------------------------------------------------
(***************************************************************************)
(* apply_fill: the guards of the three early returns, then the update.     *)
(***************************************************************************)
\* Mutant of CanFill: a cancelled order still takes fills.
CanFillCancelled(order, q) ==
  /\ q > 0
  /\ order.state \notin {"Filled", "Cancelled", "Rejected"}
  /\ q <= order.remaining

\* Mutant of CanFill: the remaining quantity is not compared.
CanFillBeyond(order, q) ==
  /\ q > 0
  /\ order.state \notin {"Filled", "Cancelled", "Rejected", "CancelPending"}

CanFill(order, q) ==
  /\ q > 0
  /\ order.state \notin {"Filled", "Cancelled", "Rejected", "CancelPending"}
  /\ q <= order.remaining

\* Mutant of Fill: the last fill does not complete the order.
FillNeverFinal(order, q) ==
  [order EXCEPT !.filled = @ + q, !.remaining = @ - q,
                !.state = "PartiallyFilled"]

Fill(order, q) ==
  [order EXCEPT !.filled = @ + q, !.remaining = @ - q,
                !.state = IF q = order.remaining THEN "Filled"
                          ELSE "PartiallyFilled"]

-----------------------------------------------------------------------------
(***************************************************************************)
(* The order table: a map from order id to order (std::unordered_map).     *)
(***************************************************************************)

\* The empty map.
NoEntries == [x \in {} |-> x]

\* The map m after m.emplace(k, v) of a key it does not hold, or m[k] = v.
Put(m, k, v) == [x \in DOMAIN m \cup {k} |-> IF x = k THEN v ELSE m[x]]

CanExecute(orders, id, q) == id \in DOMAIN orders /\ CanFill(orders[id], q)

Execute(orders, id, q) == [orders EXCEPT ![id] = Fill(@, q)]

CanCancel(orders, id) ==
  id \in DOMAIN orders /\ CanTransition(orders[id].state, "CancelPending")

Cancel(orders, id) ==
  [orders EXCEPT ![id] = Transition(@, "CancelPending")]
=============================================================================
