----------------------------- MODULE InvoiceLife -----------------------------
(***************************************************************************)
(* What billing promises of an invoice: once accepted it only changes by   *)
(* being voided, once voided it never comes back, and an order has at most *)
(* one invoice that is not voided.                                         *)
(***************************************************************************)
CONSTANTS Ids, Orders, None

VARIABLES
  state,  \* per invoice: "none", "open", "accepted" or "voided"
  order   \* per invoice, the order it bills

vars == <<state, order>>

Init == /\ state = [i \in Ids |-> "none"]
        /\ order = [i \in Ids |-> None]

Current(o) == {i \in Ids : order[i] = o /\ state[i] \in {"open", "accepted"}}

\* An invoice is issued for an order without a current one.
Issue(i, o) ==
  /\ state[i] = "none" /\ Current(o) = {}
  /\ \E s \in {"open", "accepted"} : state' = [state EXCEPT ![i] = s]
  /\ order' = [order EXCEPT ![i] = o]

Accept(i) == /\ state[i] = "open"
             /\ state' = [state EXCEPT ![i] = "accepted"]
             /\ UNCHANGED order

Void(i) == /\ state[i] \in {"open", "accepted"}
           /\ state' = [state EXCEPT ![i] = "voided"]
           /\ UNCHANGED order

Next == \E i \in Ids : (\E o \in Orders : Issue(i, o)) \/ Accept(i) \/ Void(i)

Spec == Init /\ [][Next]_vars

=============================================================================
