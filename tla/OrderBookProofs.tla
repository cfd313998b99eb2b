-------------------------- MODULE OrderBookProofs --------------------------
(***************************************************************************)
(* What holds of the orders of a restaurant for every number of orders,    *)
(* dishes, payments, sessions and tables.                                  *)
(***************************************************************************)
EXTENDS OrderBook, SumProofs

\* The rows a table starts from are rows.
LEMMA EmptyRows ==
  /\ NoOrder \in OrderRow /\ NoItem \in ItemRow
  /\ NoPayment \in PaymentRow /\ NoSession \in SessionRow
<1>1. 0 \in Money /\ 0 \in 0..MaxRound
  BY OrderBookAssumption DEF Money
<1>2. QED
  BY <1>1, OrderBookAssumption
  DEF NoOrder, NoItem, NoPayment, NoSession, OrderRow, ItemRow, PaymentRow,
      SessionRow, Statuses, Types

\* Writing a column keeps a row a row.
LEMMA ItemRowWrites ==
  ASSUME NEW row \in ItemRow
  PROVE  /\ \A v \in Orders \cup {None} : [row EXCEPT !.order = v] \in ItemRow
         /\ \A v \in Quantities \cup {0} : [row EXCEPT !.qty = v] \in ItemRow
         /\ \A v \in 0..MaxRound : [row EXCEPT !.round = v] \in ItemRow
         /\ \A v \in BOOLEAN : [row EXCEPT !.courtesy = v] \in ItemRow
         /\ \A v \in BOOLEAN : [row EXCEPT !.voided = v] \in ItemRow
         /\ \A v \in Payments \cup {None} :
              [row EXCEPT !.payment = v] \in ItemRow
BY DEF ItemRow

LEMMA OrderRowWrites ==
  ASSUME NEW row \in OrderRow
  PROVE  /\ \A v \in Statuses : [row EXCEPT !.status = v] \in OrderRow
         /\ \A v \in Statuses, n \in 0..MaxRound :
              [row EXCEPT !.status = v, !.round = n] \in OrderRow
         /\ \A v \in Statuses, o \in Orders :
              [row EXCEPT !.status = v, !.mergedInto = o] \in OrderRow
BY DEF OrderRow, Statuses

LEMMA InitTypeOK == Init => TypeOK
BY EmptyRows DEF Init, TypeOK

\* Whatever is placed in an order is a line of it.
LEMMA PlacedType ==
  ASSUME TypeOK, NEW o \in Orders, NEW batch \in Batches, NEW r \in 0..MaxRound
  PROVE  Placed(batch, o, r) \in [Items -> ItemRow]
<1>1. PICK S \in SUBSET FreeItems : batch \in [S -> Lines]
  BY DEF Batches
<1>2. \A i \in DOMAIN batch : batch[i] \in Lines
  BY <1>1
<1>3. QED
  BY <1>1, <1>2 DEF Placed, TypeOK, ItemRow, Lines

-----------------------------------------------------------------------------
(* TypeOK, one lemma per use case. *)

LEMMA OpenOrderType ==
  ASSUME TypeOK, NEW w \in Staff, NEW o \in Orders, NEW type \in Types,
         NEW t \in Tables \cup {None}, NEW batch \in Batches,
         OpenOrder(w, o, type, t, batch)
  PROVE  TypeOK'
<1>1. 0 \in 0..MaxRound
  BY OrderBookAssumption
<1>2. items' \in [Items -> ItemRow]
  BY <1>1, PlacedType DEF OpenOrder
<1>3. orders' \in [Orders -> OrderRow]
  BY EmptyRows DEF OpenOrder, TypeOK, OrderRow, NoOrder, Statuses
<1>4. QED
  BY <1>2, <1>3 DEF OpenOrder, TypeOK

LEMMA AddItemsType ==
  ASSUME TypeOK, NEW o \in Orders, NEW batch \in Batches, AddItems(o, batch)
  PROVE  TypeOK'
<1>1. RoundOfNew(o) \in 0..MaxRound
  BY OrderBookAssumption DEF AddItems, RoundOfNew, TypeOK, OrderRow
<1>2. items' \in [Items -> ItemRow]
  BY <1>1, PlacedType DEF AddItems
<1>3. orders' \in [Orders -> OrderRow]
  <2> DEFINE status == IF orders[o].status \in {"ready", "served"}
                         THEN "in_kitchen" ELSE orders[o].status
             round == IF orders[o].status = "open" THEN orders[o].round
                                                   ELSE orders[o].round + 1
  <2>1. status \in Statuses
    BY DEF AddItems, IsActive, Active, Statuses
  <2>2. round \in 0..MaxRound
    BY <1>1 DEF RoundOfNew, TypeOK, OrderRow
  <2>3. orders' = [orders EXCEPT
                     ![o] = [orders[o] EXCEPT !.status = status,
                                              !.round = round]]
    BY DEF AddItems, TypeOK
  <2>4. QED
    BY <2>1, <2>2, <2>3, OrderRowWrites DEF TypeOK
<1>4. QED
  BY <1>2, <1>3 DEF AddItems, TypeOK

LEMMA ItemChangeType ==
  ASSUME TypeOK, NEW o \in Orders, NEW i \in Items,
         \/ RemoveItem(o, i)
         \/ VoidItem(o, i)
         \/ \E qty \in Quantities : ChangeItem(o, i, qty)
         \/ \E granted \in BOOLEAN : SetCourtesy(o, i, granted)
  PROVE  TypeOK'
<1>1. CASE RemoveItem(o, i)
  BY <1>1, EmptyRows DEF RemoveItem, TypeOK
<1>2. CASE VoidItem(o, i)
  BY <1>2, ItemRowWrites DEF VoidItem, TypeOK
<1>3. ASSUME NEW qty \in Quantities, ChangeItem(o, i, qty) PROVE TypeOK'
  BY <1>3, ItemRowWrites DEF ChangeItem, TypeOK
<1>4. ASSUME NEW granted \in BOOLEAN, SetCourtesy(o, i, granted) PROVE TypeOK'
  BY <1>4, ItemRowWrites DEF SetCourtesy, TypeOK
<1>5. QED
  BY <1>1, <1>2, <1>3, <1>4

LEMMA SendToKitchenType ==
  ASSUME TypeOK, NEW o \in Orders, SendToKitchen(o)
  PROVE  TypeOK'
<1>1. orders[o].round + 1 \in 0..MaxRound
  BY OrderBookAssumption DEF SendToKitchen, TypeOK, OrderRow
<1>2. items' \in [Items -> ItemRow]
  BY <1>1, ItemRowWrites DEF SendToKitchen, TypeOK
<1>3. orders' \in [Orders -> OrderRow]
  BY <1>1 DEF SendToKitchen, TypeOK, OrderRow, Statuses
<1>4. QED
  BY <1>2, <1>3 DEF SendToKitchen, TypeOK

LEMMA KitchenStepType ==
  ASSUME TypeOK, NEW o \in Orders, KitchenStep(o)
  PROVE  TypeOK'
<1>1. CASE SendToKitchen(o)
  BY <1>1, SendToKitchenType
<1>2. CASE MarkReady(o)
  BY <1>2 DEF MarkReady, TypeOK, OrderRow, Statuses
<1>3. CASE MarkServed(o)
  <2>1. orders' \in [Orders -> OrderRow]
    BY <1>3 DEF MarkServed, TypeOK, OrderRow, Statuses
  <2>2. \A i \in Items : items[i].qty \in Nat
    <3>1. \A i \in Items : items[i].qty \in Quantities \cup {0}
      BY DEF TypeOK, ItemRow
    <3>2. Quantities \cup {0} \subseteq Nat
      BY OrderBookAssumption
    <3>3. QED
      BY <3>1, <3>2
  <2>3. \A i \in Items : consumed[i] \in Nat
                         /\ consumed[i] + items[i].qty \in Nat
    BY <2>2 DEF TypeOK
  <2>4. consumed' \in [Items -> Nat]
    BY <1>3, <2>3 DEF MarkServed
  <2>5. QED
    BY <1>3, <2>1, <2>4 DEF MarkServed, TypeOK
<1>4. CASE CancelOrder(o)
  BY <1>4 DEF CancelOrder, TypeOK, OrderRow, Statuses
<1>5. QED
  BY <1>1, <1>2, <1>3, <1>4 DEF KitchenStep

LEMMA MergeOrdersType ==
  ASSUME TypeOK, NEW a \in Staff, NEW o \in Orders, NEW source \in Orders,
         MergeOrders(a, o, source)
  PROVE  TypeOK'
<1>1. items' \in [Items -> ItemRow]
  BY ItemRowWrites DEF MergeOrders, TypeOK
<1>2. MergedStatus(o, source) \in Statuses
  BY DEF MergeOrders, Mergeable, Adjustable, IsActive, Active, MergedStatus,
         Statuses
<1>3. orders' \in [Orders -> OrderRow]
  <2> DEFINE round == IF orders[source].round > orders[o].round
                        THEN orders[source].round ELSE orders[o].round
             merged == [orders[o] EXCEPT !.status = MergedStatus(o, source),
                                         !.round = round]
             closed == [orders[source] EXCEPT !.status = "cancelled",
                                              !.mergedInto = o]
  <2>1. round \in 0..MaxRound
    BY DEF TypeOK, OrderRow
  <2>2. merged \in OrderRow /\ closed \in OrderRow
    BY <1>2, <2>1, OrderRowWrites DEF TypeOK, Statuses
  <2>3. orders' = [orders EXCEPT ![o] = merged, ![source] = closed]
    BY DEF MergeOrders, TypeOK
  <2>4. QED
    BY <2>2, <2>3 DEF TypeOK
<1>4. QED
  BY <1>1, <1>3 DEF MergeOrders, TypeOK

LEMMA PayType ==
  ASSUME TypeOK, NEW a \in Staff, NEW o \in Orders, NEW p \in Payments,
         NEW s \in Sessions, NEW amount, NEW S, NEW method \in Methods,
         NEW tip \in Tips, Pay(a, o, p, s, amount, S, method, tip)
  PROVE  TypeOK'
<1>1. tip \in Money
  BY OrderBookAssumption DEF Money
<1>2. payments' \in [Payments -> PaymentRow]
  BY <1>1 DEF Pay, Fits, TypeOK, PaymentRow
<1>3. items' \in [Items -> ItemRow]
  BY ItemRowWrites DEF Pay, TypeOK
<1>4. orders' \in [Orders -> OrderRow]
  BY DEF Pay, TypeOK, OrderRow, Statuses
<1>5. QED
  BY <1>2, <1>3, <1>4 DEF Pay, TypeOK

LEMMA VoidPaymentType ==
  ASSUME TypeOK, NEW o \in Orders, NEW p \in Payments, VoidPayment(o, p)
  PROVE  TypeOK'
<1>1. payments' \in [Payments -> PaymentRow]
  BY DEF VoidPayment, TypeOK, PaymentRow
<1>2. items' \in [Items -> ItemRow]
  BY ItemRowWrites DEF VoidPayment, Released, TypeOK
<1>3. orders' \in [Orders -> OrderRow]
  BY DEF VoidPayment, StatusAfterVoid, TypeOK, OrderRow, Statuses
<1>4. QED
  BY <1>1, <1>2, <1>3 DEF VoidPayment, TypeOK

LEMMA CashStepType ==
  ASSUME TypeOK, CashStep
  PROVE  TypeOK'
<1>1. ASSUME NEW s \in Sessions, CloseCash(s) PROVE TypeOK'
  BY <1>1 DEF CloseCash, Fits, TypeOK, SessionRow
<1>2. ASSUME NEW s \in Sessions, NEW opening \in Floats, OpenCash(s, opening)
      PROVE  TypeOK'
  <2>1. opening \in Money /\ 0 \in Money
    BY OrderBookAssumption DEF Money
  <2>2. QED
    BY <1>2, <2>1 DEF OpenCash, TypeOK, SessionRow
<1>3. QED
  BY <1>1, <1>2 DEF CashStep

-----------------------------------------------------------------------------
\* A charge, whichever of its three forms it takes, is a payment.
LEMMA ChargesArePayments ==
  ASSUME NEW a, NEW o, NEW p, NEW s, NEW method, NEW tip,
         \/ ChargeBalance(a, o, p, s, method, tip)
         \/ \E amount \in 1..MaxMoney :
              ChargePart(a, o, p, s, amount, method, tip)
         \/ \E S \in SUBSET ItemsOf(o) : ChargeItems(a, o, p, s, S, method, tip)
  PROVE  \E amount, S : Pay(a, o, p, s, amount, S, method, tip)
BY DEF ChargeBalance, ChargePart, ChargeItems

LEMMA PayStepType ==
  ASSUME TypeOK, NEW o \in Orders, PayStep(o)
  PROVE  TypeOK'
<1>1. ASSUME NEW a \in Staff, NEW percent \in Percents,
             ApplyDiscount(a, o, percent)
      PROVE  TypeOK'
  BY <1>1 DEF ApplyDiscount, TypeOK, OrderRow
<1>2. ASSUME NEW a \in Staff, NEW p \in Payments, NEW s \in Sessions,
             NEW method \in Methods, NEW tip \in Tips,
             \E amount, S : Pay(a, o, p, s, amount, S, method, tip)
      PROVE  TypeOK'
  <2>1. PICK amount, S : Pay(a, o, p, s, amount, S, method, tip)
    BY <1>2
  <2>2. QED
    BY <2>1, PayType
<1>3. ASSUME NEW p \in Payments, VoidPayment(o, p) PROVE TypeOK'
  BY <1>3, VoidPaymentType
<1>4. ASSUME NEW a \in Staff, NEW p \in Payments, NEW s \in Sessions,
             NEW method \in Methods, NEW tip \in Tips,
             \/ ChargeBalance(a, o, p, s, method, tip)
             \/ \E amount \in 1..MaxMoney :
                  ChargePart(a, o, p, s, amount, method, tip)
             \/ \E S \in SUBSET ItemsOf(o) :
                  ChargeItems(a, o, p, s, S, method, tip)
      PROVE  TypeOK'
  <2>1. \E amount, S : Pay(a, o, p, s, amount, S, method, tip)
    BY <1>4, ChargesArePayments
  <2>2. QED
    BY <1>2, <2>1
<1>5. QED
  BY <1>1, <1>3, <1>4 DEF PayStep

LEMMA TableStepType ==
  ASSUME TypeOK, TableStep
  PROVE  TypeOK'
<1>1. ASSUME NEW o \in Orders, NEW t \in Tables, MoveOrder(o, t) PROVE TypeOK'
  BY <1>1 DEF MoveOrder, TypeOK, OrderRow
<1>2. ASSUME NEW t \in Tables, UpdateTable(t) PROVE TypeOK'
  BY <1>2 DEF UpdateTable, TypeOK
<1>3. QED
  BY <1>1, <1>2, OpenOrderType, MergeOrdersType DEF TableStep

LEMMA NextTypeOK == TypeOK /\ [Next]_vars => TypeOK'
<1> SUFFICES ASSUME TypeOK, [Next]_vars PROVE TypeOK'
  OBVIOUS
<1>1. CASE TableStep
  BY <1>1, TableStepType
<1>2. CASE CashStep
  BY <1>2, CashStepType
<1>3. ASSUME NEW o \in Orders, ItemStep(o) PROVE TypeOK'
  BY <1>3, AddItemsType, ItemChangeType DEF ItemStep
<1>4. ASSUME NEW o \in Orders, KitchenStep(o) PROVE TypeOK'
  BY <1>4, KitchenStepType
<1>5. ASSUME NEW o \in Orders, PayStep(o) PROVE TypeOK'
  BY <1>5, PayStepType
<1>6. ASSUME NEW o \in Orders, InvoiceStep(o) PROVE TypeOK'
  BY <1>6 DEF InvoiceStep, IssueInvoice, VoidInvoice, TypeOK
<1>7. CASE UNCHANGED vars
  BY <1>7 DEF vars, TypeOK
<1>8. QED
  BY <1>1, <1>2, <1>3, <1>4, <1>5, <1>6, <1>7 DEF Next

\* Every row always holds values of its columns, amounts within NUMERIC(10, 2).
THEOREM TypeCorrect == Spec => []TypeOK
BY InitTypeOK, NextTypeOK, PTL DEF Spec

-----------------------------------------------------------------------------
(* The cash register. *)

\* What payment p of order o may go through.
Charged(o, p) ==
  \E a \in Staff, s \in Sessions, method \in Methods, tip \in Tips :
    \E amount, S : Pay(a, o, p, s, amount, S, method, tip)
MoneyMoved(o, p) == Charged(o, p) \/ VoidPayment(o, p)

\* Payments are written by a charge or by the voiding of a payment, cash
\* sessions by opening and closing the register.
LEMMA WhoMovesMoney ==
  ASSUME [Next]_vars
  PROVE  \/ /\ UNCHANGED sessions
            /\ \E o \in Orders, p \in Payments : MoneyMoved(o, p)
         \/ UNCHANGED payments /\ CashStep
         \/ UNCHANGED payments /\ UNCHANGED sessions
<1>1. CASE TableStep
  <2>1. ASSUME NEW w, NEW o, NEW type, NEW t, NEW batch,
               OpenOrder(w, o, type, t, batch)
        PROVE  UNCHANGED payments /\ UNCHANGED sessions
    BY <2>1 DEF OpenOrder
  <2>2. ASSUME NEW o, NEW t, MoveOrder(o, t)
        PROVE  UNCHANGED payments /\ UNCHANGED sessions
    BY <2>2 DEF MoveOrder
  <2>3. ASSUME NEW a, NEW o, NEW source, MergeOrders(a, o, source)
        PROVE  UNCHANGED payments /\ UNCHANGED sessions
    BY <2>3 DEF MergeOrders
  <2>4. ASSUME NEW t, UpdateTable(t)
        PROVE  UNCHANGED payments /\ UNCHANGED sessions
    BY <2>4 DEF UpdateTable
  <2>5. QED
    BY <1>1, <2>1, <2>2, <2>3, <2>4 DEF TableStep
<1>2. CASE CashStep
  BY <1>2 DEF CashStep, OpenCash, CloseCash
<1>3. ASSUME NEW o \in Orders, ItemStep(o)
      PROVE  UNCHANGED payments /\ UNCHANGED sessions
  BY <1>3 DEF ItemStep, AddItems, RemoveItem, VoidItem, ChangeItem, SetCourtesy
<1>4. ASSUME NEW o \in Orders, KitchenStep(o)
      PROVE  UNCHANGED payments /\ UNCHANGED sessions
  BY <1>4 DEF KitchenStep, SendToKitchen, MarkReady, MarkServed, CancelOrder
<1>5. ASSUME NEW o \in Orders, InvoiceStep(o)
      PROVE  UNCHANGED payments /\ UNCHANGED sessions
  BY <1>5 DEF InvoiceStep, IssueInvoice, VoidInvoice
<1>6. ASSUME NEW o \in Orders, PayStep(o)
      PROVE  \/ UNCHANGED payments /\ UNCHANGED sessions
             \/ \E p \in Payments : VoidPayment(o, p) /\ UNCHANGED sessions
             \/ \E a \in Staff, p \in Payments, s \in Sessions,
                   method \in Methods, tip \in Tips :
                  \E amount, S : /\ Pay(a, o, p, s, amount, S, method, tip)
                                 /\ UNCHANGED sessions
  <2>1. ASSUME NEW a \in Staff, NEW percent \in Percents,
               ApplyDiscount(a, o, percent)
        PROVE  UNCHANGED payments /\ UNCHANGED sessions
    BY <2>1 DEF ApplyDiscount
  <2>2. ASSUME NEW p \in Payments, VoidPayment(o, p) PROVE UNCHANGED sessions
    BY <2>2 DEF VoidPayment
  <2>3. ASSUME NEW a \in Staff, NEW p \in Payments, NEW s \in Sessions,
               NEW method \in Methods, NEW tip \in Tips,
               \/ ChargeBalance(a, o, p, s, method, tip)
               \/ \E amount \in 1..MaxMoney :
                    ChargePart(a, o, p, s, amount, method, tip)
               \/ \E S \in SUBSET ItemsOf(o) :
                    ChargeItems(a, o, p, s, S, method, tip)
        PROVE  \E amount, S : /\ Pay(a, o, p, s, amount, S, method, tip)
                              /\ UNCHANGED sessions
    <3>1. PICK amount, S : Pay(a, o, p, s, amount, S, method, tip)
      BY <2>3, ChargesArePayments
    <3>2. QED
      BY <3>1 DEF Pay
  <2>4. QED
    BY <1>6, <2>1, <2>2, <2>3 DEF PayStep
<1>7. CASE UNCHANGED vars
  BY <1>7 DEF vars
<1>8. QED
  BY <1>1, <1>2, <1>3, <1>4, <1>5, <1>6, <1>7
  DEF Next, Charged, MoneyMoved

\* What a session took in is a matter of its own payments only.
LEMMA CashTakenFrame ==
  ASSUME NEW s \in Sessions,
         \A p \in Payments :
           \/ payments'[p] = payments[p]
           \/ payments'[p].session # s /\ payments[p].session # s
  PROVE  CashTaken(s)' = CashTaken(s)
<1> DEFINE D == {q \in Payments : /\ payments[q].session = s
                                  /\ payments[q].method = "cash"
                                  /\ ~payments[q].voided}
           f == [p \in D |-> payments[p].amount + payments[p].tip]
<1>1. D' = D
  OBVIOUS
<1>2. \A p \in D : payments'[p] = payments[p]
  OBVIOUS
<1>3. f' = f
  BY <1>1, <1>2
<1>4. CashTaken(s) = SumOf(f) /\ CashTaken(s)' = SumOf(f')
  BY DEF CashTaken
<1>5. QED
  BY <1>3, <1>4

\* A charge or a voided payment only touches the open session.
LEMMA MoneyMovesInTheOpenSession ==
  ASSUME TypeOK, NEW o \in Orders, NEW p \in Payments,
         MoneyMoved(o, p)
  PROVE  \E s \in Sessions :
           /\ IsOpen(s)
           /\ \A r \in Sessions \ {s} : CashTaken(r)' = CashTaken(r)
<1>1. ASSUME NEW a \in Staff, NEW s \in Sessions, NEW method \in Methods,
             NEW tip \in Tips, NEW amount, NEW S,
             Pay(a, o, p, s, amount, S, method, tip), NEW r \in Sessions \ {s}
      PROVE  CashTaken(r)' = CashTaken(r)
  <2>1. payments[p].session # r /\ payments'[p].session # r
    BY <1>1, OrderBookAssumption DEF Pay, NoPayment, TypeOK
  <2>2. \A q \in Payments \ {p} : payments'[q] = payments[q]
    BY <1>1 DEF Pay, TypeOK
  <2>3. QED
    BY <2>1, <2>2, CashTakenFrame
<1>2. ASSUME VoidPayment(o, p), NEW r \in Sessions \ {payments[p].session}
      PROVE  CashTaken(r)' = CashTaken(r)
  <2>1. payments[p].session # r /\ payments'[p].session # r
    BY <1>2 DEF VoidPayment, TypeOK, PaymentRow
  <2>2. \A q \in Payments \ {p} : payments'[q] = payments[q]
    BY <1>2 DEF VoidPayment, TypeOK
  <2>3. QED
    BY <2>1, <2>2, CashTakenFrame
<1>3. ASSUME VoidPayment(o, p)
      PROVE  payments[p].session \in Sessions /\ IsOpen(payments[p].session)
  BY <1>3 DEF VoidPayment, VoidablePayment, PaymentsOf, TypeOK, PaymentRow
<1>4. CASE VoidPayment(o, p)
  BY <1>2, <1>3, <1>4
<1>5. CASE Charged(o, p)
  <2>1. PICK a \in Staff, s \in Sessions, method \in Methods, tip \in Tips :
          \E amount, S : Pay(a, o, p, s, amount, S, method, tip)
    BY <1>5 DEF Charged
  <2>2. IsOpen(s)
    BY <2>1 DEF Pay
  <2>3. QED
    BY <1>1, <2>1, <2>2
<1>6. QED
  BY <1>4, <1>5 DEF MoneyMoved

RegisterInv == TypeOK /\ OneOpenRegister /\ SignedArqueoHolds

LEMMA RegisterInit == Init => RegisterInv
<1> SUFFICES ASSUME Init PROVE RegisterInv
  OBVIOUS
<1>1. \A s \in Sessions : sessions[s].state = "none"
  BY DEF Init, NoSession
<1>2. QED
  BY <1>1, InitTypeOK DEF RegisterInv, OneOpenRegister, SignedArqueoHolds,
                          IsOpen

\* Nobody moves the money of a closed session, so its arqueo still holds.
LEMMA RegisterStep == RegisterInv /\ [Next]_vars => RegisterInv'
<1> SUFFICES ASSUME RegisterInv, [Next]_vars PROVE RegisterInv'
  OBVIOUS
<1> USE DEF RegisterInv
<1>1. TypeOK'
  BY NextTypeOK
<1>2. CASE UNCHANGED sessions /\ UNCHANGED payments
  <2>1. \A s \in Sessions : CashTaken(s)' = CashTaken(s)
    BY <1>2, CashTakenFrame
  <2>2. QED
    BY <1>1, <1>2, <2>1 DEF OneOpenRegister, SignedArqueoHolds, IsOpen
<1>3. ASSUME UNCHANGED sessions, NEW s \in Sessions, IsOpen(s),
             \A r \in Sessions \ {s} : CashTaken(r)' = CashTaken(r)
      PROVE  RegisterInv'
  BY <1>1, <1>3 DEF OneOpenRegister, SignedArqueoHolds, IsOpen
<1>4. ASSUME UNCHANGED payments, NEW s \in Sessions, CloseCash(s)
      PROVE  RegisterInv'
  <2>1. \A r \in Sessions : CashTaken(r)' = CashTaken(r)
    BY <1>4, CashTakenFrame
  <2>2. OneOpenRegister'
    BY <1>4 DEF CloseCash, OneOpenRegister, IsOpen, TypeOK, SessionRow
  <2>3. SignedArqueoHolds'
    BY <1>4, <2>1 DEF CloseCash, SignedArqueoHolds, TypeOK, SessionRow
  <2>4. QED
    BY <1>1, <2>2, <2>3
<1>5. ASSUME UNCHANGED payments, NEW s \in Sessions, NEW opening \in Floats,
             OpenCash(s, opening)
      PROVE  RegisterInv'
  <2>1. \A r \in Sessions : CashTaken(r)' = CashTaken(r)
    BY <1>5, CashTakenFrame
  <2>2. OneOpenRegister'
    BY <1>5 DEF OpenCash, RegisterFree, OneOpenRegister, IsOpen, TypeOK
  <2>3. SignedArqueoHolds'
    BY <1>5, <2>1 DEF OpenCash, SignedArqueoHolds, TypeOK
  <2>4. QED
    BY <1>1, <2>2, <2>3
<1>6. CASE /\ UNCHANGED sessions
           /\ \E o \in Orders, p \in Payments : MoneyMoved(o, p)
  BY <1>3, <1>6, MoneyMovesInTheOpenSession
<1>7. CASE UNCHANGED payments /\ CashStep
  BY <1>4, <1>5, <1>7 DEF CashStep
<1>8. QED
  BY <1>2, <1>6, <1>7, WhoMovesMoney

\* There is never more than one open cash register, and what a closing signed
\* stays what its session holds: no charge falls into a closed session and no
\* payment is voided out of one.
THEOREM RegisterIsSound == Spec => [](OneOpenRegister /\ SignedArqueoHolds)
<1>1. RegisterInv => OneOpenRegister /\ SignedArqueoHolds
  BY DEF RegisterInv
<1>2. QED
  BY <1>1, RegisterInit, RegisterStep, PTL DEF Spec

-----------------------------------------------------------------------------
(* The register implements the abstract cash desk. *)

LEMMA DeskInit == Init => Desk!Init
<1> SUFFICES ASSUME Init PROVE Desk!Init
  OBVIOUS
<1>1. \A s \in Sessions : sessions[s].state = "none"
  BY DEF Init, NoSession
<1>2. QED
  BY <1>1 DEF Desk!Init

LEMMA DeskStep ==
  RegisterInv /\ [Next]_vars => [Desk!Next]_(Desk!vars)
<1> SUFFICES ASSUME RegisterInv, [Next]_vars PROVE [Desk!Next]_(Desk!vars)
  OBVIOUS
<1> USE DEF RegisterInv
<1> DEFINE drawer == [s \in Sessions |->
                        IF sessions[s].state = "none" THEN 0
                        ELSE sessions[s].opening + CashTaken(s)]
           phase == [s \in Sessions |-> sessions[s].state]
           signed == [s \in Sessions |-> IF sessions[s].state = "closed"
                                         THEN sessions[s].expected ELSE None]
<1>1. CASE UNCHANGED sessions /\ UNCHANGED payments
  <2>1. \A s \in Sessions : CashTaken(s)' = CashTaken(s)
    BY <1>1, CashTakenFrame
  <2>2. drawer' = drawer /\ phase' = phase /\ signed' = signed
    BY <1>1, <2>1
  <2>3. QED
    BY <2>2 DEF Desk!vars
<1>2. ASSUME UNCHANGED sessions, NEW s \in Sessions, IsOpen(s),
             \A r \in Sessions \ {s} : CashTaken(r)' = CashTaken(r)
      PROVE  Desk!Next
  <2>1. phase' = phase /\ signed' = signed /\ phase[s] = "open"
    BY <1>2 DEF IsOpen
  <2>2. drawer' = [drawer EXCEPT ![s] = drawer'[s]]
    BY <1>2
  <2>3. Desk!Move(s)
    BY <2>1, <2>2 DEF Desk!Move, Desk!OnlyDrawer
  <2>4. QED
    BY <2>3 DEF Desk!Next
<1>3. ASSUME UNCHANGED payments, NEW s \in Sessions, CloseCash(s)
      PROVE  Desk!Next
  <2>1. \A r \in Sessions : CashTaken(r)' = CashTaken(r)
    BY <1>3, CashTakenFrame
  <2>2. phase' = [phase EXCEPT ![s] = "closed"] /\ phase[s] = "open"
    BY <1>3 DEF CloseCash, IsOpen, TypeOK, SessionRow
  <2>3. drawer' = drawer
    BY <1>3, <2>1 DEF CloseCash, IsOpen, TypeOK, SessionRow
  <2>4. signed' = [signed EXCEPT ![s] = drawer[s]]
    BY <1>3 DEF CloseCash, IsOpen, TypeOK, SessionRow
  <2>5. Desk!Close(s)
    BY <2>2, <2>3, <2>4 DEF Desk!Close
  <2>6. QED
    BY <2>5 DEF Desk!Next
<1>4. ASSUME UNCHANGED payments, NEW s \in Sessions, NEW opening \in Floats,
             OpenCash(s, opening)
      PROVE  Desk!Next
  <2>1. \A r \in Sessions : CashTaken(r)' = CashTaken(r)
    BY <1>4, CashTakenFrame
  <2>2. /\ phase' = [phase EXCEPT ![s] = "open"] /\ phase[s] = "none"
        /\ \A r \in Sessions : phase[r] # "open"
    BY <1>4 DEF OpenCash, RegisterFree, IsOpen, TypeOK
  <2>3. drawer' = [drawer EXCEPT ![s] = drawer'[s]]
    BY <1>4, <2>1 DEF OpenCash, TypeOK
  <2>4. signed' = signed
    BY <1>4 DEF OpenCash, TypeOK
  <2>5. Desk!Open(s)
    BY <2>2, <2>3, <2>4 DEF Desk!Open, Desk!OnlyDrawer
  <2>6. QED
    BY <2>5 DEF Desk!Next
<1>5. CASE /\ UNCHANGED sessions
           /\ \E o \in Orders, p \in Payments : MoneyMoved(o, p)
  BY <1>2, <1>5, MoneyMovesInTheOpenSession
<1>6. CASE UNCHANGED payments /\ CashStep
  BY <1>3, <1>4, <1>6 DEF CashStep
<1>7. QED
  BY <1>1, <1>5, <1>6, WhoMovesMoney

\* Whatever is charged, voided, opened and closed, the register behaves as the
\* abstract cash desk: money moves only in the open drawer, and closing it
\* signs what it holds.
THEOREM CashDeskImplemented == Spec => ImplementsCashDesk
BY RegisterInit, RegisterStep, DeskInit, DeskStep, PTL
DEF Spec, ImplementsCashDesk, Desk!Spec

-----------------------------------------------------------------------------
(***************************************************************************)
(* Which orders may sit at one table: opening, moving and merging keep     *)
(* them apart, and only reopening a paid order can put two together.       *)
(***************************************************************************)

\* A voided payment stays voided, in the order it was made to.
LEMMA VoidedStays ==
  ASSUME TypeOK, [Next]_vars, NEW p \in Payments, payments[p].voided
  PROVE  payments'[p].voided /\ payments'[p].order = payments[p].order
<1>1. ASSUME NEW o, NEW q \in Payments, Charged(o, q)
      PROVE  payments'[p] = payments[p]
  BY <1>1 DEF Charged, Pay, NoPayment, TypeOK
<1>2. ASSUME NEW o, NEW q \in Payments, VoidPayment(o, q)
      PROVE  payments'[p].voided /\ payments'[p].order = payments[p].order
  BY <1>2 DEF VoidPayment, TypeOK, PaymentRow
<1>3. QED
  BY <1>1, <1>2, WhoMovesMoney DEF MoneyMoved

\* An order takes a table when it is opened, moved or reopened; any other step
\* leaves the active orders where they are, or fewer.
Settled == \A o \in Orders : IsActive(o)' =>
             IsActive(o) /\ orders'[o].table = orders[o].table

LEMMA WhoTakesTables ==
  ASSUME TypeOK, [Next]_vars
  PROVE  \/ Settled
         \/ \E w \in Staff, o \in Orders, type \in Types,
               t \in Tables \cup {None}, batch \in Batches :
              OpenOrder(w, o, type, t, batch)
         \/ \E o \in Orders, t \in Tables : MoveOrder(o, t)
         \/ \E o \in Orders, p \in Payments : VoidPayment(o, p)
<1> USE DEF Settled
<1>1. CASE TableStep
  <2>1. ASSUME NEW a \in Staff, NEW o \in Orders, NEW source \in Orders,
               MergeOrders(a, o, source)
        PROVE  Settled
    <3>1. /\ orders'[o].table = orders[o].table
          /\ orders'[source].status = "cancelled"
          /\ \A r \in Orders \ {o, source} : orders'[r] = orders[r]
      BY <2>1 DEF MergeOrders, TypeOK, OrderRow
    <3>2. IsActive(o)
      BY <2>1 DEF MergeOrders, Mergeable, Adjustable
    <3>3. QED
      BY <3>1, <3>2 DEF IsActive, Active
  <2>2. ASSUME NEW t, UpdateTable(t) PROVE Settled
    BY <2>2 DEF UpdateTable, IsActive
  <2>3. QED
    BY <1>1, <2>1, <2>2 DEF TableStep
<1>2. CASE CashStep
  BY <1>2 DEF CashStep, OpenCash, CloseCash, IsActive
<1>3. ASSUME NEW o \in Orders, ItemStep(o) PROVE Settled
  <2>1. ASSUME NEW batch, AddItems(o, batch) PROVE Settled
    <3>1. IsActive(o) /\ orders'[o].table = orders[o].table
          /\ \A r \in Orders \ {o} : orders'[r] = orders[r]
      BY <2>1 DEF AddItems, TypeOK, OrderRow
    <3>2. QED
      BY <3>1 DEF IsActive
  <2>2. ASSUME orders' = orders PROVE Settled
    BY <2>2 DEF IsActive
  <2>3. ASSUME NEW i, RemoveItem(o, i) \/ VoidItem(o, i) PROVE orders' = orders
    BY <2>3 DEF RemoveItem, VoidItem
  <2>4. ASSUME NEW i, NEW v, ChangeItem(o, i, v) \/ SetCourtesy(o, i, v)
        PROVE  orders' = orders
    BY <2>4 DEF ChangeItem, SetCourtesy
  <2>5. QED
    BY <1>3, <2>1, <2>2, <2>3, <2>4 DEF ItemStep
<1>4. ASSUME NEW o \in Orders, KitchenStep(o) PROVE Settled
  <2>1. IsActive(o)
    BY <1>4 DEF KitchenStep, SendToKitchen, MarkReady, MarkServed, CancelOrder,
                Cancellable, IsActive, Active
  <2>2. orders'[o].table = orders[o].table
        /\ \A r \in Orders \ {o} : orders'[r] = orders[r]
    <3>1. CASE SendToKitchen(o)
      BY <3>1 DEF SendToKitchen, TypeOK, OrderRow
    <3>2. CASE MarkReady(o)
      BY <3>2 DEF MarkReady, TypeOK, OrderRow
    <3>3. CASE MarkServed(o)
      BY <3>3 DEF MarkServed, TypeOK, OrderRow
    <3>4. CASE CancelOrder(o)
      BY <3>4 DEF CancelOrder, TypeOK, OrderRow
    <3>5. QED
      BY <1>4, <3>1, <3>2, <3>3, <3>4 DEF KitchenStep
  <2>3. QED
    BY <2>1, <2>2 DEF IsActive
<1>5. ASSUME NEW o \in Orders, PayStep(o),
             ~\E p \in Payments : VoidPayment(o, p)
      PROVE  Settled
  <2>1. ASSUME NEW a, NEW percent, ApplyDiscount(a, o, percent) PROVE Settled
    BY <2>1 DEF ApplyDiscount, IsActive, TypeOK, OrderRow
  <2>2. ASSUME NEW a, NEW p, NEW s, NEW amount, NEW S, NEW method, NEW tip,
               Pay(a, o, p, s, amount, S, method, tip)
        PROVE  Settled
    <3>1. orders[o].status = "served" /\ orders'[o].table = orders[o].table
          /\ \A r \in Orders \ {o} : orders'[r] = orders[r]
      BY <2>2 DEF Pay, TypeOK, OrderRow
    <3>2. QED
      BY <3>1 DEF IsActive, Active
  <2>3. QED
    BY <1>5, <2>1, <2>2 DEF PayStep, ChargeBalance, ChargePart, ChargeItems
<1>6. ASSUME NEW o \in Orders, InvoiceStep(o) PROVE Settled
  BY <1>6 DEF InvoiceStep, IssueInvoice, VoidInvoice, IsActive
<1>7. CASE UNCHANGED vars
  BY <1>7 DEF vars, IsActive
<1>8. QED
  BY <1>1, <1>2, <1>3, <1>4, <1>5, <1>6, <1>7 DEF Next, TableStep

Shared(o, r) ==
  /\ o # r /\ IsActive(o) /\ IsActive(r)
  /\ orders[o].table = orders[r].table /\ orders[o].table # None

Reopened(o, r) ==
  \E p \in Payments : payments[p].voided /\ payments[p].order \in {o, r}

TablesInv ==
  TypeOK /\ \A o, r \in Orders : Shared(o, r) => Reopened(o, r)

LEMMA TablesInit == Init => TablesInv
<1> SUFFICES ASSUME Init PROVE TablesInv
  OBVIOUS
<1>1. \A o \in Orders : ~IsActive(o)
  BY DEF Init, NoOrder, IsActive, Active
<1>2. QED
  BY <1>1, InitTypeOK DEF TablesInv, Shared

LEMMA TablesStep == TablesInv /\ [Next]_vars => TablesInv'
<1> SUFFICES ASSUME TablesInv, [Next]_vars PROVE TablesInv'
  OBVIOUS
<1>1. TypeOK /\ TypeOK'
  BY NextTypeOK DEF TablesInv
<1> SUFFICES ASSUME NEW o \in Orders, NEW r \in Orders, Shared(o, r)'
             PROVE  Reopened(o, r)'
  BY <1>1 DEF TablesInv
<1>2. Reopened(o, r) => Reopened(o, r)'
  BY <1>1, VoidedStays DEF Reopened
<1>3. CASE Settled
  <2>1. Shared(o, r)
    BY <1>3 DEF Settled, Shared
  <2>2. QED
    BY <1>2, <2>1 DEF TablesInv
<1>4. ASSUME NEW w \in Staff, NEW q \in Orders, NEW type \in Types,
             NEW t \in Tables \cup {None}, NEW batch \in Batches,
             OpenOrder(w, q, type, t, batch)
      PROVE  Reopened(o, r)'
  <2>1. orders'[q].table = t /\ \A x \in Orders \ {q} : orders'[x] = orders[x]
    BY <1>1, <1>4 DEF OpenOrder, NoOrder, TypeOK
  <2>2. t # None => ActiveAt(t) = {}
    BY <1>4 DEF OpenOrder, CanSeat
  <2>3. CASE q \in {o, r}
    BY <2>1, <2>2, <2>3 DEF Shared, ActiveAt, IsActive
  <2>4. CASE q \notin {o, r}
    BY <1>2, <2>1, <2>4 DEF Shared, IsActive, TablesInv
  <2>5. QED
    BY <2>3, <2>4
<1>5. ASSUME NEW q \in Orders, NEW t \in Tables, MoveOrder(q, t)
      PROVE  Reopened(o, r)'
  <2>1. /\ orders'[q].table = t /\ orders'[q].status = orders[q].status
        /\ \A x \in Orders \ {q} : orders'[x] = orders[x]
    BY <1>1, <1>5 DEF MoveOrder, TypeOK, OrderRow
  <2>2. ActiveAt(t) \ {q} = {}
    BY <1>5 DEF MoveOrder, FreeFor
  <2>3. CASE q \in {o, r}
    BY <2>1, <2>2, <2>3 DEF Shared, ActiveAt, IsActive
  <2>4. CASE q \notin {o, r}
    BY <1>2, <2>1, <2>4 DEF Shared, IsActive, TablesInv
  <2>5. QED
    BY <2>3, <2>4
<1>6. ASSUME NEW q \in Orders, NEW p \in Payments, VoidPayment(q, p)
      PROVE  Reopened(o, r)'
  <2>1. /\ payments'[p].voided /\ payments'[p].order = q
        /\ orders'[q].table = orders[q].table
        /\ \A x \in Orders \ {q} : orders'[x] = orders[x]
    BY <1>1, <1>6
    DEF VoidPayment, VoidablePayment, PaymentsOf, TypeOK, PaymentRow, OrderRow
  <2>2. CASE q \in {o, r}
    BY <2>1, <2>2 DEF Reopened
  <2>3. CASE q \notin {o, r}
    BY <1>2, <2>1, <2>3 DEF Shared, IsActive, TablesInv
  <2>4. QED
    BY <2>2, <2>3
<1>7. QED
  BY <1>1, <1>3, <1>4, <1>5, <1>6, WhoTakesTables

\* Opening, moving and merging never seat two active orders at one table: two
\* share it only if a payment of one of them was voided.
THEOREM TablesAreTaken == Spec => []TableSharedOnlyByReopening
<1>1. TablesInv => TableSharedOnlyByReopening
  BY DEF TablesInv, Shared, Reopened, TableSharedOnlyByReopening
<1>2. QED
  BY <1>1, TablesInit, TablesStep, PTL DEF Spec

-----------------------------------------------------------------------------
(***************************************************************************)
(* What the kitchen and the stock ledger know of the dishes of an order,   *)
(* through every merge, addition and return to the kitchen.                *)
(***************************************************************************)

\* Orders the kitchen has had.
Sent == {"in_kitchen", "ready", "served", "paid"}

\* A dish is in an order that exists, in a round of it; the kitchen was told
\* about it if the order is past being taken, and deducted it if served.
DishSound(i) ==
  items[i].order # None =>
    /\ orders[items[i].order].status # "none"
    /\ items[i].qty > 0
    /\ items[i].round <= orders[items[i].order].round
    /\ orders[items[i].order].status \in Sent => items[i].round >= 1
    /\ /\ ~items[i].voided /\ items[i].dish \in Recipes
       /\ orders[items[i].order].status \in {"served", "paid"}
       => consumed[i] > 0

KitchenInv == TypeOK /\ \A i \in Items : DishSound(i)

\* What it gives: the two invariants of OrderBook.
LEMMA KitchenInvImplies ==
  KitchenInv => KitchenKnowsEveryDish /\ ServedIsConsumed
<1> SUFFICES ASSUME KitchenInv PROVE KitchenKnowsEveryDish /\ ServedIsConsumed
  OBVIOUS
<1>1. \A i \in Items : items[i].round \in Int
                       /\ (items[i].order # None => items[i].order \in Orders)
  BY OrderBookAssumption DEF KitchenInv, TypeOK, ItemRow
<1>2. \A o \in Orders : orders[o].round \in Int
  BY OrderBookAssumption DEF KitchenInv, TypeOK, OrderRow
<1>3. KitchenKnowsEveryDish
  BY <1>1, <1>2 DEF KitchenInv, DishSound, Sent, KitchenKnowsEveryDish
<1>4. ServedIsConsumed
  BY DEF KitchenInv, DishSound, ServedIsConsumed
<1>5. QED
  BY <1>3, <1>4

LEMMA KitchenInit == Init => KitchenInv
<1> SUFFICES ASSUME Init PROVE KitchenInv
  OBVIOUS
<1>1. \A i \in Items : items[i].order = None
  BY DEF Init, NoItem
<1>2. QED
  BY <1>1, InitTypeOK DEF KitchenInv, DishSound

\* The numbers the invariant compares are numbers.
LEMMA KitchenNumbers ==
  ASSUME TypeOK
  PROVE  /\ \A i \in Items : /\ items[i].round \in Nat /\ items[i].qty \in Nat
                             /\ consumed[i] \in Nat
                             /\ items[i].order # None => items[i].order \in Orders
         /\ \A o \in Orders : orders[o].round \in Nat
         /\ Quantities \subseteq Nat \ {0} /\ None \notin Orders
<1>1. Quantities \subseteq Nat \ {0} /\ MaxRound \in Nat
      /\ None \notin Orders
  BY OrderBookAssumption
<1>2. \A i \in Items : /\ items[i].round \in 0..MaxRound
                       /\ items[i].qty \in Quantities \cup {0}
                       /\ items[i].order \in Orders \cup {None}
                       /\ consumed[i] \in Nat
  BY DEF TypeOK, ItemRow
<1>3. \A o \in Orders : orders[o].round \in 0..MaxRound
  BY DEF TypeOK, OrderRow
<1>4. Quantities \cup {0} \subseteq Nat /\ 0..MaxRound \subseteq Nat
  BY <1>1
<1>5. QED
  BY <1>1, <1>2, <1>3, <1>4

\* A dish stays sound while it and its ledger stay, and its order neither
\* forgets a round nor advances.
LEMMA DishFrame ==
  ASSUME TypeOK, TypeOK', NEW i \in Items, DishSound(i),
         items'[i] = items[i], consumed'[i] = consumed[i],
         items[i].order # None =>
           LET o == items[i].order
           IN  /\ orders'[o].round >= orders[o].round
               /\ orders'[o].status # "none"
               /\ orders'[o].status \in Sent => orders[o].status \in Sent
               /\ orders'[o].status \in {"served", "paid"} =>
                    orders[o].status \in {"served", "paid"}
  PROVE  DishSound(i)'
<1>1. \A o \in Orders : orders'[o].round \in Nat
  BY OrderBookAssumption DEF TypeOK, OrderRow
<1>2. QED
  BY <1>1, KitchenNumbers DEF DishSound

-----------------------------------------------------------------------------
(* One lemma per use case that touches dishes, rounds or the status. *)

LEMMA OpenOrderKitchen ==
  ASSUME KitchenInv, TypeOK', NEW w \in Staff, NEW o \in Orders,
         NEW type \in Types, NEW t \in Tables \cup {None},
         NEW batch \in Batches, OpenOrder(w, o, type, t, batch),
         NEW i \in Items
  PROVE  DishSound(i)'
<1> USE DEF KitchenInv
<1>1. PICK S \in SUBSET FreeItems : batch \in [S -> Lines]
  BY DEF Batches
<1>2. orders'[o].status = "open" /\ orders'[o].round = 0
      /\ \A r \in Orders \ {o} : orders'[r] = orders[r]
  BY DEF OpenOrder, TypeOK, NoOrder
<1>3. CASE i \in S
  <2>1. items'[i].order = o /\ items'[i].round = 0
        /\ items'[i].qty \in Quantities
    BY <1>1, <1>3 DEF OpenOrder, Placed, Lines
  <2>2. QED
    BY <1>2, <2>1, KitchenNumbers DEF DishSound, Sent
<1>4. CASE i \notin S
  <2>1. items'[i] = items[i] /\ consumed'[i] = consumed[i]
    BY <1>1, <1>4 DEF OpenOrder, Placed
  <2>2. items[i].order # o
    BY KitchenNumbers DEF DishSound, OpenOrder
  <2>3. QED
    BY <1>2, <2>1, <2>2, KitchenNumbers DEF DishSound
<1>5. QED
  BY <1>3, <1>4

LEMMA AddItemsKitchen ==
  ASSUME KitchenInv, TypeOK', NEW o \in Orders, NEW batch \in Batches,
         AddItems(o, batch), NEW i \in Items
  PROVE  DishSound(i)'
<1> USE DEF KitchenInv
<1>1. PICK S \in SUBSET FreeItems : batch \in [S -> Lines]
  BY DEF Batches
<1>2. /\ orders'[o].status = IF orders[o].status \in {"ready", "served"}
                               THEN "in_kitchen" ELSE orders[o].status
      /\ orders'[o].round = IF orders[o].status = "open" THEN orders[o].round
                                                     ELSE orders[o].round + 1
      /\ \A r \in Orders \ {o} : orders'[r] = orders[r]
  BY DEF AddItems, TypeOK, OrderRow
<1>3. orders[o].status \in Active
  BY DEF AddItems, IsActive
<1>4. CASE i \in S
  <2>1. items'[i].order = o /\ items'[i].round = RoundOfNew(o)
        /\ items'[i].qty \in Quantities
    BY <1>1, <1>4 DEF AddItems, Placed, Lines
  <2>2. QED
    BY <1>2, <1>3, <2>1, KitchenNumbers
    DEF DishSound, RoundOfNew, Active, Sent
<1>5. CASE i \notin S
  <2>1. items'[i] = items[i] /\ consumed'[i] = consumed[i]
    BY <1>1, <1>5 DEF AddItems, Placed
  <2>2. QED
    BY <1>2, <1>3, <2>1, DishFrame, KitchenNumbers DEF DishSound, Active, Sent
<1>6. QED
  BY <1>4, <1>5

LEMMA ItemChangeKitchen ==
  ASSUME KitchenInv, TypeOK', NEW o \in Orders, NEW j \in Items,
         \/ RemoveItem(o, j)
         \/ VoidItem(o, j)
         \/ \E qty \in Quantities : ChangeItem(o, j, qty)
         \/ \E granted \in BOOLEAN : SetCourtesy(o, j, granted),
         NEW i \in Items
  PROVE  DishSound(i)'
<1> USE DEF KitchenInv
<1>1. CASE RemoveItem(o, j)
  BY <1>1, KitchenNumbers DEF RemoveItem, NoItem, DishSound, TypeOK
<1>2. CASE VoidItem(o, j)
  BY <1>2, KitchenNumbers DEF VoidItem, DishSound, TypeOK, ItemRow
<1>3. ASSUME NEW qty \in Quantities, ChangeItem(o, j, qty)
      PROVE  DishSound(i)'
  BY <1>3, KitchenNumbers DEF ChangeItem, DishSound, TypeOK, ItemRow
<1>4. ASSUME NEW granted \in BOOLEAN, SetCourtesy(o, j, granted)
      PROVE  DishSound(i)'
  BY <1>4, KitchenNumbers DEF SetCourtesy, DishSound, TypeOK, ItemRow
<1>5. QED
  BY <1>1, <1>2, <1>3, <1>4

LEMMA KitchenStepKitchen ==
  ASSUME KitchenInv, TypeOK', NEW o \in Orders, KitchenStep(o), NEW i \in Items
  PROVE  DishSound(i)'
<1> USE DEF KitchenInv
<1>1. CASE SendToKitchen(o)
  <2>1. /\ orders'[o].status = "in_kitchen"
        /\ orders'[o].round = orders[o].round + 1
        /\ \A r \in Orders \ {o} : orders'[r] = orders[r]
    BY <1>1 DEF SendToKitchen, TypeOK, OrderRow
  <2>2. CASE items[i].order # o
    BY <1>1, <2>1, <2>2, KitchenNumbers DEF SendToKitchen, ItemsOf, DishSound
  <2>3. CASE items[i].order = o
    <3>1. items'[i] = IF items[i].round = 0
                        THEN [items[i] EXCEPT !.round = orders[o].round + 1]
                        ELSE items[i]
      BY <1>1, <2>3 DEF SendToKitchen, ItemsOf
    <3>2. /\ items'[i].order = o /\ items'[i].qty = items[i].qty
          /\ items'[i].round = IF items[i].round = 0 THEN orders[o].round + 1
                                                     ELSE items[i].round
      BY <2>3, <3>1 DEF TypeOK, ItemRow
    <3>3. o # None
      BY OrderBookAssumption
    <3>4. QED
      BY <2>1, <2>3, <3>2, <3>3, KitchenNumbers DEF DishSound
  <2>4. QED
    BY <2>2, <2>3
<1>2. CASE MarkReady(o)
  <2>1. /\ orders[o].status = "in_kitchen"
        /\ orders'[o] = [orders[o] EXCEPT !.status = "ready"]
        /\ \A r \in Orders \ {o} : orders'[r] = orders[r]
        /\ items' = items /\ consumed' = consumed
    BY <1>2 DEF MarkReady, TypeOK
  <2>2. orders'[o].status = "ready" /\ orders'[o].round = orders[o].round
    BY <2>1 DEF TypeOK, OrderRow
  <2>3. QED
    BY <2>1, <2>2, KitchenNumbers DEF DishSound, Sent
<1>3. CASE MarkServed(o)
  <2>1. /\ orders[o].status = "ready" /\ items' = items
        /\ orders'[o] = [orders[o] EXCEPT !.status = "served"]
        /\ \A r \in Orders \ {o} : orders'[r] = orders[r]
        /\ consumed'[i] = IF i \in PendingConsumption(o)
                            THEN consumed[i] + items[i].qty ELSE consumed[i]
    BY <1>3 DEF MarkServed, TypeOK
  <2>2. orders'[o].status = "served" /\ orders'[o].round = orders[o].round
    BY <2>1 DEF TypeOK, OrderRow
  <2>3. CASE items[i].order # o
    BY <2>1, <2>3, KitchenNumbers
    DEF DishSound, PendingConsumption, LiveItems, ItemsOf
  <2>4. CASE items[i].order = o
    <3>1. /\ items[i].qty > 0
          /\ items[i].round >= 1 /\ items[i].round <= orders[o].round
      BY <2>1, <2>4, KitchenNumbers DEF DishSound, Sent
    <3>2. ~items[i].voided /\ items[i].dish \in Recipes => consumed'[i] > 0
      BY <2>1, <2>4, <3>1, KitchenNumbers
      DEF PendingConsumption, LiveItems, ItemsOf
    <3>3. QED
      BY <2>1, <2>2, <2>4, <3>1, <3>2, KitchenNumbers DEF DishSound
  <2>5. QED
    BY <2>3, <2>4
<1>4. CASE CancelOrder(o)
  <2>1. /\ orders'[o] = [orders[o] EXCEPT !.status = "cancelled"]
        /\ \A r \in Orders \ {o} : orders'[r] = orders[r]
        /\ items' = items /\ consumed' = consumed
    BY <1>4 DEF CancelOrder, TypeOK
  <2>2. orders'[o].status = "cancelled" /\ orders'[o].round = orders[o].round
    BY <2>1 DEF TypeOK, OrderRow
  <2>3. QED
    BY <2>1, <2>2, KitchenNumbers DEF DishSound, Sent
<1>5. QED
  BY <1>1, <1>2, <1>3, <1>4 DEF KitchenStep

\* Two orders merged keep the less advanced status and the later round, so the
\* dishes of both fit the order they end in.
LEMMA MergeOrdersKitchen ==
  ASSUME KitchenInv, TypeOK', NEW a \in Staff, NEW o \in Orders,
         NEW source \in Orders, MergeOrders(a, o, source), NEW i \in Items
  PROVE  DishSound(i)'
<1> USE DEF KitchenInv
<1>1. /\ orders'[o].status = MergedStatus(o, source)
      /\ orders'[o].round = IF orders[source].round > orders[o].round
                              THEN orders[source].round ELSE orders[o].round
      /\ \A r \in Orders \ {o, source} : orders'[r] = orders[r]
      /\ consumed' = consumed
  BY DEF MergeOrders, TypeOK, OrderRow
<1>2. orders[o].status \in Active /\ orders[source].status \in Active
  BY DEF MergeOrders, Mergeable, Adjustable, IsActive
<1>3. /\ MergedStatus(o, source) # "none"
      /\ MergedStatus(o, source) \in Sent =>
           orders[o].status \in Sent /\ orders[source].status \in Sent
      /\ MergedStatus(o, source) \in {"served", "paid"} =>
           orders[o].status = "served" /\ orders[source].status = "served"
  BY <1>2 DEF MergedStatus, Progress, Active, Sent
<1>4. CASE items[i].order = source
  <2>1. items'[i] = [items[i] EXCEPT !.order = o]
    BY <1>4 DEF MergeOrders
  <2>2. /\ items'[i].order = o /\ items'[i].qty = items[i].qty
        /\ items'[i].round = items[i].round /\ items'[i].dish = items[i].dish
        /\ items'[i].voided = items[i].voided
    BY <2>1 DEF TypeOK, ItemRow
  <2>3. source # None
    BY OrderBookAssumption
  <2>4. QED
    BY <1>1, <1>3, <1>4, <2>2, <2>3, KitchenNumbers DEF DishSound
<1>5. CASE items[i].order # source
  <2>1. items'[i] = items[i]
    BY <1>5 DEF MergeOrders
  <2>2. QED
    BY <1>1, <1>3, <1>5, <2>1, KitchenNumbers DEF DishSound
<1>6. QED
  BY <1>4, <1>5

LEMMA PayKitchen ==
  ASSUME KitchenInv, TypeOK', NEW a \in Staff, NEW o \in Orders,
         NEW p \in Payments, NEW s \in Sessions, NEW amount, NEW S,
         NEW method, NEW tip, Pay(a, o, p, s, amount, S, method, tip),
         NEW i \in Items
  PROVE  DishSound(i)'
<1> USE DEF KitchenInv
<1>1. /\ orders[o].status = "served"
      /\ orders'[o].status \in {"served", "paid"}
      /\ orders'[o].round = orders[o].round
      /\ \A r \in Orders \ {o} : orders'[r] = orders[r]
      /\ consumed' = consumed
  BY DEF Pay, TypeOK, OrderRow
<1>2. /\ items'[i].order = items[i].order /\ items'[i].qty = items[i].qty
      /\ items'[i].round = items[i].round /\ items'[i].dish = items[i].dish
      /\ items'[i].voided = items[i].voided
  BY DEF Pay, TypeOK, ItemRow
<1>3. QED
  BY <1>1, <1>2, KitchenNumbers DEF DishSound, Sent

LEMMA VoidPaymentKitchen ==
  ASSUME KitchenInv, TypeOK', NEW o \in Orders, NEW p \in Payments,
         VoidPayment(o, p), NEW i \in Items
  PROVE  DishSound(i)'
<1> USE DEF KitchenInv
<1>1. /\ orders[o].status \in {"served", "paid"}
      /\ orders'[o].status = "served"
      /\ orders'[o].round = orders[o].round
      /\ \A r \in Orders \ {o} : orders'[r] = orders[r]
      /\ consumed' = consumed
  BY DEF VoidPayment, VoidablePayment, StatusAfterVoid, TypeOK, OrderRow
<1>2. /\ items'[i].order = items[i].order /\ items'[i].qty = items[i].qty
      /\ items'[i].round = items[i].round /\ items'[i].dish = items[i].dish
      /\ items'[i].voided = items[i].voided
  BY DEF VoidPayment, Released, TypeOK, ItemRow
<1>3. QED
  BY <1>1, <1>2, KitchenNumbers DEF DishSound, Sent

-----------------------------------------------------------------------------
LEMMA KitchenNext == KitchenInv /\ [Next]_vars => KitchenInv'
<1> SUFFICES ASSUME KitchenInv, [Next]_vars PROVE KitchenInv'
  OBVIOUS
<1>0. TypeOK'
  BY NextTypeOK DEF KitchenInv
<1>. SUFFICES ASSUME NEW i \in Items PROVE DishSound(i)'
  BY <1>0 DEF KitchenInv
<1>1. CASE TableStep
  <2>1. ASSUME NEW o \in Orders, NEW t \in Tables, MoveOrder(o, t)
        PROVE  DishSound(i)'
    BY <2>1, KitchenNumbers
    DEF MoveOrder, KitchenInv, DishSound, TypeOK, OrderRow
  <2>2. ASSUME NEW t \in Tables, UpdateTable(t) PROVE DishSound(i)'
    BY <2>2 DEF UpdateTable, KitchenInv, DishSound
  <2>3. QED
    BY <1>0, <1>1, <2>1, <2>2, OpenOrderKitchen, MergeOrdersKitchen
    DEF TableStep
<1>2. CASE CashStep
  BY <1>2 DEF CashStep, OpenCash, CloseCash, KitchenInv, DishSound
<1>3. ASSUME NEW o \in Orders, ItemStep(o) PROVE DishSound(i)'
  BY <1>0, <1>3, AddItemsKitchen, ItemChangeKitchen DEF ItemStep
<1>4. ASSUME NEW o \in Orders, KitchenStep(o) PROVE DishSound(i)'
  BY <1>0, <1>4, KitchenStepKitchen
<1>5. ASSUME NEW o \in Orders, PayStep(o) PROVE DishSound(i)'
  <2>1. ASSUME NEW a \in Staff, NEW percent \in Percents,
               ApplyDiscount(a, o, percent)
        PROVE  DishSound(i)'
    BY <2>1, KitchenNumbers
    DEF ApplyDiscount, KitchenInv, DishSound, TypeOK, OrderRow
  <2>2. ASSUME NEW a \in Staff, NEW p \in Payments, NEW s \in Sessions,
               NEW method \in Methods, NEW tip \in Tips,
               \/ ChargeBalance(a, o, p, s, method, tip)
               \/ \E amount \in 1..MaxMoney :
                    ChargePart(a, o, p, s, amount, method, tip)
               \/ \E S \in SUBSET ItemsOf(o) :
                    ChargeItems(a, o, p, s, S, method, tip)
        PROVE  DishSound(i)'
    <3>1. PICK amount, S : Pay(a, o, p, s, amount, S, method, tip)
      BY <2>2, ChargesArePayments
    <3>2. QED
      BY <1>0, <3>1, PayKitchen
  <2>3. ASSUME NEW p \in Payments, VoidPayment(o, p) PROVE DishSound(i)'
    BY <1>0, <2>3, VoidPaymentKitchen
  <2>4. QED
    BY <1>5, <2>1, <2>2, <2>3 DEF PayStep
<1>6. ASSUME NEW o \in Orders, InvoiceStep(o) PROVE DishSound(i)'
  BY <1>6 DEF InvoiceStep, IssueInvoice, VoidInvoice, KitchenInv, DishSound
<1>7. CASE UNCHANGED vars
  BY <1>7 DEF vars, KitchenInv, DishSound
<1>8. QED
  BY <1>1, <1>2, <1>3, <1>4, <1>5, <1>6, <1>7 DEF Next

LEMMA KitchenAlways == Spec => []KitchenInv
<1>1. Init => KitchenInv
  BY KitchenInit
<1>2. KitchenInv /\ [Next]_vars => KitchenInv'
  BY KitchenNext
<1>3. QED
  BY <1>1, <1>2, PTL DEF Spec

\* Every dish of an order the kitchen has is in a round the kitchen was told
\* about, whatever was added, merged or sent back.
THEOREM KitchenIsSound == Spec => []KitchenKnowsEveryDish
<1>1. KitchenInv => KitchenKnowsEveryDish
  BY KitchenInvImplies
<1>2. QED
  BY <1>1, KitchenAlways, PTL

\* A dish with a recipe that the diners were served, or paid, has had its
\* ingredients deducted.
THEOREM ServedIsDeducted == Spec => []ServedIsConsumed
<1>1. KitchenInv => ServedIsConsumed
  BY KitchenInvImplies
<1>2. QED
  BY <1>1, KitchenAlways, PTL

-----------------------------------------------------------------------------
\* Only serving writes the ledger, and only dishes that are not in it.
LEMMA LedgerStep ==
  ASSUME [Next]_vars, NEW i \in Items, consumed'[i] # consumed[i]
  PROVE  consumed[i] = 0
<1>1. CASE UNCHANGED consumed
  BY <1>1
<1>2. ASSUME NEW o \in Orders, MarkServed(o) PROVE consumed[i] = 0
  BY <1>2 DEF MarkServed, PendingConsumption
<1>3. ASSUME TableStep PROVE UNCHANGED consumed
  <2>1. ASSUME NEW w, NEW o, NEW type, NEW t, NEW batch,
               OpenOrder(w, o, type, t, batch)
        PROVE  UNCHANGED consumed
    BY <2>1 DEF OpenOrder
  <2>2. ASSUME NEW o, NEW t, MoveOrder(o, t) PROVE UNCHANGED consumed
    BY <2>2 DEF MoveOrder
  <2>3. ASSUME NEW a, NEW o, NEW source, MergeOrders(a, o, source)
        PROVE  UNCHANGED consumed
    BY <2>3 DEF MergeOrders
  <2>4. QED
    BY <1>3, <2>1, <2>2, <2>3 DEF TableStep, UpdateTable
<1>4. ASSUME CashStep PROVE UNCHANGED consumed
  BY <1>4 DEF CashStep, OpenCash, CloseCash
<1>5. ASSUME NEW o \in Orders, ItemStep(o) \/ InvoiceStep(o)
      PROVE  UNCHANGED consumed
  BY <1>5 DEF ItemStep, AddItems, RemoveItem, VoidItem, ChangeItem,
              SetCourtesy, InvoiceStep, IssueInvoice, VoidInvoice
<1>6. ASSUME NEW o \in Orders, KitchenStep(o), ~MarkServed(o)
      PROVE  UNCHANGED consumed
  BY <1>6 DEF KitchenStep, SendToKitchen, MarkReady, CancelOrder
<1>7. ASSUME NEW o \in Orders, PayStep(o) PROVE UNCHANGED consumed
  <2>1. ASSUME NEW a, NEW percent, ApplyDiscount(a, o, percent)
        PROVE  UNCHANGED consumed
    BY <2>1 DEF ApplyDiscount
  <2>2. ASSUME NEW a, NEW p, NEW s, NEW amount, NEW S, NEW method, NEW tip,
               Pay(a, o, p, s, amount, S, method, tip)
        PROVE  UNCHANGED consumed
    BY <2>2 DEF Pay
  <2>3. ASSUME NEW p, VoidPayment(o, p) PROVE UNCHANGED consumed
    BY <2>3 DEF VoidPayment
  <2>4. QED
    BY <1>7, <2>1, <2>2, <2>3
    DEF PayStep, ChargeBalance, ChargePart, ChargeItems
<1>8. QED
  BY <1>1, <1>2, <1>3, <1>4, <1>5, <1>6, <1>7 DEF Next, vars

\* A dish enters the stock ledger once, however often its order is served.
THEOREM DeductedOnce == Spec => NeverConsumedTwice
<1>1. [Next]_vars =>
        [\A i \in Items : consumed'[i] # consumed[i] => consumed[i] = 0]_vars
  BY LedgerStep
<1>2. QED
  BY <1>1, PTL DEF Spec, NeverConsumedTwice

-----------------------------------------------------------------------------
(***************************************************************************)
(* Where the money of an order is: which orders may hold a payment, and    *)
(* which dishes it paid for.                                               *)
(***************************************************************************)

\* Orders that may hold money.
Billed == {"in_kitchen", "ready", "served", "paid"}

SplitSound(i) ==
  items[i].payment # None =>
    /\ items[i].order \in Orders
    /\ items[i].payment \in PaymentsOf(items[i].order)
    /\ ~items[i].voided

Housed(o) == PaymentsOf(o) # {} => orders[o].status \in Billed

MergedIsCancelled(o) ==
  orders[o].mergedInto # None => orders[o].status = "cancelled"

MoneyInv ==
  /\ TypeOK
  /\ \A i \in Items : SplitSound(i)
  /\ \A o \in Orders : Housed(o) /\ MergedIsCancelled(o)

LEMMA MoneyInvImplies == MoneyInv => MoneyHasItsOrder /\ SplitIsSound
<1> SUFFICES ASSUME MoneyInv PROVE MoneyHasItsOrder /\ SplitIsSound
  OBVIOUS
<1>1. ASSUME NEW p \in Payments, payments[p].order # None, ~payments[p].voided
      PROVE  /\ orders[payments[p].order].status
                  \in {"in_kitchen", "ready", "served", "paid"}
             /\ orders[payments[p].order].mergedInto = None
  <2>1. payments[p].order \in Orders
    BY <1>1 DEF MoneyInv, TypeOK, PaymentRow
  <2>2. p \in PaymentsOf(payments[p].order)
    BY <1>1 DEF PaymentsOf
  <2>3. orders[payments[p].order].status \in Billed
    BY <2>1, <2>2 DEF MoneyInv, Housed
  <2>4. QED
    BY <2>1, <2>3 DEF MoneyInv, MergedIsCancelled, Billed
<1>2. MoneyHasItsOrder
  BY <1>1 DEF MoneyHasItsOrder
<1>3. SplitIsSound
  BY DEF MoneyInv, SplitSound, SplitIsSound
<1>4. QED
  BY <1>2, <1>3

LEMMA MoneyInit == Init => MoneyInv
<1> SUFFICES ASSUME Init PROVE MoneyInv
  OBVIOUS
<1>1. /\ \A i \in Items : items[i].payment = None
      /\ \A o \in Orders : orders[o].mergedInto = None
      /\ \A p \in Payments : payments[p].order = None
  BY DEF Init, NoItem, NoOrder, NoPayment
<1>2. None \notin Orders
  BY OrderBookAssumption
<1>3. \A o \in Orders : PaymentsOf(o) = {}
  BY <1>1, <1>2 DEF PaymentsOf
<1>4. QED
  BY <1>1, <1>3, InitTypeOK DEF MoneyInv, SplitSound, Housed, MergedIsCancelled

-----------------------------------------------------------------------------
\* A step that writes no payment keeps the money where it is if it leaves the
\* dishes that are paid for alone and no order with money leaves the kitchen's
\* books.
LEMMA MoneyFrame ==
  ASSUME MoneyInv, TypeOK', payments' = payments,
         \A i \in Items :
           \/ items'[i].payment = None
           \/ /\ items'[i].payment = items[i].payment
              /\ items'[i].order = items[i].order
              /\ items'[i].voided = items[i].voided,
         \A o \in Orders :
           \/ orders'[o] = orders[o]
           \/ /\ MergedIsCancelled(o)'
              /\ PaymentsOf(o) # {} => orders'[o].status \in Billed
  PROVE  MoneyInv'
<1>1. \A o : PaymentsOf(o)' = PaymentsOf(o)
  BY DEF PaymentsOf
<1>2. \A i \in Items : SplitSound(i)'
  BY <1>1 DEF MoneyInv, SplitSound
<1>3. \A o \in Orders : Housed(o)' /\ MergedIsCancelled(o)'
  BY <1>1 DEF MoneyInv, Housed, MergedIsCancelled
<1>4. QED
  BY <1>2, <1>3 DEF MoneyInv

\* An order that has no dish it could be charged for, or is not past the
\* kitchen, holds no money.
LEMMA OpenHoldsNothing ==
  ASSUME MoneyInv, NEW o \in Orders, orders[o].status \notin Billed
  PROVE  PaymentsOf(o) = {}
BY DEF MoneyInv, Housed

LEMMA TableStepMoney ==
  ASSUME MoneyInv, TypeOK', TableStep
  PROVE  MoneyInv'
<1>1. ASSUME NEW w \in Staff, NEW o \in Orders, NEW type \in Types,
             NEW t \in Tables \cup {None}, NEW batch \in Batches,
             OpenOrder(w, o, type, t, batch)
      PROVE  MoneyInv'
  <2>1. PaymentsOf(o) = {}
    BY <1>1, OpenHoldsNothing DEF OpenOrder, Billed
  <2>2. /\ orders'[o].mergedInto = None
        /\ \A r \in Orders \ {o} : orders'[r] = orders[r]
    BY <1>1 DEF OpenOrder, MoneyInv, TypeOK, NoOrder
  <2>3. \A i \in Items : items'[i].payment = None \/ items'[i] = items[i]
    BY <1>1 DEF OpenOrder, Placed
  <2>4. QED
    BY <1>1, <2>1, <2>2, <2>3, MoneyFrame DEF OpenOrder, MergedIsCancelled
<1>2. ASSUME NEW o \in Orders, NEW t \in Tables, MoveOrder(o, t)
      PROVE  MoneyInv'
  <2>1. \A r \in Orders : orders'[r].status = orders[r].status
                          /\ orders'[r].mergedInto = orders[r].mergedInto
    BY <1>2 DEF MoveOrder, MoneyInv, TypeOK, OrderRow
  <2>2. QED
    BY <1>2, <2>1, MoneyFrame
    DEF MoveOrder, MoneyInv, Housed, MergedIsCancelled
<1>3. ASSUME NEW a \in Staff, NEW o \in Orders, NEW source \in Orders,
             MergeOrders(a, o, source)
      PROVE  MoneyInv'
  <2>1. PaymentsOf(o) = {} /\ PaymentsOf(source) = {}
    BY <1>3 DEF MergeOrders, Mergeable, Adjustable, Unpaid
  <2>2. /\ orders'[o].mergedInto = orders[o].mergedInto
        /\ orders'[source].status = "cancelled"
        /\ \A r \in Orders \ {o, source} : orders'[r] = orders[r]
    BY <1>3 DEF MergeOrders, MoneyInv, TypeOK, OrderRow
  <2>3. orders[o].mergedInto = None
    BY <1>3 DEF MergeOrders, Mergeable, Adjustable, IsActive, Active,
                MoneyInv, MergedIsCancelled
  <2>4. \A i \in Items : items'[i] = items[i] \/ items'[i].payment = None
    <3>1. ASSUME NEW i \in Items, items[i].order = source
          PROVE  items'[i].payment = None
      <4>1. items[i].payment = None
        BY <2>1, <3>1 DEF MoneyInv, SplitSound
      <4>2. QED
        BY <1>3, <3>1, <4>1 DEF MergeOrders, MoneyInv, TypeOK, ItemRow
    <3>2. ASSUME NEW i \in Items, items[i].order # source
          PROVE  items'[i] = items[i]
      BY <1>3, <3>2 DEF MergeOrders
    <3>3. QED
      BY <3>1, <3>2
  <2>5. QED
    BY <1>3, <2>1, <2>2, <2>3, <2>4, MoneyFrame
    DEF MergeOrders, MergedIsCancelled
<1>4. ASSUME NEW t \in Tables, UpdateTable(t) PROVE MoneyInv'
  BY <1>4, MoneyFrame DEF UpdateTable
<1>5. QED
  BY <1>1, <1>2, <1>3, <1>4 DEF TableStep

LEMMA ItemStepMoney ==
  ASSUME MoneyInv, TypeOK', NEW o \in Orders, ItemStep(o)
  PROVE  MoneyInv'
<1>1. ASSUME NEW batch \in Batches, AddItems(o, batch) PROVE MoneyInv'
  <2>1. \A i \in Items : items'[i].payment = None \/ items'[i] = items[i]
    BY <1>1 DEF AddItems, Placed
  <2>2. /\ orders'[o].mergedInto = orders[o].mergedInto
        /\ orders'[o].status = IF orders[o].status \in {"ready", "served"}
                                 THEN "in_kitchen" ELSE orders[o].status
        /\ \A r \in Orders \ {o} : orders'[r] = orders[r]
    BY <1>1 DEF AddItems, MoneyInv, TypeOK, OrderRow
  <2>3. PaymentsOf(o) # {} => orders'[o].status \in Billed
    BY <2>2 DEF MoneyInv, Housed, Billed
  <2>4. MergedIsCancelled(o)'
    BY <1>1, <2>2
    DEF AddItems, IsActive, Active, MoneyInv, MergedIsCancelled
  <2>5. QED
    BY <1>1, <2>1, <2>2, <2>3, <2>4, MoneyFrame DEF AddItems
<1>2. ASSUME NEW i \in Items, RemoveItem(o, i) PROVE MoneyInv'
  BY <1>2, MoneyFrame DEF RemoveItem, NoItem, MoneyInv, TypeOK
<1>3. ASSUME NEW i \in Items, VoidItem(o, i) PROVE MoneyInv'
  <2>1. items[i].payment = None
    BY <1>3 DEF VoidItem, VoidableItem, Unpaid, LiveItems, ItemsOf,
                MoneyInv, SplitSound
  <2>2. items'[i].payment = None /\ \A j \in Items \ {i} : items'[j] = items[j]
    BY <1>3, <2>1 DEF VoidItem, MoneyInv, TypeOK, ItemRow
  <2>3. QED
    BY <1>3, <2>2, MoneyFrame DEF VoidItem
<1>4. ASSUME NEW i \in Items, NEW qty \in Quantities, ChangeItem(o, i, qty)
      PROVE  MoneyInv'
  <2>1. \A j \in Items : /\ items'[j].payment = items[j].payment
                         /\ items'[j].order = items[j].order
                         /\ items'[j].voided = items[j].voided
    BY <1>4 DEF ChangeItem, MoneyInv, TypeOK, ItemRow
  <2>2. QED
    BY <1>4, <2>1, MoneyFrame DEF ChangeItem
<1>5. ASSUME NEW i \in Items, NEW granted \in BOOLEAN, SetCourtesy(o, i, granted)
      PROVE  MoneyInv'
  <2>1. \A j \in Items : /\ items'[j].payment = items[j].payment
                         /\ items'[j].order = items[j].order
                         /\ items'[j].voided = items[j].voided
    BY <1>5 DEF SetCourtesy, MoneyInv, TypeOK, ItemRow
  <2>2. QED
    BY <1>5, <2>1, MoneyFrame DEF SetCourtesy
<1>6. QED
  BY <1>1, <1>2, <1>3, <1>4, <1>5 DEF ItemStep

LEMMA KitchenStepMoney ==
  ASSUME MoneyInv, TypeOK', NEW o \in Orders, KitchenStep(o)
  PROVE  MoneyInv'
<1>1. /\ payments' = payments
      /\ \A i \in Items : /\ items'[i].payment = items[i].payment
                          /\ items'[i].order = items[i].order
                          /\ items'[i].voided = items[i].voided
  <2>1. CASE SendToKitchen(o)
    BY <2>1 DEF SendToKitchen, MoneyInv, TypeOK, ItemRow
  <2>2. CASE ~SendToKitchen(o)
    BY <2>2 DEF KitchenStep, MarkReady, MarkServed, CancelOrder
  <2>3. QED
    BY <2>1, <2>2
<1>2. \A r \in Orders \ {o} : orders'[r] = orders[r]
  <2>1. CASE SendToKitchen(o)
    BY <2>1 DEF SendToKitchen, MoneyInv, TypeOK
  <2>2. CASE ~SendToKitchen(o)
    BY <2>2 DEF KitchenStep, MarkReady, MarkServed, CancelOrder, MoneyInv, TypeOK
  <2>3. QED
    BY <2>1, <2>2
<1>3. orders[o].status \in Active
  BY DEF KitchenStep, SendToKitchen, MarkReady, MarkServed, CancelOrder,
         Cancellable, IsActive, Active
<1>4. /\ orders'[o].mergedInto = orders[o].mergedInto
      /\ \/ orders'[o].status \in {"in_kitchen", "ready", "served"}
         \/ orders'[o].status = "cancelled" /\ PaymentsOf(o) = {}
  <2>1. CASE SendToKitchen(o)
    BY <2>1 DEF SendToKitchen, MoneyInv, TypeOK, OrderRow
  <2>2. CASE MarkReady(o)
    BY <2>2 DEF MarkReady, MoneyInv, TypeOK, OrderRow
  <2>3. CASE MarkServed(o)
    BY <2>3 DEF MarkServed, MoneyInv, TypeOK, OrderRow
  <2>4. CASE CancelOrder(o)
    BY <2>4 DEF CancelOrder, Cancellable, Unpaid, MoneyInv, TypeOK, OrderRow
  <2>5. QED
    BY <2>1, <2>2, <2>3, <2>4 DEF KitchenStep
<1>5. MergedIsCancelled(o)'
  BY <1>3, <1>4 DEF MoneyInv, MergedIsCancelled, Active
<1>6. QED
  BY <1>1, <1>2, <1>4, <1>5, MoneyFrame DEF Billed

-----------------------------------------------------------------------------
\* A charge is made to a served order, for dishes nobody paid for.
LEMMA PayMoney ==
  ASSUME MoneyInv, TypeOK', NEW a, NEW o \in Orders, NEW p \in Payments,
         NEW s \in Sessions, NEW amount, NEW S, NEW method, NEW tip,
         Pay(a, o, p, s, amount, S, method, tip), S \subseteq LiveItems(o)
  PROVE  MoneyInv'
<1>1. /\ orders[o].status = "served"
      /\ orders'[o].status \in {"served", "paid"}
      /\ orders'[o].mergedInto = orders[o].mergedInto
      /\ \A r \in Orders \ {o} : orders'[r] = orders[r]
  BY DEF Pay, MoneyInv, TypeOK, OrderRow
<1>2. /\ payments[p].order = None /\ payments'[p].order = o
      /\ ~payments'[p].voided
      /\ \A q \in Payments \ {p} : payments'[q] = payments[q]
  BY DEF Pay, NoPayment, MoneyInv, TypeOK
<1>3. None \notin Orders /\ None \notin Payments
  BY OrderBookAssumption
<1>4. /\ PaymentsOf(o)' = PaymentsOf(o) \cup {p}
      /\ \A r \in Orders \ {o} : PaymentsOf(r)' = PaymentsOf(r)
  BY <1>2, <1>3 DEF PaymentsOf
<1>5. ASSUME NEW i \in Items PROVE SplitSound(i)'
  <2>1. CASE i \in S
    <3>1. items[i].order = o /\ ~items[i].voided
      BY <2>1 DEF LiveItems, ItemsOf
    <3>2. /\ items'[i].order = o /\ ~items'[i].voided /\ items'[i].payment = p
      BY <2>1, <3>1 DEF Pay, MoneyInv, TypeOK, ItemRow
    <3>3. QED
      BY <1>4, <3>2 DEF SplitSound
  <2>2. CASE i \notin S
    <3>1. items'[i] = items[i]
      BY <2>2 DEF Pay
    <3>2. QED
      BY <1>4, <3>1 DEF MoneyInv, SplitSound
  <2>3. QED
    BY <2>1, <2>2
<1>6. ASSUME NEW r \in Orders PROVE Housed(r)' /\ MergedIsCancelled(r)'
  BY <1>1, <1>4 DEF MoneyInv, Housed, MergedIsCancelled, Billed
<1>7. QED
  BY <1>5, <1>6 DEF MoneyInv

LEMMA VoidPaymentMoney ==
  ASSUME MoneyInv, TypeOK', NEW o \in Orders, NEW p \in Payments,
         VoidPayment(o, p)
  PROVE  MoneyInv'
<1>1. /\ orders[o].status \in {"served", "paid"}
      /\ orders'[o].status = "served"
      /\ orders'[o].mergedInto = orders[o].mergedInto
      /\ \A r \in Orders \ {o} : orders'[r] = orders[r]
  BY DEF VoidPayment, VoidablePayment, StatusAfterVoid, MoneyInv, TypeOK,
         OrderRow
<1>2. /\ payments'[p].voided
      /\ \A q \in Payments \ {p} : payments'[q] = payments[q]
  BY DEF VoidPayment, MoneyInv, TypeOK, PaymentRow
<1>3. payments'[p].order = payments[p].order
  BY DEF VoidPayment, MoneyInv, TypeOK, PaymentRow
<1>4. \A r \in Orders : PaymentsOf(r)' = PaymentsOf(r) \ {p}
  BY <1>2, <1>3 DEF PaymentsOf
<1>5. ASSUME NEW i \in Items PROVE SplitSound(i)'
  <2>1. CASE items[i].payment = p
    BY <2>1 DEF VoidPayment, Released, MoneyInv, TypeOK, ItemRow, SplitSound
  <2>2. CASE items[i].payment # p
    <3>1. items'[i] = items[i]
      BY <2>2 DEF VoidPayment, Released
    <3>2. QED
      BY <1>4, <2>2, <3>1 DEF MoneyInv, SplitSound
  <2>3. QED
    BY <2>1, <2>2
<1>6. ASSUME NEW r \in Orders PROVE Housed(r)' /\ MergedIsCancelled(r)'
  BY <1>1, <1>4 DEF MoneyInv, Housed, MergedIsCancelled, Billed
<1>7. QED
  BY <1>5, <1>6 DEF MoneyInv

LEMMA ChargesPayForUnpaid ==
  ASSUME NEW a, NEW o, NEW p, NEW s, NEW method, NEW tip,
         \/ ChargeBalance(a, o, p, s, method, tip)
         \/ \E amount \in 1..MaxMoney :
              ChargePart(a, o, p, s, amount, method, tip)
         \/ \E S \in SUBSET ItemsOf(o) : ChargeItems(a, o, p, s, S, method, tip)
  PROVE  \E amount, S : /\ Pay(a, o, p, s, amount, S, method, tip)
                        /\ S \subseteq LiveItems(o)
                        /\ \A i \in S : items[i].payment = None
BY DEF ChargeBalance, ChargePart, ChargeItems, CanPayFor

LEMMA PayStepMoney ==
  ASSUME MoneyInv, TypeOK', NEW o \in Orders, PayStep(o)
  PROVE  MoneyInv'
<1>1. ASSUME NEW a \in Staff, NEW percent \in Percents,
             ApplyDiscount(a, o, percent)
      PROVE  MoneyInv'
  <2>1. \A r \in Orders : orders'[r].status = orders[r].status
                          /\ orders'[r].mergedInto = orders[r].mergedInto
    BY <1>1 DEF ApplyDiscount, MoneyInv, TypeOK, OrderRow
  <2>2. QED
    BY <1>1, <2>1, MoneyFrame
    DEF ApplyDiscount, MoneyInv, Housed, MergedIsCancelled
<1>2. ASSUME NEW a \in Staff, NEW p \in Payments, NEW s \in Sessions,
             NEW method \in Methods, NEW tip \in Tips,
             \/ ChargeBalance(a, o, p, s, method, tip)
             \/ \E amount \in 1..MaxMoney :
                  ChargePart(a, o, p, s, amount, method, tip)
             \/ \E S \in SUBSET ItemsOf(o) :
                  ChargeItems(a, o, p, s, S, method, tip)
      PROVE  MoneyInv'
  <2>1. PICK amount, S : /\ Pay(a, o, p, s, amount, S, method, tip)
                         /\ S \subseteq LiveItems(o)
    BY <1>2, ChargesPayForUnpaid
  <2>2. QED
    BY <2>1, PayMoney
<1>3. ASSUME NEW p \in Payments, VoidPayment(o, p) PROVE MoneyInv'
  BY <1>3, VoidPaymentMoney
<1>4. QED
  BY <1>1, <1>2, <1>3 DEF PayStep

LEMMA MoneyNext == MoneyInv /\ [Next]_vars => MoneyInv'
<1> SUFFICES ASSUME MoneyInv, [Next]_vars PROVE MoneyInv'
  OBVIOUS
<1>1. TypeOK'
  BY NextTypeOK DEF MoneyInv
<1>2. CASE TableStep
  BY <1>1, <1>2, TableStepMoney
<1>3. CASE CashStep
  BY <1>1, <1>3, MoneyFrame DEF CashStep, OpenCash, CloseCash
<1>4. ASSUME NEW o \in Orders, ItemStep(o) PROVE MoneyInv'
  BY <1>1, <1>4, ItemStepMoney
<1>5. ASSUME NEW o \in Orders, KitchenStep(o) PROVE MoneyInv'
  BY <1>1, <1>5, KitchenStepMoney
<1>6. ASSUME NEW o \in Orders, PayStep(o) PROVE MoneyInv'
  BY <1>1, <1>6, PayStepMoney
<1>7. ASSUME NEW o \in Orders, InvoiceStep(o) PROVE MoneyInv'
  BY <1>1, <1>7, MoneyFrame DEF InvoiceStep, IssueInvoice, VoidInvoice
<1>8. CASE UNCHANGED vars
  BY <1>1, <1>8, MoneyFrame DEF vars
<1>9. QED
  BY <1>2, <1>3, <1>4, <1>5, <1>6, <1>7, <1>8 DEF Next

LEMMA MoneyAlways == Spec => []MoneyInv
<1>1. Init => MoneyInv
  BY MoneyInit
<1>2. MoneyInv /\ [Next]_vars => MoneyInv'
  BY MoneyNext
<1>3. QED
  BY <1>1, <1>2, PTL DEF Spec

\* Live money is always in an order past the kitchen's door that nobody merged
\* away.
THEOREM MoneyIsHoused == Spec => []MoneyHasItsOrder
<1>1. MoneyInv => MoneyHasItsOrder
  BY MoneyInvImplies
<1>2. QED
  BY <1>1, MoneyAlways, PTL

\* A dish somebody paid for is a live dish of the order that holds that
\* payment.
THEOREM DishesStayPaid == Spec => []SplitIsSound
<1>1. MoneyInv => SplitIsSound
  BY MoneyInvImplies
<1>2. QED
  BY <1>1, MoneyAlways, PTL

-----------------------------------------------------------------------------
\* Only a charge marks dishes as paid, and it takes those nobody paid for.
LEMMA PaidDishStep ==
  ASSUME MoneyInv, [Next]_vars, NEW i \in Items, items[i].payment # None
  PROVE  items'[i].payment \in {None, items[i].payment}
<1>1. i \notin FreeItems
  BY OrderBookAssumption DEF FreeItems, MoneyInv, SplitSound
<1>2. ASSUME NEW batch \in Batches, NEW o, NEW r, items' = Placed(batch, o, r)
      PROVE  items'[i] = items[i]
  <2>1. i \notin DOMAIN batch
    BY <1>1 DEF Batches
  <2>2. QED
    BY <1>2, <2>1 DEF Placed
<1>3. CASE TableStep
  <2>1. ASSUME NEW a, NEW o, NEW source, MergeOrders(a, o, source)
        PROVE  items'[i].payment = items[i].payment
    BY <2>1 DEF MergeOrders, MoneyInv, TypeOK, ItemRow
  <2>2. ASSUME NEW w, NEW o, NEW type, NEW t, NEW batch \in Batches,
               OpenOrder(w, o, type, t, batch)
        PROVE  items'[i] = items[i]
    BY <1>2, <2>2 DEF OpenOrder
  <2>3. QED
    BY <1>3, <2>1, <2>2 DEF TableStep, MoveOrder, UpdateTable
<1>4. CASE CashStep
  BY <1>4 DEF CashStep, OpenCash, CloseCash
<1>5. ASSUME NEW o \in Orders, ItemStep(o)
      PROVE  items'[i].payment \in {None, items[i].payment}
  <2>1. ASSUME NEW batch \in Batches, AddItems(o, batch)
        PROVE  items'[i] = items[i]
    BY <1>2, <2>1 DEF AddItems
  <2>2. ASSUME NEW j \in Items, RemoveItem(o, j)
        PROVE  items'[i].payment \in {None, items[i].payment}
    BY <2>2 DEF RemoveItem, NoItem, MoneyInv, TypeOK
  <2>3. ASSUME NEW j \in Items, VoidItem(o, j)
        PROVE  items'[i].payment = items[i].payment
    BY <2>3 DEF VoidItem, MoneyInv, TypeOK, ItemRow
  <2>4. ASSUME NEW j \in Items, NEW qty, ChangeItem(o, j, qty)
        PROVE  items'[i].payment = items[i].payment
    BY <2>4 DEF ChangeItem, MoneyInv, TypeOK, ItemRow
  <2>5. ASSUME NEW j \in Items, NEW granted, SetCourtesy(o, j, granted)
        PROVE  items'[i].payment = items[i].payment
    BY <2>5 DEF SetCourtesy, MoneyInv, TypeOK, ItemRow
  <2>6. QED
    BY <1>5, <2>1, <2>2, <2>3, <2>4, <2>5 DEF ItemStep
<1>6. ASSUME NEW o \in Orders, KitchenStep(o)
      PROVE  items'[i].payment = items[i].payment
  <2>1. CASE SendToKitchen(o)
    BY <2>1 DEF SendToKitchen, MoneyInv, TypeOK, ItemRow
  <2>2. QED
    BY <1>6, <2>1 DEF KitchenStep, MarkReady, MarkServed, CancelOrder
<1>7. ASSUME NEW o \in Orders, PayStep(o)
      PROVE  items'[i].payment \in {None, items[i].payment}
  <2>1. ASSUME NEW a, NEW percent, ApplyDiscount(a, o, percent)
        PROVE  items' = items
    BY <2>1 DEF ApplyDiscount
  <2>2. ASSUME NEW p, VoidPayment(o, p)
        PROVE  items'[i].payment \in {None, items[i].payment}
    BY <2>2 DEF VoidPayment, Released, MoneyInv, TypeOK, ItemRow
  <2>3. ASSUME NEW a, NEW p, NEW s, NEW amount, NEW S, NEW method, NEW tip,
               Pay(a, o, p, s, amount, S, method, tip),
               \A j \in S : items[j].payment = None
        PROVE  items'[i] = items[i]
    BY <2>3 DEF Pay
  <2>4. ASSUME NEW a \in Staff, NEW p \in Payments, NEW s \in Sessions,
               NEW method \in Methods, NEW tip \in Tips,
               \/ ChargeBalance(a, o, p, s, method, tip)
               \/ \E amount \in 1..MaxMoney :
                    ChargePart(a, o, p, s, amount, method, tip)
               \/ \E S \in SUBSET ItemsOf(o) :
                    ChargeItems(a, o, p, s, S, method, tip)
        PROVE  items'[i] = items[i]
    <3>1. PICK amount, S : /\ Pay(a, o, p, s, amount, S, method, tip)
                           /\ \A j \in S : items[j].payment = None
      BY <2>4, ChargesPayForUnpaid
    <3>2. QED
      BY <2>3, <3>1
  <2>5. QED
    BY <1>7, <2>1, <2>2, <2>4 DEF PayStep
<1>8. ASSUME NEW o \in Orders, InvoiceStep(o) PROVE items' = items
  BY <1>8 DEF InvoiceStep, IssueInvoice, VoidInvoice
<1>9. QED
  BY <1>3, <1>4, <1>5, <1>6, <1>7, <1>8 DEF Next, vars

\* A dish somebody paid for is not paid for again unless that payment is
\* voided first.
THEOREM DishesArePaidOnce == Spec => NoDishPaidTwice
<1>1. MoneyInv /\ [Next]_vars =>
        [\A i \in Items : items[i].payment # None =>
           items'[i].payment \in {None, items[i].payment}]_vars
  BY PaidDishStep
<1>2. QED
  BY <1>1, MoneyInit, MoneyNext, PTL DEF Spec, NoDishPaidTwice

-----------------------------------------------------------------------------
(***************************************************************************)
(* What an order comes to and what was paid of it: sums over its dishes    *)
(* and payments.                                                           *)
(***************************************************************************)

\* A sum of amounts that are not negative.
LEMMA SumsOfAmounts ==
  ASSUME NEW S, IsFiniteSet(S), NEW f, DOMAIN f = S, \A x \in S : f[x] \in Nat
  PROVE  SumOf(f) = SumOn(f, S) /\ SumOf(f) \in Nat
<1>1. \A g : SumOf(g) = SumOn(g, DOMAIN g)
  BY FoldIsSum DEF SumOf
<1>2. SumOn(f, S) \in Nat
  BY SumIsNat
<1>3. QED
  BY <1>1, <1>2

\* More terms, none of them negative, sum to no less.
LEMMA SumsGrowWithTerms ==
  ASSUME NEW T, IsFiniteSet(T), NEW S \in SUBSET T, NEW f, NEW g,
         DOMAIN f = S, DOMAIN g = T, \A x \in T : g[x] \in Nat,
         \A x \in S : f[x] = g[x]
  PROVE  SumOf(f) \in Nat /\ SumOf(g) \in Nat /\ SumOf(f) <= SumOf(g)
<1>1. IsFiniteSet(S) /\ IsFiniteSet(T \ S) /\ S \cap (T \ S) = {}
      /\ S \cup (T \ S) = T
  BY FS_Subset
<1>2. /\ SumOf(f) = SumOn(f, S) /\ SumOf(g) = SumOn(g, T)
      /\ SumOf(f) \in Nat /\ SumOf(g) \in Nat
  BY <1>1, SumsOfAmounts
<1>3. SumOn(f, S) = SumOn(g, S)
  BY <1>1, SumsAgree
<1>4. SumOn(g, T) = SumOn(g, S) + SumOn(g, T \ S)
  <2>1. \A x \in S \cup (T \ S) : g[x] \in Int
    OBVIOUS
  <2>2. SumOn(g, S \cup (T \ S)) = SumOn(g, S) + SumOn(g, T \ S)
    BY <1>1, <2>1, SumOfParts
  <2>3. QED
    BY <1>1, <2>2
<1>5. SumOn(g, T \ S) \in Nat
  BY <1>1, SumIsNat
<1>6. QED
  BY <1>2, <1>3, <1>4, <1>5

\* What is left after a discount.
Net(due, percent) == due - PercentOf(due, percent)

\* A discount leaves something between nothing and all, and more of more:
\* rounding to the cent included, it never grows faster than the amount.
LEMMA DiscountsLeaveMoreOfMore ==
  ASSUME NEW a \in Nat, NEW b \in Nat, a <= b, NEW d \in 0..100
  PROVE  Net(a, d) \in Nat /\ Net(b, d) \in Nat /\ Net(a, d) <= Net(b, d)
<1>1. PICK more \in Nat : b = a + more
  <2>1. b - a \in Nat /\ b = a + (b - a)
    OBVIOUS
  <2>2. QED
    BY <2>1
<1>2. \A n \in Nat : n * d \in Nat /\ n * d <= 100 * n
  <2>1. \A n \in Nat, k, m \in Nat : k <= m => n * k <= n * m
    OBVIOUS
  <2>2. \A n, k \in Nat : n * k \in Nat
    OBVIOUS
  <2>3. QED
    BY <2>1, <2>2
<1>3. PICK x \in Nat : x = a * d /\ x <= 100 * a
  BY <1>2
<1>4. PICK y \in Nat : y = more * d /\ y <= 100 * more
  BY <1>2
<1>5. b * d = x + y
  BY <1>1, <1>3, <1>4
<1>6. /\ (x + 50) \div 100 \in Nat /\ (x + 50) \div 100 <= a
      /\ (x + y + 50) \div 100 \in Nat /\ (x + y + 50) \div 100 <= b
      /\ (x + y + 50) \div 100 <= (x + 50) \div 100 + more
  BY <1>1, <1>3, <1>4
<1>7. /\ PercentOf(a, d) = (x + 50) \div 100
      /\ PercentOf(b, d) = (x + y + 50) \div 100
  BY <1>3, <1>5 DEF PercentOf
<1>8. QED
  BY <1>1, <1>6, <1>7 DEF Net

LEMMA TotalIsNet ==
  ASSUME NEW o \in Orders
  PROVE  /\ Total(o) = Net(SumOf([i \in ItemsOf(o) |-> Due(i)]),
                           orders[o].discount)
         /\ Total(o)' = Net(SumOf([i \in ItemsOf(o)' |-> Due(i)']),
                            orders'[o].discount)
BY DEF Total, Net

LEMMA DuesAre ==
  /\ TypeOK => \A i \in Items : Due(i) \in Nat
  /\ TypeOK' => \A i \in Items : Due(i)' \in Nat
<1>1. ASSUME NEW row \in ItemRow
      PROVE  row.price * row.qty \in Nat
  <2>1. row.price \in Nat /\ row.qty \in Nat
    <3>1. row.price \in Prices \cup {0} /\ row.qty \in Quantities \cup {0}
      BY DEF ItemRow
    <3>2. /\ \A p \in Prices \cup {0} : p \in Nat
          /\ \A n \in Quantities \cup {0} : n \in Nat
      BY OrderBookAssumption
    <3>3. QED
      BY <3>1, <3>2
  <2>2. \A n, k \in Nat : n * k \in Nat
    OBVIOUS
  <2>3. QED
    BY <2>1, <2>2
<1>2. QED
  BY <1>1 DEF TypeOK, Due

-----------------------------------------------------------------------------
(* What a step does to the bill of an order. *)

\* The dishes the order has stay as they are, others may come.
Grows(o) ==
  /\ ItemsOf(o) \subseteq ItemsOf(o)'
  /\ \A i \in ItemsOf(o) : Due(i)' = Due(i)
  /\ orders'[o].discount = orders[o].discount

Frozen(o) == Grows(o) /\ ItemsOf(o)' = ItemsOf(o)

LEMMA TotalsAre ==
  ASSUME TypeOK, NEW o \in Orders, IsFiniteSet(ItemsOf(o))
  PROVE  Total(o) \in Nat
<1> PICK f : f = [i \in ItemsOf(o) |-> Due(i)]
  OBVIOUS
<1>1. DOMAIN f = ItemsOf(o) /\ \A i \in ItemsOf(o) : f[i] \in Nat
  BY DuesAre DEF ItemsOf
<1>2. SumOf(f) \in Nat
  BY <1>1, SumsOfAmounts
<1>3. orders[o].discount \in 0..100
  BY OrderBookAssumption DEF TypeOK, OrderRow
<1>4. Net(SumOf(f), orders[o].discount) \in Nat
  <2>1. \A due \in Nat, percent \in 0..100 : Net(due, percent) \in Nat
    <3>1. ASSUME NEW due \in Nat, NEW percent \in 0..100
          PROVE  Net(due, percent) \in Nat
      <4>1. due <= due
        OBVIOUS
      <4>2. QED
        BY <4>1, DiscountsLeaveMoreOfMore
    <3>2. QED
      BY <3>1
  <2>2. QED
    BY <1>2, <1>3, <2>1
<1>5. QED
  BY <1>4, TotalIsNet

LEMMA TotalsGrow ==
  ASSUME TypeOK, TypeOK', NEW o \in Orders, IsFiniteSet(ItemsOf(o)')
  PROVE  /\ Total(o)' \in Nat
         /\ Grows(o) => Total(o) <= Total(o)'
         /\ Frozen(o) => Total(o)' = Total(o)
<1> PICK f : f = [i \in ItemsOf(o) |-> Due(i)]
  OBVIOUS
<1> PICK g : g = [i \in ItemsOf(o)' |-> Due(i)']
  OBVIOUS
<1> PICK T : T = ItemsOf(o)'
  OBVIOUS
<1>1. /\ DOMAIN f = ItemsOf(o) /\ DOMAIN g = T /\ IsFiniteSet(T)
      /\ \A i \in T : g[i] \in Nat
  BY DuesAre DEF ItemsOf
<1>2. SumOf(g) \in Nat
  BY <1>1, SumsOfAmounts
<1>3. orders[o].discount \in 0..100 /\ orders'[o].discount \in 0..100
  BY OrderBookAssumption DEF TypeOK, OrderRow
<1>4. Total(o)' \in Nat
  BY <1>2, <1>3, DiscountsLeaveMoreOfMore, TotalIsNet
<1>5. ASSUME Grows(o) PROVE Total(o) <= Total(o)'
  <2>1. ItemsOf(o) \in SUBSET T /\ \A i \in ItemsOf(o) : f[i] = g[i]
    BY <1>5 DEF Grows
  <2>2. SumOf(f) \in Nat /\ SumOf(f) <= SumOf(g)
    BY <1>1, <2>1, SumsGrowWithTerms
  <2>3. Net(SumOf(f), orders[o].discount) <= Net(SumOf(g), orders[o].discount)
    BY <1>2, <1>3, <2>2, DiscountsLeaveMoreOfMore
  <2>4. QED
    BY <1>5, <2>3, TotalIsNet DEF Grows
<1>6. ASSUME Frozen(o) PROVE Total(o)' = Total(o)
  <2>1. f = g
    BY <1>6 DEF Frozen, Grows
  <2>2. QED
    BY <1>6, <2>1, TotalIsNet DEF Frozen, Grows
<1>7. QED
  BY <1>4, <1>5, <1>6

\* Of a bill that holds money, only dishes that come change the total, and only
\* if the order is not paid yet.
DishesKept(o) ==
  /\ IsFiniteSet(ItemsOf(o)')
  /\ Frozen(o) \/ ((Grows(o) \/ Unpaid(o)) /\ orders'[o].status # "paid")

Finite == \A o \in Orders : IsFiniteSet(ItemsOf(o))

\* Orders whose dishes nobody touches.
LEMMA UntouchedKept ==
  ASSUME Finite, NEW o \in Orders,
         \A i \in Items : items[i].order = o \/ items'[i].order = o
                            => items'[i] = items[i],
         orders'[o].discount = orders[o].discount
  PROVE  Frozen(o) /\ DishesKept(o)
<1>1. ItemsOf(o)' = ItemsOf(o) /\ \A i \in ItemsOf(o) : items'[i] = items[i]
  BY DEF ItemsOf
<1>2. \A i \in ItemsOf(o) : Due(i)' = Due(i)
  BY <1>1 DEF Due
<1>3. QED
  BY <1>1, <1>2 DEF Finite, Frozen, Grows, DishesKept

\* Columns the bill does not look at.
LEMMA ColumnsKept ==
  ASSUME Finite, NEW o \in Orders,
         \A i \in Items : /\ items'[i].order = items[i].order
                          /\ items'[i].price = items[i].price
                          /\ items'[i].qty = items[i].qty
                          /\ items'[i].courtesy = items[i].courtesy
                          /\ items'[i].voided = items[i].voided,
         orders'[o].discount = orders[o].discount
  PROVE  Frozen(o) /\ DishesKept(o)
<1>1. ItemsOf(o)' = ItemsOf(o)
  BY DEF ItemsOf
<1>2. \A i \in ItemsOf(o) : Due(i)' = Due(i)
  BY DEF Due, ItemsOf
<1>3. QED
  BY <1>1, <1>2 DEF Finite, Frozen, Grows, DishesKept

\* A batch of dishes joins one order.
LEMMA PlacedKept ==
  ASSUME TypeOK, Finite, NEW o \in Orders, NEW batch \in Batches, NEW n,
         items' = Placed(batch, o, n),
         \A r \in Orders \ {o} : orders'[r].discount = orders[r].discount,
         orders'[o].discount = orders[o].discount \/ Unpaid(o),
         orders'[o].status # "paid"
  PROVE  \A r \in Orders : DishesKept(r)
<1>1. PICK S \in SUBSET FreeItems : IsFiniteSet(S) /\ batch \in [S -> Lines]
  BY DEF Batches
<1>2. /\ \A i \in S : items[i].order = None /\ items'[i].order = o
      /\ \A i \in Items \ S : items'[i] = items[i]
      /\ S \in SUBSET Items
  BY <1>1 DEF Placed, FreeItems
<1>3. None \notin Orders
  BY OrderBookAssumption
<1>4. ASSUME NEW r \in Orders \ {o} PROVE DishesKept(r)
  BY <1>2, <1>3, UntouchedKept
<1>5. DishesKept(o)
  <2>1. ItemsOf(o)' = ItemsOf(o) \cup S
    BY <1>2, <1>3 DEF ItemsOf
  <2>2. IsFiniteSet(ItemsOf(o)')
    <3>1. IsFiniteSet(ItemsOf(o)) /\ IsFiniteSet(S)
      BY <1>1 DEF Finite
    <3>2. IsFiniteSet(ItemsOf(o) \cup S)
      BY <3>1, FS_Union
    <3>3. QED
      BY <2>1, <3>2
  <2>3. \A i \in ItemsOf(o) : items'[i] = items[i]
    BY <1>2, <1>3 DEF ItemsOf
  <2>4. \A i \in ItemsOf(o) : Due(i)' = Due(i)
    BY <2>3 DEF Due
  <2>5. Grows(o) \/ Unpaid(o)
    BY <2>1, <2>4 DEF Grows
  <2>6. QED
    BY <2>2, <2>5 DEF DishesKept
<1>6. QED
  BY <1>4, <1>5

\* One dish of an order without payments changes, or leaves it.
LEMMA DishChangeKept ==
  ASSUME Finite, NEW o \in Orders, NEW i \in Items, items[i].order = o,
         Unpaid(o), orders' = orders, orders[o].status # "paid",
         \A j \in Items \ {i} : items'[j] = items[j],
         items'[i].order \in {o, None}
  PROVE  \A r \in Orders : DishesKept(r)
<1>1. None \notin Orders
  BY OrderBookAssumption
<1>2. ASSUME NEW r \in Orders \ {o} PROVE DishesKept(r)
  BY <1>1, <1>2, UntouchedKept
<1>3. ItemsOf(o)' \in SUBSET ItemsOf(o)
  BY DEF ItemsOf
<1>4. IsFiniteSet(ItemsOf(o)')
  <2>1. IsFiniteSet(ItemsOf(o))
    BY DEF Finite
  <2>2. QED
    BY <1>3, <2>1, FS_Subset
<1>5. QED
  BY <1>2, <1>4 DEF DishesKept

-----------------------------------------------------------------------------
(* What an order was charged never exceeds its total. *)

BillSound(o) ==
  /\ IsFiniteSet(ItemsOf(o)) /\ IsFiniteSet(PaymentsOf(o))
  /\ Paid(o) <= Total(o)
  /\ orders[o].status = "paid" => Paid(o) = Total(o)

BillInv ==
  /\ MoneyInv
  /\ \A p \in Payments : payments[p].amount >= 0
  /\ \A o \in Orders : BillSound(o)

\* Steps at the tables.
LEMMA TableStepBills ==
  ASSUME MoneyInv, Finite, TypeOK', TableStep
  PROVE  \A r \in Orders : DishesKept(r)
<1>1. ASSUME NEW w \in Staff, NEW o \in Orders, NEW type \in Types,
             NEW t \in Tables \cup {None}, NEW batch \in Batches,
             OpenOrder(w, o, type, t, batch)
      PROVE  \A r \in Orders : DishesKept(r)
  <2>1. Unpaid(o)
    BY <1>1, OpenHoldsNothing DEF OpenOrder, Billed, Unpaid
  <2>2. /\ orders'[o].status # "paid"
        /\ \A r \in Orders \ {o} : orders'[r] = orders[r]
    BY <1>1 DEF OpenOrder, MoneyInv, TypeOK, NoOrder
  <2>3. items' = Placed(batch, o, 0) /\ TypeOK
    BY <1>1 DEF OpenOrder, MoneyInv
  <2>4. QED
    BY <2>1, <2>2, <2>3, PlacedKept
<1>2. ASSUME NEW o \in Orders, NEW t \in Tables, MoveOrder(o, t)
      PROVE  \A r \in Orders : DishesKept(r)
  <2>1. \A r \in Orders : orders'[r].discount = orders[r].discount
    BY <1>2 DEF MoveOrder, MoneyInv, TypeOK, OrderRow
  <2>2. QED
    BY <1>2, <2>1, UntouchedKept DEF MoveOrder
<1>3. ASSUME NEW a \in Staff, NEW o \in Orders, NEW source \in Orders,
             MergeOrders(a, o, source)
      PROVE  \A r \in Orders : DishesKept(r)
  <2>1. /\ o # source /\ Unpaid(o) /\ Unpaid(source)
        /\ IsActive(o) /\ IsActive(source)
    BY <1>3 DEF MergeOrders, Mergeable, Adjustable
  <2>2. /\ orders'[o].status = MergedStatus(o, source)
        /\ orders'[source].status = "cancelled"
        /\ \A r \in Orders \ {o, source} : orders'[r] = orders[r]
    BY <1>3 DEF MergeOrders, MoneyInv, TypeOK, OrderRow
  <2>3. orders'[o].status # "paid" /\ orders'[source].status # "paid"
    BY <2>1, <2>2 DEF MergedStatus, IsActive, Active
  <2>4. /\ \A i \in Items : items[i].order = source => items'[i].order = o
        /\ \A i \in Items : items[i].order # source => items'[i] = items[i]
    BY <1>3 DEF MergeOrders, MoneyInv, TypeOK, ItemRow
  <2>5. ASSUME NEW r \in Orders \ {o, source} PROVE DishesKept(r)
    BY <2>2, <2>4, UntouchedKept
  <2>6. /\ ItemsOf(o)' = ItemsOf(o) \cup ItemsOf(source)
        /\ ItemsOf(source)' = {}
    BY <2>1, <2>4 DEF ItemsOf
  <2>7. IsFiniteSet(ItemsOf(o)') /\ IsFiniteSet(ItemsOf(source)')
    <3>1. IsFiniteSet(ItemsOf(o)) /\ IsFiniteSet(ItemsOf(source))
      BY DEF Finite
    <3>2. IsFiniteSet(ItemsOf(o) \cup ItemsOf(source))
      BY <3>1, FS_Union
    <3>3. IsFiniteSet({})
      BY FS_EmptySet
    <3>4. QED
      BY <2>6, <3>2, <3>3
  <2>8. QED
    BY <2>1, <2>3, <2>5, <2>7 DEF DishesKept
<1>4. ASSUME NEW t \in Tables, UpdateTable(t)
      PROVE  \A r \in Orders : DishesKept(r)
  BY <1>4, UntouchedKept DEF UpdateTable
<1>5. QED
  BY <1>1, <1>2, <1>3, <1>4 DEF TableStep

\* Steps on the dishes of an order.
LEMMA ItemStepBills ==
  ASSUME MoneyInv, Finite, TypeOK', NEW o \in Orders, ItemStep(o)
  PROVE  \A r \in Orders : DishesKept(r)
<1>1. ASSUME NEW batch \in Batches, AddItems(o, batch)
      PROVE  \A r \in Orders : DishesKept(r)
  <2>1. /\ \A r \in Orders : orders'[r].discount = orders[r].discount
        /\ orders'[o].status = IF orders[o].status \in {"ready", "served"}
                                 THEN "in_kitchen" ELSE orders[o].status
    BY <1>1 DEF AddItems, MoneyInv, TypeOK, OrderRow
  <2>2. orders'[o].status # "paid"
    BY <1>1, <2>1 DEF AddItems, IsActive, Active
  <2>3. items' = Placed(batch, o, RoundOfNew(o)) /\ TypeOK
    BY <1>1 DEF AddItems, MoneyInv
  <2>4. QED
    BY <2>1, <2>2, <2>3, PlacedKept
<1>2. ASSUME NEW i \in Items, RemoveItem(o, i)
      PROVE  \A r \in Orders : DishesKept(r)
  <2>1. /\ items[i].order = o /\ orders' = orders
        /\ orders[o].status \notin Billed
        /\ \A j \in Items \ {i} : items'[j] = items[j]
        /\ items'[i].order = None
    BY <1>2 DEF RemoveItem, ItemsEditable, Billed, NoItem, MoneyInv, TypeOK
  <2>2. Unpaid(o) /\ orders[o].status # "paid"
    BY <2>1, OpenHoldsNothing DEF Unpaid, Billed
  <2>3. QED
    BY <2>1, <2>2, DishChangeKept
<1>3. ASSUME NEW i \in Items, VoidItem(o, i)
      PROVE  \A r \in Orders : DishesKept(r)
  <2>1. /\ items[i].order = o /\ orders' = orders
        /\ Unpaid(o) /\ orders[o].status # "paid"
        /\ \A j \in Items \ {i} : items'[j] = items[j]
        /\ items'[i].order = o
    BY <1>3 DEF VoidItem, VoidableItem, IsActive, Active, LiveItems, ItemsOf,
                MoneyInv, TypeOK, ItemRow
  <2>2. QED
    BY <2>1, DishChangeKept
<1>4. ASSUME NEW i \in Items, NEW qty \in Quantities, ChangeItem(o, i, qty)
      PROVE  \A r \in Orders : DishesKept(r)
  <2>1. /\ items[i].order = o /\ orders' = orders
        /\ orders[o].status \notin Billed
        /\ \A j \in Items \ {i} : items'[j] = items[j]
        /\ items'[i].order = o
    BY <1>4 DEF ChangeItem, ItemsEditable, Billed, MoneyInv, TypeOK, ItemRow
  <2>2. Unpaid(o) /\ orders[o].status # "paid"
    BY <2>1, OpenHoldsNothing DEF Unpaid, Billed
  <2>3. QED
    BY <2>1, <2>2, DishChangeKept
<1>5. ASSUME NEW i \in Items, NEW granted \in BOOLEAN, SetCourtesy(o, i, granted)
      PROVE  \A r \in Orders : DishesKept(r)
  <2>1. /\ items[i].order = o /\ orders' = orders
        /\ Unpaid(o) /\ orders[o].status # "paid"
        /\ \A j \in Items \ {i} : items'[j] = items[j]
        /\ items'[i].order = o
    BY <1>5 DEF SetCourtesy, Adjustable, IsActive, Active, LiveItems, ItemsOf,
                MoneyInv, TypeOK, ItemRow
  <2>2. QED
    BY <2>1, DishChangeKept
<1>6. QED
  BY <1>1, <1>2, <1>3, <1>4, <1>5 DEF ItemStep

\* Steps of the kitchen, whose rounds and deductions the bill does not count.
LEMMA KitchenStepBills ==
  ASSUME MoneyInv, Finite, TypeOK', NEW o \in Orders, KitchenStep(o)
  PROVE  \A r \in Orders : DishesKept(r)
<1>1. \A i \in Items : /\ items'[i].order = items[i].order
                       /\ items'[i].price = items[i].price
                       /\ items'[i].qty = items[i].qty
                       /\ items'[i].courtesy = items[i].courtesy
                       /\ items'[i].voided = items[i].voided
  <2>1. CASE SendToKitchen(o)
    BY <2>1 DEF SendToKitchen, MoneyInv, TypeOK, ItemRow
  <2>2. CASE ~SendToKitchen(o)
    BY <2>2 DEF KitchenStep, MarkReady, MarkServed, CancelOrder
  <2>3. QED
    BY <2>1, <2>2
<1>2. \A r \in Orders : orders'[r].discount = orders[r].discount
  <2>1. CASE SendToKitchen(o)
    BY <2>1 DEF SendToKitchen, MoneyInv, TypeOK, OrderRow
  <2>2. CASE MarkReady(o)
    BY <2>2 DEF MarkReady, MoneyInv, TypeOK, OrderRow
  <2>3. CASE MarkServed(o)
    BY <2>3 DEF MarkServed, MoneyInv, TypeOK, OrderRow
  <2>4. CASE CancelOrder(o)
    BY <2>4 DEF CancelOrder, MoneyInv, TypeOK, OrderRow
  <2>5. QED
    BY <2>1, <2>2, <2>3, <2>4 DEF KitchenStep
<1>3. QED
  BY <1>1, <1>2, ColumnsKept

\* Charging and voiding payments mark dishes as paid or not, no more.
LEMMA PayBills ==
  ASSUME MoneyInv, Finite, TypeOK', NEW a, NEW o \in Orders, NEW p, NEW s,
         NEW amount, NEW S, NEW method, NEW tip,
         Pay(a, o, p, s, amount, S, method, tip)
  PROVE  \A r \in Orders : Frozen(r) /\ DishesKept(r)
<1>1. \A i \in Items : /\ items'[i].order = items[i].order
                       /\ items'[i].price = items[i].price
                       /\ items'[i].qty = items[i].qty
                       /\ items'[i].courtesy = items[i].courtesy
                       /\ items'[i].voided = items[i].voided
  BY DEF Pay, MoneyInv, TypeOK, ItemRow
<1>2. \A r \in Orders : orders'[r].discount = orders[r].discount
  BY DEF Pay, MoneyInv, TypeOK, OrderRow
<1>3. QED
  BY <1>1, <1>2, ColumnsKept

LEMMA VoidPaymentBills ==
  ASSUME MoneyInv, Finite, TypeOK', NEW o \in Orders, NEW p \in Payments,
         VoidPayment(o, p)
  PROVE  \A r \in Orders : Frozen(r) /\ DishesKept(r)
<1>1. \A i \in Items : /\ items'[i].order = items[i].order
                       /\ items'[i].price = items[i].price
                       /\ items'[i].qty = items[i].qty
                       /\ items'[i].courtesy = items[i].courtesy
                       /\ items'[i].voided = items[i].voided
  BY DEF VoidPayment, Released, MoneyInv, TypeOK, ItemRow
<1>2. \A r \in Orders : orders'[r].discount = orders[r].discount
  BY DEF VoidPayment, MoneyInv, TypeOK, OrderRow
<1>3. QED
  BY <1>1, <1>2, ColumnsKept

LEMMA DiscountBills ==
  ASSUME MoneyInv, Finite, TypeOK', NEW a, NEW o \in Orders,
         NEW percent \in Percents, ApplyDiscount(a, o, percent)
  PROVE  \A r \in Orders : DishesKept(r)
<1>1. /\ Unpaid(o) /\ items' = items /\ orders[o].status # "paid"
      /\ \A r \in Orders \ {o} : orders'[r] = orders[r]
      /\ orders'[o].status = orders[o].status
  BY DEF ApplyDiscount, Adjustable, IsActive, Active, MoneyInv, TypeOK, OrderRow
<1>2. ASSUME NEW r \in Orders \ {o} PROVE DishesKept(r)
  BY <1>1, UntouchedKept
<1>3. DishesKept(o)
  <2>1. ItemsOf(o)' = ItemsOf(o)
    BY <1>1 DEF ItemsOf
  <2>2. QED
    BY <1>1, <2>1 DEF Finite, DishesKept
<1>4. QED
  BY <1>2, <1>3

\* Every step: only more dishes change what an order with money comes to.
LEMMA DishesAreKept ==
  ASSUME MoneyInv, Finite, [Next]_vars
  PROVE  \A r \in Orders : DishesKept(r)
<1>1. TypeOK'
  BY NextTypeOK DEF MoneyInv
<1>2. CASE TableStep
  BY <1>1, <1>2, TableStepBills
<1>3. CASE items' = items /\ orders' = orders
  BY <1>3, UntouchedKept
<1>4. CASE CashStep
  BY <1>3, <1>4 DEF CashStep, OpenCash, CloseCash
<1>5. ASSUME NEW o \in Orders, ItemStep(o) PROVE \A r \in Orders : DishesKept(r)
  BY <1>1, <1>5, ItemStepBills
<1>6. ASSUME NEW o \in Orders, KitchenStep(o)
      PROVE  \A r \in Orders : DishesKept(r)
  BY <1>1, <1>6, KitchenStepBills
<1>7. ASSUME NEW o \in Orders, PayStep(o) PROVE \A r \in Orders : DishesKept(r)
  <2>1. ASSUME NEW a \in Staff, NEW percent \in Percents,
               ApplyDiscount(a, o, percent)
        PROVE  \A r \in Orders : DishesKept(r)
    BY <1>1, <2>1, DiscountBills
  <2>2. ASSUME NEW a \in Staff, NEW p \in Payments, NEW s \in Sessions,
               NEW method \in Methods, NEW tip \in Tips,
               \/ ChargeBalance(a, o, p, s, method, tip)
               \/ \E amount \in 1..MaxMoney :
                    ChargePart(a, o, p, s, amount, method, tip)
               \/ \E S \in SUBSET ItemsOf(o) :
                    ChargeItems(a, o, p, s, S, method, tip)
        PROVE  \A r \in Orders : DishesKept(r)
    <3>1. PICK amount, S : Pay(a, o, p, s, amount, S, method, tip)
      BY <2>2, ChargesArePayments
    <3>2. QED
      BY <1>1, <3>1, PayBills
  <2>3. ASSUME NEW p \in Payments, VoidPayment(o, p)
        PROVE  \A r \in Orders : DishesKept(r)
    BY <1>1, <2>3, VoidPaymentBills
  <2>4. QED
    BY <1>7, <2>1, <2>2, <2>3 DEF PayStep
<1>8. ASSUME NEW o \in Orders, InvoiceStep(o)
      PROVE  \A r \in Orders : DishesKept(r)
  BY <1>3, <1>8 DEF InvoiceStep, IssueInvoice, VoidInvoice
<1>9. CASE UNCHANGED vars
  BY <1>3, <1>9 DEF vars
<1>10. QED
  BY <1>2, <1>4, <1>5, <1>6, <1>7, <1>8, <1>9 DEF Next

-----------------------------------------------------------------------------
(* What was paid. *)

LEMMA PaidIs ==
  ASSUME NEW o, IsFiniteSet(PaymentsOf(o)),
         \A p \in PaymentsOf(o) : payments[p].amount \in Nat
  PROVE  Paid(o) \in Nat
<1> PICK f : f = [p \in PaymentsOf(o) |-> payments[p].amount]
  OBVIOUS
<1>1. DOMAIN f = PaymentsOf(o) /\ \A p \in PaymentsOf(o) : f[p] \in Nat
  OBVIOUS
<1>2. SumOf(f) \in Nat
  BY <1>1, SumsOfAmounts
<1>3. QED
  BY <1>2 DEF Paid

LEMMA NothingPaid ==
  ASSUME NEW o, Unpaid(o)
  PROVE  Paid(o) = 0
<1>1. \A f : SumOf(f) = SumOn(f, DOMAIN f)
  BY FoldIsSum DEF SumOf
<1>2. DOMAIN [p \in {} |-> payments[p].amount] = {}
  OBVIOUS
<1>3. SumOf([p \in {} |-> payments[p].amount]) = 0
  BY <1>1, <1>2, SumOfNothing
<1>4. QED
  BY <1>3 DEF Unpaid, Paid

\* One payment more: q is how the payments are after it.
LEMMA OneMorePayment ==
  ASSUME NEW S, IsFiniteSet(S), NEW q, NEW x, x \notin S, q[x].amount \in Nat,
         \A p \in S : payments[p].amount \in Nat /\ q[p].amount = payments[p].amount
  PROVE  SumOf([p \in S \cup {x} |-> q[p].amount])
           = q[x].amount + SumOf([p \in S |-> payments[p].amount])
<1> DEFINE f == [p \in S \cup {x} |-> q[p].amount]
           g == [p \in S |-> payments[p].amount]
<1>1. /\ IsFiniteSet(S \cup {x}) /\ DOMAIN f = S \cup {x} /\ DOMAIN g = S
      /\ \A p \in S : f[p] = g[p] /\ g[p] \in Nat
      /\ f[x] = q[x].amount
      /\ \A p \in S \cup {x} : f[p] \in Nat
  BY FS_AddElement
<1> HIDE DEF f, g
<1>2. SumOf(f) = SumOn(f, S \cup {x}) /\ SumOf(g) = SumOn(g, S)
  BY <1>1, SumsOfAmounts
<1>3. SumOn(f, S \cup {x}) = f[x] + SumOn(f, S)
  <2>1. \A p \in S \cup {x} : f[p] \in Int
    BY <1>1
  <2>2. QED
    BY <2>1, SumPutsIn
<1>4. SumOn(f, S) = SumOn(g, S)
  BY <1>1, SumsAgree
<1>5. SumOf(f) = q[x].amount + SumOf(g)
  BY <1>1, <1>2, <1>3, <1>4
<1>6. QED
  BY <1>5 DEF f, g

-----------------------------------------------------------------------------
\* Live payments are of amounts that are not negative.
LEMMA AmountsAre ==
  ASSUME BillInv, NEW o
  PROVE  \A q \in PaymentsOf(o) : payments[q].amount \in Nat
<1>1. ASSUME NEW q \in Payments PROVE payments[q].amount \in Nat
  <2>1. payments[q].amount \in Money /\ payments[q].amount >= 0
    BY DEF BillInv, MoneyInv, TypeOK, PaymentRow
  <2>2. QED
    BY <2>1, OrderBookAssumption DEF Money
<1>2. QED
  BY <1>1 DEF PaymentsOf

\* A charge is of something between nothing and the balance: for dishes too,
\* whose share is what is left of them after the discount.
LEMMA ChargesAreWithinBalance ==
  ASSUME BillInv, NEW a, NEW o \in Orders, NEW p, NEW s, NEW method, NEW tip,
         \/ ChargeBalance(a, o, p, s, method, tip)
         \/ \E amount \in 1..MaxMoney :
              ChargePart(a, o, p, s, amount, method, tip)
         \/ \E S \in SUBSET ItemsOf(o) : ChargeItems(a, o, p, s, S, method, tip)
  PROVE  \E amount \in Nat : /\ amount <= Balance(o)
                             /\ \E S : Pay(a, o, p, s, amount, S, method, tip)
<1>1. /\ IsFiniteSet(ItemsOf(o)) /\ Paid(o) <= Total(o)
      /\ \A q \in PaymentsOf(o) : payments[q].amount \in Nat
      /\ IsFiniteSet(PaymentsOf(o)) /\ TypeOK
  BY AmountsAre DEF BillInv, BillSound, MoneyInv
<1>2. Balance(o) \in Nat
  BY <1>1, TotalsAre, PaidIs DEF Balance
<1>3. CASE ChargeBalance(a, o, p, s, method, tip)
  BY <1>2, <1>3 DEF ChargeBalance
<1>4. ASSUME NEW amount \in 1..MaxMoney,
             ChargePart(a, o, p, s, amount, method, tip)
      PROVE  \E n \in Nat : /\ n <= Balance(o)
                            /\ \E S : Pay(a, o, p, s, n, S, method, tip)
  <2>1. amount \in Nat
    BY OrderBookAssumption
  <2>2. QED
    BY <1>4, <2>1 DEF ChargePart
<1>5. ASSUME NEW S \in SUBSET ItemsOf(o), ChargeItems(a, o, p, s, S, method, tip)
      PROVE  \E n \in Nat : /\ n <= Balance(o)
                            /\ \E T : Pay(a, o, p, s, n, T, method, tip)
  <2> PICK f : f = [i \in S |-> Due(i)]
    OBVIOUS
  <2>1. IsFiniteSet(S) /\ DOMAIN f = S /\ \A i \in S : f[i] \in Nat
    BY <1>1, FS_Subset, DuesAre DEF ItemsOf
  <2>2. SumOf(f) \in Nat
    BY <2>1, SumsOfAmounts
  <2>3. orders[o].discount \in 0..100
    BY <1>1, OrderBookAssumption DEF TypeOK, OrderRow
  <2>4. Net(SumOf(f), orders[o].discount) \in Nat
    BY <2>2, <2>3, DiscountsLeaveMoreOfMore
  <2>5. AmountForItems(o, S) \in Nat
    BY <1>2, <2>4 DEF AmountForItems, Net
  <2>6. QED
    BY <1>5, <2>5 DEF ChargeItems, CanPayFor
<1>6. QED
  BY <1>3, <1>4, <1>5

\* Steps that move no money.
LEMMA BillFrame ==
  ASSUME BillInv, MoneyInv', payments' = payments,
         \A o \in Orders : DishesKept(o),
         \A o \in Orders : orders'[o].status = "paid" => orders[o].status = "paid"
  PROVE  BillInv'
<1>1. ASSUME NEW o \in Orders PROVE BillSound(o)'
  <2>1. /\ PaymentsOf(o)' = PaymentsOf(o) /\ Paid(o)' = Paid(o)
        /\ IsFiniteSet(PaymentsOf(o)) /\ IsFiniteSet(ItemsOf(o)')
        /\ TypeOK /\ TypeOK' /\ Paid(o) <= Total(o)
        /\ orders[o].status = "paid" => Paid(o) = Total(o)
    BY DEF PaymentsOf, Paid, BillInv, BillSound, DishesKept, MoneyInv
  <2>2. \A q \in PaymentsOf(o) : payments[q].amount \in Nat
    BY AmountsAre
  <2>3. Paid(o) \in Nat /\ Total(o) \in Nat
    BY <2>1, <2>2, PaidIs, TotalsAre DEF BillInv, BillSound
  <2>4. /\ Total(o)' \in Nat
        /\ Grows(o) => Total(o) <= Total(o)'
        /\ Frozen(o) => Total(o)' = Total(o)
    BY <2>1, TotalsGrow
  <2>5. CASE Frozen(o)
    BY <2>1, <2>4, <2>5 DEF BillSound
  <2>6. CASE Grows(o) /\ orders'[o].status # "paid"
    <3>1. Paid(o)' <= Total(o)'
      BY <2>1, <2>3, <2>4, <2>6
    <3>2. QED
      BY <2>1, <2>6, <3>1 DEF BillSound
  <2>7. CASE Unpaid(o) /\ orders'[o].status # "paid"
    <3>1. Paid(o) = 0
      BY <2>7, NothingPaid
    <3>2. Paid(o)' <= Total(o)'
      BY <2>1, <2>4, <3>1
    <3>3. QED
      BY <2>1, <2>7, <3>2 DEF BillSound
  <2>8. QED
    BY <2>5, <2>6, <2>7 DEF DishesKept
<1>2. \A p \in Payments : payments'[p].amount >= 0
  BY DEF BillInv
<1>3. QED
  BY <1>1, <1>2 DEF BillInv

LEMMA PayKeepsBills ==
  ASSUME BillInv, MoneyInv', NEW a, NEW o \in Orders, NEW p \in Payments, NEW s,
         NEW amount \in Nat, NEW S, NEW method, NEW tip,
         Pay(a, o, p, s, amount, S, method, tip), amount <= Balance(o)
  PROVE  BillInv'
<1>1. TypeOK /\ TypeOK' /\ MoneyInv /\ Finite
  BY DEF BillInv, BillSound, MoneyInv, Finite
<1>2. /\ payments[p].order = None /\ payments'[p].order = o
      /\ ~payments'[p].voided /\ payments'[p].amount = amount
      /\ \A q \in Payments \ {p} : payments'[q] = payments[q]
  BY <1>1 DEF Pay, NoPayment, TypeOK
<1>3. /\ \A r \in Orders \ {o} : orders'[r] = orders[r]
      /\ orders'[o].status = IF amount = Balance(o) THEN "paid"
                                                    ELSE orders[o].status
      /\ orders[o].status = "served"
  BY <1>1 DEF Pay, TypeOK, OrderRow
<1>4. None \notin Orders
  BY OrderBookAssumption
<1>5. ASSUME NEW r \in Orders
      PROVE  /\ Total(r)' = Total(r) /\ Total(r) \in Nat /\ Paid(r) \in Nat
             /\ IsFiniteSet(ItemsOf(r)') /\ IsFiniteSet(PaymentsOf(r))
             /\ Paid(r) <= Total(r)
             /\ orders[r].status = "paid" => Paid(r) = Total(r)
             /\ \A q \in PaymentsOf(r) : payments[q].amount \in Nat
  <2>1. Frozen(r) /\ IsFiniteSet(ItemsOf(r)')
    BY <1>1, PayBills DEF DishesKept
  <2>2. \A q \in PaymentsOf(r) : payments[q].amount \in Nat
    BY AmountsAre
  <2>3. Total(r)' = Total(r) /\ Total(r) \in Nat /\ Paid(r) \in Nat
    BY <1>1, <2>1, <2>2, TotalsGrow, TotalsAre, PaidIs DEF BillInv, BillSound
  <2>4. QED
    BY <2>1, <2>2, <2>3 DEF BillInv, BillSound
<1>6. ASSUME NEW r \in Orders \ {o} PROVE BillSound(r)'
  <2>1. PaymentsOf(r)' = PaymentsOf(r)
    BY <1>2, <1>4 DEF PaymentsOf
  <2>2. \A q \in PaymentsOf(r) : payments'[q] = payments[q]
    BY <1>2, <1>4 DEF PaymentsOf
  <2>3. Paid(r)' = Paid(r)
    BY <2>1, <2>2 DEF Paid
  <2>4. QED
    BY <1>3, <1>5, <2>1, <2>3 DEF BillSound
<1>7. BillSound(o)'
  <2> PICK T : T = PaymentsOf(o)
    OBVIOUS
  <2>1. PaymentsOf(o)' = T \cup {p} /\ p \notin T
    BY <1>2, <1>4 DEF PaymentsOf
  <2>2. /\ IsFiniteSet(T) /\ payments'[p].amount \in Nat
        /\ \A q \in T : /\ payments[q].amount \in Nat
                        /\ payments'[q].amount = payments[q].amount
    <3>1. \A q \in T : q \in Payments \ {p} /\ payments[q].amount \in Nat
      BY <1>5, <2>1 DEF PaymentsOf
    <3>2. IsFiniteSet(T)
      BY <1>5
    <3>3. payments'[p].amount \in Nat
      BY <1>2
    <3>4. QED
      BY <1>2, <3>1, <3>2, <3>3
  <2>3. SumOf([q \in T \cup {p} |-> payments'[q].amount])
          = payments'[p].amount + SumOf([q \in T |-> payments[q].amount])
    BY <2>1, <2>2, OneMorePayment
  <2>4. Paid(o)' = amount + Paid(o)
    BY <1>2, <2>1, <2>3 DEF Paid
  <2>5. IsFiniteSet(PaymentsOf(o)')
    BY <2>1, <2>2, FS_AddElement
  <2>6. Paid(o)' <= Total(o)'
    BY <1>5, <2>4 DEF Balance
  <2>7. orders'[o].status = "paid" => Paid(o)' = Total(o)'
    <3>1. orders'[o].status = "paid" => amount = Total(o) - Paid(o)
      BY <1>3 DEF Balance
    <3>2. QED
      BY <1>5, <2>4, <3>1
  <2>8. QED
    BY <1>5, <2>5, <2>6, <2>7 DEF BillSound
<1>8. \A q \in Payments : payments'[q].amount >= 0
  BY <1>2 DEF BillInv
<1>9. QED
  BY <1>6, <1>7, <1>8 DEF BillInv

LEMMA VoidKeepsBills ==
  ASSUME BillInv, MoneyInv', NEW o \in Orders, NEW p \in Payments,
         VoidPayment(o, p)
  PROVE  BillInv'
<1>1. TypeOK /\ TypeOK' /\ MoneyInv /\ Finite
  BY DEF BillInv, BillSound, MoneyInv, Finite
<1>2. /\ payments'[p].voided /\ payments'[p].amount = payments[p].amount
      /\ payments'[p].order = payments[p].order /\ p \in PaymentsOf(o)
      /\ \A q \in Payments \ {p} : payments'[q] = payments[q]
  BY <1>1 DEF VoidPayment, VoidablePayment, TypeOK, PaymentRow
<1>3. /\ \A r \in Orders \ {o} : orders'[r] = orders[r]
      /\ orders'[o].status = "served"
  BY <1>1 DEF VoidPayment, StatusAfterVoid, TypeOK, OrderRow
<1>4. ASSUME NEW r \in Orders
      PROVE  /\ Total(r)' = Total(r) /\ Total(r) \in Nat /\ Paid(r) \in Nat
             /\ IsFiniteSet(ItemsOf(r)') /\ IsFiniteSet(PaymentsOf(r))
             /\ Paid(r) <= Total(r)
             /\ orders[r].status = "paid" => Paid(r) = Total(r)
             /\ \A q \in PaymentsOf(r) : payments[q].amount \in Nat
  <2>1. Frozen(r) /\ IsFiniteSet(ItemsOf(r)')
    BY <1>1, VoidPaymentBills DEF DishesKept
  <2>2. \A q \in PaymentsOf(r) : payments[q].amount \in Nat
    BY AmountsAre
  <2>3. Total(r)' = Total(r) /\ Total(r) \in Nat /\ Paid(r) \in Nat
    BY <1>1, <2>1, <2>2, TotalsGrow, TotalsAre, PaidIs DEF BillInv, BillSound
  <2>4. QED
    BY <2>1, <2>2, <2>3 DEF BillInv, BillSound
<1>5. ASSUME NEW r \in Orders \ {o} PROVE BillSound(r)'
  <2>1. PaymentsOf(r)' = PaymentsOf(r)
    BY <1>2 DEF PaymentsOf
  <2>2. \A q \in PaymentsOf(r) : payments'[q].amount = payments[q].amount
    BY <1>2 DEF PaymentsOf
  <2>3. Paid(r)' = Paid(r)
    BY <2>1, <2>2 DEF Paid
  <2>4. QED
    BY <1>3, <1>4, <2>1, <2>3 DEF BillSound
<1>6. BillSound(o)'
  <2> PICK T : T = PaymentsOf(o) \ {p}
    OBVIOUS
  <2>1. PaymentsOf(o)' = T /\ T \cup {p} = PaymentsOf(o) /\ p \notin T
    BY <1>2 DEF PaymentsOf
  <2>2. /\ IsFiniteSet(T) /\ payments[p].amount \in Nat
        /\ \A q \in T : payments[q].amount \in Nat /\ payments'[q] = payments[q]
    <3>1. IsFiniteSet(T)
      BY <1>4, <2>1, FS_Subset
    <3>2. \A q \in T : q \in Payments \ {p} /\ payments[q].amount \in Nat
      BY <1>4, <2>1 DEF PaymentsOf
    <3>3. payments[p].amount \in Nat
      BY <1>2, <1>4
    <3>4. QED
      BY <1>2, <3>1, <3>2, <3>3
  <2>3. SumOf([q \in T \cup {p} |-> payments[q].amount])
          = payments[p].amount + SumOf([q \in T |-> payments[q].amount])
    BY <2>1, <2>2, OneMorePayment
  <2>4. SumOf([q \in T |-> payments[q].amount])
          = SumOf([q \in T |-> payments'[q].amount])
    BY <2>2
  <2>5. Paid(o) = payments[p].amount + Paid(o)'
    BY <2>1, <2>3, <2>4 DEF Paid
  <2>6. Paid(o)' \in Nat
    <3> PICK f : f = [q \in T |-> payments'[q].amount]
      OBVIOUS
    <3>1. DOMAIN f = T /\ \A q \in T : f[q] \in Nat
      BY <2>2
    <3>2. SumOf(f) \in Nat
      BY <2>2, <3>1, SumsOfAmounts
    <3>3. QED
      BY <2>1, <3>2 DEF Paid
  <2>7. Paid(o)' <= Total(o)'
    BY <1>4, <2>2, <2>5, <2>6
  <2>8. IsFiniteSet(PaymentsOf(o)')
    BY <2>1, <2>2
  <2>9. QED
    BY <1>3, <1>4, <2>7, <2>8 DEF BillSound
<1>7. \A q \in Payments : payments'[q].amount >= 0
  BY <1>2 DEF BillInv
<1>8. QED
  BY <1>5, <1>6, <1>7 DEF BillInv

LEMMA PayStepKeepsBills ==
  ASSUME BillInv, MoneyInv', NEW o \in Orders, PayStep(o)
  PROVE  BillInv'
<1>1. ASSUME NEW a \in Staff, NEW percent \in Percents,
             ApplyDiscount(a, o, percent)
      PROVE  BillInv'
  <2>1. TypeOK' /\ MoneyInv /\ Finite
    BY DEF BillInv, BillSound, MoneyInv, Finite
  <2>2. \A r \in Orders : DishesKept(r)
    BY <1>1, <2>1, DiscountBills
  <2>3. \A r \in Orders : orders'[r].status = orders[r].status
    BY <1>1, <2>1 DEF ApplyDiscount, MoneyInv, TypeOK, OrderRow
  <2>4. QED
    BY <1>1, <2>2, <2>3, BillFrame DEF ApplyDiscount
<1>2. ASSUME NEW a \in Staff, NEW p \in Payments, NEW s \in Sessions,
             NEW method \in Methods, NEW tip \in Tips,
             \/ ChargeBalance(a, o, p, s, method, tip)
             \/ \E amount \in 1..MaxMoney :
                  ChargePart(a, o, p, s, amount, method, tip)
             \/ \E S \in SUBSET ItemsOf(o) :
                  ChargeItems(a, o, p, s, S, method, tip)
      PROVE  BillInv'
  <2>1. PICK amount \in Nat : /\ amount <= Balance(o)
                              /\ \E S : Pay(a, o, p, s, amount, S, method, tip)
    BY <1>2, ChargesAreWithinBalance
  <2>2. PICK S : Pay(a, o, p, s, amount, S, method, tip)
    BY <2>1
  <2>3. QED
    BY <2>1, <2>2, PayKeepsBills
<1>3. ASSUME NEW p \in Payments, VoidPayment(o, p) PROVE BillInv'
  BY <1>3, VoidKeepsBills
<1>4. QED
  BY <1>1, <1>2, <1>3 DEF PayStep

LEMMA BillInit == Init => BillInv
<1> SUFFICES ASSUME Init PROVE BillInv
  OBVIOUS
<1>1. None \notin Orders
  BY OrderBookAssumption
<1>2. /\ \A p \in Payments : payments[p].order = None /\ payments[p].amount = 0
      /\ \A i \in Items : items[i].order = None
      /\ \A o \in Orders : orders[o].status = "none" /\ orders[o].discount = 0
  BY DEF Init, NoPayment, NoItem, NoOrder
<1>3. ASSUME NEW o \in Orders PROVE BillSound(o)
  <2>1. ItemsOf(o) = {} /\ PaymentsOf(o) = {}
    BY <1>1, <1>2 DEF ItemsOf, PaymentsOf
  <2>2. IsFiniteSet(ItemsOf(o)) /\ IsFiniteSet(PaymentsOf(o))
    BY <2>1, FS_EmptySet
  <2>3. Total(o) \in Nat
    BY <2>2, InitTypeOK, TotalsAre
  <2>4. Paid(o) = 0
    BY <2>1, NothingPaid DEF Unpaid
  <2>5. QED
    BY <1>2, <2>2, <2>3, <2>4 DEF BillSound
<1>4. QED
  BY <1>2, <1>3, MoneyInit DEF BillInv

LEMMA BillNext == BillInv /\ [Next]_vars => BillInv'
<1> SUFFICES ASSUME BillInv, [Next]_vars PROVE BillInv'
  OBVIOUS
<1>1. MoneyInv /\ TypeOK /\ Finite
  BY DEF BillInv, BillSound, MoneyInv, Finite
<1>2. MoneyInv' /\ \A r \in Orders : DishesKept(r)
  BY <1>1, MoneyNext, DishesAreKept
<1>3. CASE UNCHANGED <<orders, payments>>
  BY <1>2, <1>3, BillFrame
<1>4. CASE TableStep
  <2>1. /\ payments' = payments
        /\ \A r \in Orders : orders'[r].status = "paid"
                               => orders[r].status = "paid"
    <3>1. ASSUME NEW w \in Staff, NEW o \in Orders, NEW type \in Types,
                 NEW t \in Tables \cup {None}, NEW batch \in Batches,
                 OpenOrder(w, o, type, t, batch)
          PROVE  /\ payments' = payments
                 /\ \A r \in Orders : orders'[r].status = "paid"
                                        => orders[r].status = "paid"
      BY <1>1, <3>1 DEF OpenOrder, TypeOK, NoOrder
    <3>2. ASSUME NEW o \in Orders, NEW t \in Tables, MoveOrder(o, t)
          PROVE  /\ payments' = payments
                 /\ \A r \in Orders : orders'[r].status = orders[r].status
      BY <1>1, <3>2 DEF MoveOrder, TypeOK, OrderRow
    <3>3. ASSUME NEW a \in Staff, NEW o \in Orders, NEW source \in Orders,
                 MergeOrders(a, o, source)
          PROVE  /\ payments' = payments
                 /\ \A r \in Orders : orders'[r].status = "paid"
                                        => orders[r].status = "paid"
      <4>1. /\ orders'[o].status = MergedStatus(o, source)
            /\ orders'[source].status = "cancelled" /\ o # source
            /\ \A r \in Orders \ {o, source} : orders'[r] = orders[r]
        BY <1>1, <3>3 DEF MergeOrders, TypeOK, OrderRow
      <4>2. MergedStatus(o, source) \in Active
        BY <3>3 DEF MergeOrders, Mergeable, Adjustable, IsActive, MergedStatus
      <4>3. QED
        BY <3>3, <4>1, <4>2 DEF MergeOrders, Active
    <3>4. ASSUME NEW t \in Tables, UpdateTable(t)
          PROVE  payments' = payments /\ orders' = orders
      BY <3>4 DEF UpdateTable
    <3>5. QED
      BY <1>4, <3>1, <3>2, <3>3, <3>4 DEF TableStep
  <2>2. QED
    BY <1>2, <2>1, BillFrame
<1>5. ASSUME NEW o \in Orders, ItemStep(o) \/ KitchenStep(o) PROVE BillInv'
  <2>1. /\ payments' = payments
        /\ \A r \in Orders \ {o} : orders'[r] = orders[r]
        /\ orders'[o].status = "paid" => orders[o].status = "paid"
    <3>1. ASSUME NEW batch \in Batches, AddItems(o, batch)
          PROVE  /\ payments' = payments
                 /\ \A r \in Orders \ {o} : orders'[r] = orders[r]
                 /\ orders'[o].status = "paid" => orders[o].status = "paid"
      BY <1>1, <3>1 DEF AddItems, TypeOK, OrderRow
    <3>2. ASSUME NEW i \in Items,
                 \/ RemoveItem(o, i)
                 \/ VoidItem(o, i)
                 \/ \E qty \in Quantities : ChangeItem(o, i, qty)
                 \/ \E granted \in BOOLEAN : SetCourtesy(o, i, granted)
          PROVE  payments' = payments /\ orders' = orders
      BY <3>2 DEF RemoveItem, VoidItem, ChangeItem, SetCourtesy
    <3>3. CASE SendToKitchen(o)
      BY <1>1, <3>3 DEF SendToKitchen, TypeOK, OrderRow
    <3>4. CASE MarkReady(o)
      BY <1>1, <3>4 DEF MarkReady, TypeOK, OrderRow
    <3>5. CASE MarkServed(o)
      BY <1>1, <3>5 DEF MarkServed, TypeOK, OrderRow
    <3>6. CASE CancelOrder(o)
      BY <1>1, <3>6 DEF CancelOrder, TypeOK, OrderRow
    <3>7. QED
      BY <1>5, <3>1, <3>2, <3>3, <3>4, <3>5, <3>6 DEF ItemStep, KitchenStep
  <2>2. QED
    BY <1>2, <2>1, BillFrame
<1>6. ASSUME NEW o \in Orders, PayStep(o) PROVE BillInv'
  BY <1>2, <1>6, PayStepKeepsBills
<1>7. CASE CashStep
  BY <1>3, <1>7 DEF CashStep, OpenCash, CloseCash
<1>8. ASSUME NEW o \in Orders, InvoiceStep(o) PROVE BillInv'
  BY <1>3, <1>8 DEF InvoiceStep, IssueInvoice, VoidInvoice
<1>9. CASE UNCHANGED vars
  BY <1>3, <1>9 DEF vars
<1>10. QED
  BY <1>4, <1>5, <1>6, <1>7, <1>8, <1>9 DEF Next

LEMMA BillAlways == Spec => []BillInv
<1>1. Init => BillInv
  BY BillInit
<1>2. BillInv /\ [Next]_vars => BillInv'
  BY BillNext
<1>3. QED
  BY <1>1, <1>2, PTL DEF Spec

LEMMA BillInvImplies == BillInv => NeverOvercharged /\ PaidIsSettled
<1> SUFFICES ASSUME BillInv PROVE NeverOvercharged /\ PaidIsSettled
  OBVIOUS
<1>1. ASSUME NEW o \in Orders
      PROVE  /\ 0 <= Paid(o) /\ Paid(o) <= Total(o)
             /\ orders[o].status = "paid" => Balance(o) = 0
  <2>1. /\ \A q \in PaymentsOf(o) : payments[q].amount \in Nat
        /\ IsFiniteSet(PaymentsOf(o)) /\ IsFiniteSet(ItemsOf(o)) /\ TypeOK
        /\ BillSound(o)
    BY AmountsAre DEF BillInv, BillSound, MoneyInv
  <2>2. Paid(o) \in Nat /\ Total(o) \in Nat
    BY <2>1, PaidIs, TotalsAre
  <2>3. QED
    BY <2>1, <2>2 DEF BillSound, Balance
<1>2. QED
  BY <1>1 DEF NeverOvercharged, PaidIsSettled

\* Whatever is discounted, invited, voided, split, added later or merged,
\* nobody is charged more than the bill: for any number of diners and dishes
\* and any rounding, what charges of dishes leave to the last one included.
THEOREM NobodyPaysTooMuch == Spec => []NeverOvercharged
<1>1. BillInv => NeverOvercharged
  BY BillInvImplies
<1>2. QED
  BY <1>1, BillAlways, PTL

\* A paid order owes nothing, to the cent, and stays so.
THEOREM PaidOrdersAreSettled == Spec => []PaidIsSettled
<1>1. BillInv => PaidIsSettled
  BY BillInvImplies
<1>2. QED
  BY <1>1, BillAlways, PTL

\* While an order holds money its total never falls: discounts, courtesies and
\* voided dishes have to come before the first payment.
THEOREM TotalsNeverFall == Spec => PaidBillOnlyGrows
<1> DEFINE OnlyGrows ==
      \A o \in Orders : ~Unpaid(o) /\ ~Unpaid(o)' => Total(o)' >= Total(o)
<1>1. BillInv /\ [Next]_vars => [OnlyGrows]_vars
  <2> SUFFICES ASSUME BillInv, [Next]_vars, NEW o \in Orders, ~Unpaid(o)
               PROVE  Total(o)' >= Total(o)
    OBVIOUS
  <2>1. MoneyInv /\ TypeOK /\ Finite /\ IsFiniteSet(ItemsOf(o))
    BY DEF BillInv, BillSound, MoneyInv, Finite
  <2>2. TypeOK' /\ DishesKept(o)
    BY <2>1, NextTypeOK, DishesAreKept
  <2>3. Grows(o) /\ IsFiniteSet(ItemsOf(o)')
    BY <2>2 DEF DishesKept, Frozen
  <2>4. Total(o) \in Nat /\ Total(o)' \in Nat /\ Total(o) <= Total(o)'
    BY <2>1, <2>2, <2>3, TotalsAre, TotalsGrow
  <2>5. QED
    BY <2>4
<1>2. QED
  BY <1>1, BillAlways, PTL DEF Spec, PaidBillOnlyGrows

=============================================================================
