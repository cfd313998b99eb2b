------------------------------ MODULE TableDiary ------------------------------
(***************************************************************************)
(* What the reservations of a restaurant promise: a diary in which nobody  *)
(* writes a reservation over another of the same table, and in which what  *)
(* was closed stays as it was closed.                                      *)
(***************************************************************************)
EXTENDS Integers

CONSTANTS
  Bookings,
  Entries,  \* which table is kept (None: not said yet), from when, how long
  None

VARIABLE booking

Holding == {"booked", "seated"}
Closings == {"seated", "cancelled", "no_show"}
Blank == [status |-> "none", entry |-> None]

\* Two stays at one table that meet in time; without a table nothing does.
Cross(e, f) ==
  /\ e.table = f.table /\ e.table # None
  /\ e.from < f.from + f.len /\ f.from < e.from + e.len

Against(e, b) ==
  {c \in Bookings \ {b} : /\ booking[c].status \in Holding
                          /\ Cross(booking[c].entry, e)}

Init == booking = [b \in Bookings |-> Blank]

Write(b, e) ==
  /\ booking[b].status \in {"none", "booked"}
  /\ Against(e, b) = {}
  /\ booking' = [booking EXCEPT ![b] = [status |-> "booked", entry |-> e]]

Close(b, status) ==
  /\ booking[b].status = "booked"
  /\ booking' = [booking EXCEPT ![b].status = status]

Next ==
  \E b \in Bookings :
    \/ \E e \in Entries : Write(b, e)
    \/ \E status \in Closings : Close(b, status)

Spec == Init /\ [][Next]_booking

\* Two reservations in force never meet at one table.
NoOverlap ==
  \A b \in Bookings :
    booking[b].status \in Holding => Against(booking[b].entry, b) = {}
=============================================================================
