------------------------------ MODULE CashDesk ------------------------------
(***************************************************************************)
(* What the cash register promises, whatever the program does to orders    *)
(* and payments: one drawer at a time, money moves only in the open        *)
(* drawer, and closing it signs exactly what the drawer should hold.  What *)
(* was signed never changes, nor does what a closed drawer took in.        *)
(***************************************************************************)
CONSTANTS Sessions, None

VARIABLES
  drawer,  \* per session, the cash it should hold
  phase,   \* per session: "none", "open" or "closed"
  signed   \* per session, what its closing signed (None before)

vars == <<drawer, phase, signed>>

Init ==
  /\ drawer \in [Sessions -> {0}]
  /\ phase = [s \in Sessions |-> "none"]
  /\ signed = [s \in Sessions |-> None]

\* Whatever happens to the money, it happens in the drawer of s.
OnlyDrawer(s) == drawer' = [drawer EXCEPT ![s] = drawer'[s]]

\* The drawer opens with some cash in it, and only if no other is open.
Open(s) ==
  /\ \A r \in Sessions : phase[r] # "open"
  /\ phase[s] = "none"
  /\ phase' = [phase EXCEPT ![s] = "open"]
  /\ OnlyDrawer(s)
  /\ UNCHANGED signed

\* Money goes into or comes out of the open drawer.
Move(s) ==
  /\ phase[s] = "open"
  /\ OnlyDrawer(s)
  /\ UNCHANGED <<phase, signed>>

Close(s) ==
  /\ phase[s] = "open"
  /\ phase' = [phase EXCEPT ![s] = "closed"]
  /\ signed' = [signed EXCEPT ![s] = drawer[s]]
  /\ UNCHANGED drawer

Next == \E s \in Sessions : Open(s) \/ Move(s) \/ Close(s)

Spec == Init /\ [][Next]_vars

=============================================================================
