--------------------------- MODULE OutboxContract ---------------------------
(***************************************************************************)
(* What the outbox promises the rest of the program, without leases,       *)
(* workers or time: a purchase is settled exactly once, in the step that   *)
(* takes its message off the queue, and as accepted only with an order the *)
(* supplier really created for it.  The supplier may create more orders    *)
(* than the one recorded (delivery is at least once).                      *)
(***************************************************************************)
EXTENDS Naturals

CONSTANT Msgs   \* messages, with the purchase each refers to

VARIABLES
  queue,    \* messages still to be delivered
  ledger,   \* what the purchase says of the order
  order,    \* the supplier's order the purchase names, 0 for none
  placed    \* orders the supplier has created

cvars == <<queue, ledger, order, placed>>

CInit ==
  /\ queue = {}
  /\ ledger = [m \in Msgs |-> "none"]
  /\ order = [m \in Msgs |-> 0]
  /\ placed = [m \in Msgs |-> 0]

\* Purchase and message appear together.
Submit(m) ==
  /\ ledger[m] = "none"
  /\ ledger' = [ledger EXCEPT ![m] = "pending"]
  /\ queue' = queue \cup {m}
  /\ UNCHANGED <<order, placed>>

\* The supplier creates an order, possibly on behalf of a delivery that is
\* late or will be repeated.
Place(m) ==
  /\ ledger[m] # "none"
  /\ placed' = [placed EXCEPT ![m] = @ + 1]
  /\ UNCHANGED <<queue, ledger, order>>

Accept(m, n) ==
  /\ m \in queue
  /\ n \in 1..placed[m]
  /\ queue' = queue \ {m}
  /\ ledger' = [ledger EXCEPT ![m] = "accepted"]
  /\ order' = [order EXCEPT ![m] = n]
  /\ UNCHANGED placed

Refuse(m) ==
  /\ m \in queue
  /\ queue' = queue \ {m}
  /\ ledger' = [ledger EXCEPT ![m] = "failed"]
  /\ UNCHANGED <<order, placed>>

CNext == \E m \in Msgs :
  \/ Submit(m)
  \/ Place(m)
  \/ \E n \in 1..placed[m] : Accept(m, n)
  \/ Refuse(m)

CSpec == CInit /\ [][CNext]_cvars
=============================================================================
