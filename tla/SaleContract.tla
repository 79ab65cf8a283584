---------------------------- MODULE SaleContract ----------------------------
(***************************************************************************)
(* What both platforms promise of the launch of one sale, without locks,   *)
(* suppliers, marks or messages to the operator.  Passes - redirects of    *)
(* the buyer, cycles of a poller - may work on the sale side by side; each *)
(* of them begins only while the sale has no outcome on record, is at most *)
(* once given an order, and records as accepted only the order it was      *)
(* given.  GgselOrders and DigisellerOrders both implement this.           *)
(***************************************************************************)
EXTENDS Naturals

CONSTANT Passes  \* those that may come to launch the sale

VARIABLES
  paid,      \* has the buyer paid?
  made,      \* orders made for the sale: by a supplier, or put on the queue
  accepted,  \* rows in purchases of an accepted order
  refused,   \* rows in purchases of an error
  handed,    \* has the sale been put on the queue of the outbox?
  pass       \* where each pass stands: "out" or "in"; "holds" an order that is
             \* not on record yet; "failed" to get one and has still to say so

svars == <<paid, made, accepted, refused, handed, pass>>

Init ==
  /\ paid \in BOOLEAN
  /\ made = 0
  /\ accepted = 0
  /\ refused = 0
  /\ handed = FALSE
  /\ pass = [p \in Passes |-> "out"]

Move(p, s) == pass' = [pass EXCEPT ![p] = s]

Pay ==
  /\ ~paid
  /\ paid' = TRUE
  /\ UNCHANGED <<made, accepted, refused, handed, pass>>

\* A pass finds no row of the sale.
Enter(p) ==
  /\ pass[p] = "out"
  /\ accepted + refused = 0
  /\ Move(p, "in")
  /\ UNCHANGED <<paid, made, accepted, refused, handed>>

\* The one call for an order names one ...
Named(p) ==
  /\ paid
  /\ pass[p] = "in"
  /\ made' \in Nat /\ made' > made
  /\ Move(p, "holds")
  /\ UNCHANGED <<paid, accepted, refused, handed>>

\* ... or none, although the supplier may have created some.
Unnamed(p) ==
  /\ paid
  /\ pass[p] = "in"
  /\ made' \in Nat /\ made' >= made
  /\ Move(p, "failed") \/ Move(p, "out")
  /\ UNCHANGED <<paid, accepted, refused, handed>>

\* The order that the pass was given is put on record.
Accept(p) ==
  /\ pass[p] = "holds"
  /\ accepted' = accepted + 1
  /\ Move(p, "out")
  /\ UNCHANGED <<paid, made, refused, handed>>

\* The sale is put on the queue of the outbox, once, with its record.
HandOver(p) ==
  /\ paid
  /\ pass[p] = "in"
  /\ ~handed
  /\ handed' = TRUE
  /\ made' = made + 1
  /\ accepted' = accepted + 1
  /\ Move(p, "out")
  /\ UNCHANGED <<paid, refused>>

Refuse(p) ==
  /\ paid
  /\ pass[p] \in {"in", "failed"}
  /\ refused' = refused + 1
  /\ Move(p, "out")
  /\ UNCHANGED <<paid, made, accepted, handed>>

\* A pass gives up, is turned away or dies.
Leave(p) ==
  /\ pass[p] # "out"
  /\ Move(p, "out")
  /\ UNCHANGED <<paid, made, accepted, refused, handed>>

Act(p) ==
  \/ Enter(p)
  \/ Named(p)
  \/ Unnamed(p)
  \/ Accept(p)
  \/ HandOver(p)
  \/ Refuse(p)
  \/ Leave(p)

Next == Pay \/ \E p \in Passes : Act(p)

Spec == Init /\ [][Next]_svars
=============================================================================
